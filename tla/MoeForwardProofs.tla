------------------------- MODULE MoeForwardProofs -------------------------
(***************************************************************************)
(* Proofs about MoeForward for every number of layers and positions and    *)
(* every set of switches that meets the hypotheses: what the decoder keeps *)
(* is exact, flags are consumed by the forward that raised them, and each  *)
(* wanted prediction is submitted once.                                    *)
(*                                                                         *)
(* The first two follow how far a forward is exact.  A block that leaves a *)
(* throwaway row raises a flag (ServedExact), and only a verify that will  *)
(* be run again raises one (FlagsAreRead); up to the first flagged layer   *)
(* the caches and the captured inputs are exact, which is all a replay of  *)
(* the suffix starts from.  Attention moved ahead feeds the cache that the *)
(* layer itself would have fed, so lengths count the forwards.             *)
(*                                                                         *)
(* The third says which <<target, source, block>> a forward has submitted  *)
(* so far, as a predicate of the layer it is in.  It rests on generations: *)
(* a forward ends with the last layer, so the next one begins with a new   *)
(* generation and finds no record of the old one.                          *)
(*                                                                         *)
(* A prefill is exact because its groups cover every route: in the order   *)
(* by expert each expert has a stretch that ends at its mark, groups end   *)
(* at marks, and a group holds the experts whose stretches it covers       *)
(* (RouteIsGrouped).  The loops are FoldLeft; Unroll gives the values they *)
(* go through.                                                             *)
(***************************************************************************)
EXTENDS MoeForward, FiniteSetTheorems, SequenceTheorems, WellFoundedInduction, TLAPS

-----------------------------------------------------------------------------
(* Hypotheses *)

\* A demand that may meet more misses than its budget corrects.
MayOverflow(c) ==
    c.async /\ ~c.single /\ ~(c.partition /\ c.localfix) /\ \E l \in Layers : c.budget[l] > 0

\* The GPU answers alone only where the forward is verified optimistically, and a demand
\* may overflow its budget only in the mode that reads the flags and runs again.
ReplaysExactly ==
    \A c \in Configs :
        /\ c.exactgpu => c.optimistic
        /\ MayOverflow(c) => /\ c.verify = "batch" /\ c.commits /\ ~c.localfix
                             /\ c.optimistic => c.progressive \subseteq {0}

-----------------------------------------------------------------------------
(* Lists and the loops over them. *)

\* Every nonempty set of numbers has a least element (least-number principle).
LEMMA LeastElement ==
  ASSUME NEW T \in SUBSET Nat, T # {}
  PROVE  \E a \in T : \A y \in T : a <= y
  <1> DEFINE Below == OpToRel(<, Nat)
  <1>0. T \subseteq Nat
    OBVIOUS
  <1>1. IsWellFoundedOn(Below, Nat)
    BY NatLessThanWellFounded, Zenon
  <1>2. \A y, z \in Nat : y < z => <<y, z>> \in Below
    BY SMT DEF OpToRel
  <1> HIDE DEF Below
  <1>3. \E z \in T : \A y \in T : ~ (<<y, z>> \in Below)
    BY <1>1, <1>0, WFMin, Zenon
  <1>4. PICK z \in T : \A y \in T : ~ (<<y, z>> \in Below)
    BY <1>3
  <1>5. ASSUME NEW y \in T PROVE z <= y
    <2>1. y \in Nat /\ z \in Nat
      BY <1>0
    <2>2. ~ (y < z)
      BY <2>1, <1>2, <1>4, Zenon
    <2> QED BY <2>1, <2>2
  <1> QED BY <1>5

\* A set of numbers that holds 0 and with each number the next holds all up to n.
LEMMA Induction ==
  ASSUME NEW n \in Nat, NEW T, 0 \in T, \A i \in 0 .. n - 1 : i \in T => i + 1 \in T
  PROVE  \A i \in 0 .. n : i \in T
  <1> SUFFICES ASSUME NEW k \in 0 .. n, k \notin T PROVE FALSE
    OBVIOUS
  <1> DEFINE Out == {i \in 0 .. n : i \notin T}
  <1>1. Out \in SUBSET Nat /\ Out # {}
    OBVIOUS
  <1>2. PICK a \in Out : \A y \in Out : a <= y
    BY <1>1, LeastElement, Zenon
  <1>3. a # 0 /\ a \in 1 .. n
    BY <1>2
  <1>4. a - 1 \in 0 .. n - 1 /\ a - 1 \in T
    <2>1. a - 1 \in 0 .. n - 1
      BY <1>3
    <2>2. a - 1 \notin Out
      BY <2>1, <1>2, <1>3
    <2> QED BY <2>1, <2>2
  <1>5. a \in T
    BY <1>3, <1>4
  <1> QED BY <1>5, <1>2

\* A loop over s that starts with a and steps with F, which keeps the type A.
Typed(A, B, F, a, s) == F \in [A \X B -> A] /\ a \in A /\ s \in Seq(B)

\* What FoldLeft recurses over.
Iterates(F, a, s, m, h) ==
    h = [d \in SUBSET (1 .. m) |-> IF d = {} THEN a ELSE F[<<h[d \ {Max(d)}], s[Max(d)]>>]]

\* The greatest position of a prefix is its last ...
LEMMA MaxOf ==
  ASSUME NEW m \in Nat \ {0}, NEW d \in SUBSET (1 .. m), m \in d
  PROVE  Max(d) = m
  <1>1. \A x \in d : m >= x
    OBVIOUS
  <1>2. PICK x : x = Max(d)
    OBVIOUS
  <1>3. x \in d /\ \A y \in d : x >= y
    BY <1>1, <1>2, Zenon DEF Max
  <1>4. x \in Nat /\ x >= m /\ m >= x
    BY <1>1, <1>3
  <1> QED BY <1>2, <1>4

\* ... and a set of positions has a greatest one.
LEMMA MaxIn ==
  ASSUME NEW n \in Nat, NEW d \in SUBSET (1 .. n), d # {}
  PROVE  Max(d) \in d
  <1> DEFINE Up == {i \in 0 .. n : \A x \in d : x <= i}
  <1>1. Up \in SUBSET Nat /\ n \in Up
    OBVIOUS
  <1>2. PICK a \in Up : \A y \in Up : a <= y
    BY <1>1, LeastElement
  <1>3. a \in d
    <2>1. PICK x \in d : TRUE
      OBVIOUS
    <2>2. a >= 1 /\ a - 1 \in 0 .. n /\ a - 1 \notin Up
      BY <1>2, <2>1
    <2>3. PICK y \in d : ~(y <= a - 1)
      BY <2>2
    <2> QED BY <1>2, <2>3
  <1>4. \A y \in d : a >= y
    BY <1>2
  <1> QED BY <1>3, <1>4, Zenon DEF Max

\* The recursion has a solution.
LEMMA IterExists ==
  ASSUME NEW A, NEW B, NEW F, NEW a, NEW s, Typed(A, B, F, a, s)
  PROVE  \E h \in [SUBSET (1 .. Len(s)) -> A] : Iterates(F, a, s, Len(s), h)
  <1> USE DEF Typed
  <1> DEFINE T == {m \in 0 .. Len(s) : \E h \in [SUBSET (1 .. m) -> A] : Iterates(F, a, s, m, h)}
  <1>0. Len(s) \in Nat
    OBVIOUS
  <1>1. 0 \in T
    <2> DEFINE h == [d \in SUBSET (1 .. 0) |-> a]
    <2>1. h \in [SUBSET (1 .. 0) -> A]
      OBVIOUS
    <2>2. \A d \in SUBSET (1 .. 0) : d = {}
      OBVIOUS
    <2>3. Iterates(F, a, s, 0, h)
      BY <2>2 DEF Iterates
    <2> QED BY <2>1, <2>3, <1>0
  <1>2. ASSUME NEW m \in 0 .. Len(s) - 1, m \in T PROVE m + 1 \in T
    <2>1. PICK g \in [SUBSET (1 .. m) -> A] : Iterates(F, a, s, m, g)
      BY <1>2
    <2> DEFINE n == m + 1
               v(d) == F[<<g[d \ {n}], s[n]>>]
               h == [d \in SUBSET (1 .. n) |-> IF n \in d THEN v(d) ELSE g[d]]
    <2>2. n \in 1 .. Len(s) /\ s[n] \in B
      BY <1>0, <1>2
    <2>3. \A d \in SUBSET (1 .. n) : d \ {n} \in SUBSET (1 .. m) /\ (n \notin d => d \in SUBSET (1 .. m))
      BY <1>2
    <2>4. h \in [SUBSET (1 .. n) -> A]
      BY <2>2, <2>3
    <2>5. ASSUME NEW d \in SUBSET (1 .. n)
          PROVE  h[d] = IF d = {} THEN a ELSE F[<<h[d \ {Max(d)}], s[Max(d)]>>]
      <3>1. CASE n \in d
        <4>1. Max(d) = n
          BY <3>1, <1>2, MaxOf
        <4>2. d \ {n} \in SUBSET (1 .. n) /\ n \notin d \ {n}
          BY <2>3
        <4>3. h[d \ {n}] = g[d \ {n}]
          BY <4>2
        <4> QED BY <3>1, <4>1, <4>3
      <3>2. CASE n \notin d
        <4>1. d \in SUBSET (1 .. m)
          BY <2>3, <3>2
        <4>2. h[d] = g[d]
          BY <3>2
        <4>3. g[d] = IF d = {} THEN a ELSE F[<<g[d \ {Max(d)}], s[Max(d)]>>]
          BY <2>1, <4>1 DEF Iterates
        <4>4. CASE d # {}
          <5>1. d \ {Max(d)} \in SUBSET (1 .. n) /\ n \notin d \ {Max(d)}
            BY <3>2
          <5>2. h[d \ {Max(d)}] = g[d \ {Max(d)}]
            BY <5>1
          <5> QED BY <4>2, <4>3, <4>4, <5>2
        <4> QED BY <4>2, <4>3, <4>4
      <3> QED BY <3>1, <3>2
    <2> HIDE DEF h
    <2>6. Iterates(F, a, s, n, h)
      <3> DEFINE H == [d \in SUBSET (1 .. n) |-> IF d = {} THEN a ELSE F[<<h[d \ {Max(d)}], s[Max(d)]>>]]
      <3>1. h = H
        BY <2>4, <2>5
      <3> QED BY <3>1 DEF Iterates
    <2> QED BY <2>4, <2>6, <1>0, <1>2
  <1> HIDE DEF T
  <1>3. \A m \in 0 .. Len(s) : m \in T
    BY <1>0, <1>1, <1>2, Induction
  <1>4. Len(s) \in T
    BY <1>0, <1>3
  <1> QED BY <1>4 DEF T

\* f[i] is what folding F over the first i elements of s makes of a.
Goes(A, F, a, s, f) ==
    /\ f \in [0 .. Len(s) -> A]
    /\ f[0] = a
    /\ \A i \in 1 .. Len(s) : f[i] = F[<<f[i - 1], s[i]>>]

\* h solves the recursion as far as its values are in A.
Solves(A, F, a, s, h) ==
    /\ h[{}] = a
    /\ \A d \in SUBSET (1 .. Len(s)) :
           d # {} /\ h[d \ {Max(d)}] \in A => h[d] = F[<<h[d \ {Max(d)}], s[Max(d)]>>]

\* A solution of the recursion, seen along the prefixes of the sequence.
LEMMA Unroll ==
  ASSUME NEW A, NEW B, NEW F, NEW a, NEW s, NEW h,
         Typed(A, B, F, a, s), Solves(A, F, a, s, h)
  PROVE  \E f : Goes(A, F, a, s, f) /\ f[Len(s)] = h[1 .. Len(s)]
  <1> USE DEF Typed
  <1> DEFINE T == {m \in 0 .. Len(s) : h[1 .. m] \in A}
             f == [m \in 0 .. Len(s) |-> h[1 .. m]]
  <1>0. Len(s) \in Nat
    OBVIOUS
  <1>1. 0 \in T
    <2>1. 1 .. 0 = {}
      OBVIOUS
    <2> QED BY <2>1, <1>0 DEF Solves
  <1>2. ASSUME NEW m \in 1 .. Len(s)
        PROVE  /\ s[m] \in B
               /\ m - 1 \in T => h[1 .. m] = F[<<h[1 .. m - 1], s[m]>>]
    <2>1. Max(1 .. m) = m
      BY <1>2, MaxOf
    <2>2. (1 .. m) \ {m} = 1 .. m - 1
      OBVIOUS
    <2>3. (1 .. m) \in SUBSET (1 .. Len(s)) /\ (1 .. m) # {}
      <3>1. m \in 1 .. m
        BY <1>2
      <3>2. \A i \in 1 .. m : i \in 1 .. Len(s)
        BY <1>0
      <3> QED BY <3>1, <3>2
    <2>4. s[m] \in B
      BY <1>0
    <2>5. m - 1 \in T => h[1 .. m - 1] \in A
      OBVIOUS
    <2> HIDE DEF T
    <2>6. ASSUME h[1 .. m - 1] \in A PROVE h[1 .. m] = F[<<h[1 .. m - 1], s[m]>>]
      <3>1. h[(1 .. m) \ {Max(1 .. m)}] \in A
        BY <2>1, <2>2, <2>6
      <3>2. h[1 .. m] = F[<<h[(1 .. m) \ {Max(1 .. m)}], s[Max(1 .. m)]>>]
        BY <2>3, <3>1 DEF Solves
      <3> QED BY <3>2, <2>1, <2>2
    <2> QED BY <2>4, <2>5, <2>6
  <1>3. ASSUME NEW m \in 0 .. Len(s) - 1, m \in T PROVE m + 1 \in T
    <2>1. m + 1 \in 1 .. Len(s) /\ (m + 1) - 1 = m
      BY <1>0
    <2>2. h[1 .. m + 1] = F[<<h[1 .. m], s[m + 1]>>] /\ s[m + 1] \in B
      BY <2>1, <1>2, <1>3
    <2>3. h[1 .. m] \in A
      BY <1>3
    <2> QED BY <2>1, <2>2, <2>3
  <1> HIDE DEF T
  <1>4. \A m \in 0 .. Len(s) : m \in T
    BY <1>0, <1>1, <1>3, Induction
  <1>5. f \in [0 .. Len(s) -> A]
    BY <1>4 DEF T
  <1>6. Goes(A, F, a, s, f)
    <2>1. f[0] = a
      <3>1. 1 .. 0 = {}
        OBVIOUS
      <3> QED BY <3>1, <1>0 DEF Solves
    <2>2. ASSUME NEW m \in 1 .. Len(s) PROVE f[m] = F[<<f[m - 1], s[m]>>]
      <3>1. m - 1 \in 0 .. Len(s)
        BY <1>0
      <3> QED BY <3>1, <1>2, <1>4
    <2> QED BY <1>5, <2>1, <2>2 DEF Goes
  <1>7. f[Len(s)] = h[1 .. Len(s)]
    BY <1>0
  <1> QED BY <1>5, <1>6, <1>7

\* Appending adds one element to the set of a list.
LEMMA AppendSet ==
  ASSUME NEW B, NEW s \in Seq(B), NEW x \in B
  PROVE  ToSet(Append(s, x)) = ToSet(s) \cup {x}
  <1> DEFINE t == Append(s, x)
  <1>1. DOMAIN s = 1 .. Len(s) /\ DOMAIN t = 1 .. Len(s) + 1 /\ Len(s) \in Nat
    OBVIOUS
  <1>2. t[Len(s) + 1] = x /\ \A i \in 1 .. Len(s) : t[i] = s[i]
    OBVIOUS
  <1> HIDE DEF t
  <1>3. \A i \in 1 .. Len(s) + 1 : i = Len(s) + 1 \/ i \in 1 .. Len(s)
    BY <1>1
  <1>4. Len(s) + 1 \in DOMAIN t /\ \A i \in DOMAIN s : i \in DOMAIN t
    BY <1>1
  <1>5. ToSet(t) \subseteq ToSet(s) \cup {x}
    BY <1>1, <1>2, <1>3 DEF ToSet
  <1>6. ToSet(s) \cup {x} \subseteq ToSet(t)
    BY <1>1, <1>2, <1>4 DEF ToSet
  <1> QED BY <1>5, <1>6 DEF t
-----------------------------------------------------------------------------
(* The experts of a route in order. *)

Below(S, e) == {x \in S : x < e}

\* A list of numbers uses finitely many.
LEMMA RouteSet ==
  ASSUME NEW s \in Seq(Nat)
  PROVE  /\ DOMAIN s = 1 .. Len(s) /\ Len(s) \in Nat
         /\ ToSet(s) \subseteq Nat /\ IsFiniteSet(ToSet(s)) /\ Cardinality(ToSet(s)) \in Nat
         /\ \A i \in 1 .. Len(s) : s[i] \in ToSet(s)
         /\ \A e \in ToSet(s) : \E i \in 1 .. Len(s) : s[i] = e
  <1>1. DOMAIN s = 1 .. Len(s) /\ Len(s) \in Nat
    OBVIOUS
  <1>2. \A i \in 1 .. Len(s) : s[i] \in Nat
    OBVIOUS
  <1>3. ToSet(s) = {s[i] : i \in 1 .. Len(s)}
    BY <1>1 DEF ToSet
  <1>4. s \in Surjection(1 .. Len(s), ToSet(s))
    <2>1. s \in [1 .. Len(s) -> ToSet(s)]
      BY <1>1, <1>3
    <2> QED BY <2>1, <1>3 DEF Surjection
  <1>5. IsFiniteSet(1 .. Len(s))
    BY <1>1, FS_Interval
  <1>6. IsFiniteSet(ToSet(s))
    BY <1>4, <1>5, FS_Surjection
  <1>7. Cardinality(ToSet(s)) \in Nat
    BY <1>6, FS_CardinalityType
  <1>8. ToSet(s) \subseteq Nat
    BY <1>2, <1>3
  <1> QED BY <1>1, <1>3, <1>6, <1>7, <1>8

\* Each element has a rank of its own ...
LEMMA Ranks ==
  ASSUME NEW S \in SUBSET Nat, IsFiniteSet(S), NEW e \in S
  PROVE  /\ Cardinality(Below(S, e)) \in 0 .. Cardinality(S) - 1
         /\ \A x \in S : x < e => Cardinality(Below(S, x)) < Cardinality(Below(S, e))
  <1>1. Cardinality(S) \in Nat
    BY FS_CardinalityType
  <1>2. Below(S, e) \in SUBSET (S \ {e})
    BY DEF Below
  <1>3. IsFiniteSet(S \ {e}) /\ Cardinality(S \ {e}) = Cardinality(S) - 1
    BY FS_RemoveElement
  <1>4. /\ IsFiniteSet(Below(S, e)) /\ Cardinality(Below(S, e)) <= Cardinality(S) - 1
        /\ Cardinality(Below(S, e)) \in Nat
    BY <1>2, <1>3, FS_Subset, FS_CardinalityType
  <1>5. ASSUME NEW x \in S, x < e PROVE Cardinality(Below(S, x)) < Cardinality(Below(S, e))
    <2>0. ASSUME NEW y \in S, y < x PROVE y < e /\ y # x
      <3>1. x \in Nat /\ y \in Nat /\ e \in Nat
        OBVIOUS
      <3> QED BY <3>1, <2>0, <1>5
    <2>1. Below(S, x) \in SUBSET (Below(S, e) \ {x}) /\ x \in Below(S, e)
      BY <1>5, <2>0 DEF Below
    <2>2. IsFiniteSet(Below(S, e) \ {x}) /\ Cardinality(Below(S, e) \ {x}) = Cardinality(Below(S, e)) - 1
      BY <1>4, <2>1, FS_RemoveElement
    <2>3. Cardinality(Below(S, x)) <= Cardinality(Below(S, e)) - 1 /\ Cardinality(Below(S, x)) \in Nat
      BY <2>1, <2>2, FS_Subset, FS_CardinalityType
    <2> QED BY <2>3, <1>4
  <1> QED BY <1>1, <1>4, <1>5

\* ... so that Ascending lists them all, from the least to the greatest.
InOrder(E, S) ==
    /\ E \in Seq(Nat) /\ Len(E) \in Nat
    /\ \A k \in 1 .. Len(E) : E[k] \in S
    /\ \A e \in S : \E k \in 1 .. Len(E) : E[k] = e
    /\ \A j, k \in 1 .. Len(E) : j < k => E[j] < E[k]

\* Ascending lists a finite set of numbers once each, from the least to the greatest.
LEMMA AscendingFacts ==
  ASSUME NEW S \in SUBSET Nat, IsFiniteSet(S)
  PROVE  InOrder(Ascending(S), S)
  <1> DEFINE n == Cardinality(S)
             E == Ascending(S)
             rank(e) == Cardinality(Below(S, e))
             R == [e \in S |-> rank(e)]
  <1>1. n \in Nat
    BY FS_CardinalityType
  <1>2. \A e \in S : rank(e) \in 0 .. n - 1 /\ \A x \in S : x < e => rank(x) < rank(e)
    BY Ranks
  <1>3. \A e \in S : e \in Nat
    OBVIOUS
  <1> HIDE DEF rank
  <1>4. \A e, x \in S : rank(e) = rank(x) => e = x
    <2> SUFFICES ASSUME NEW e \in S, NEW x \in S, e # x PROVE rank(e) # rank(x)
      OBVIOUS
    <2>1. e < x \/ x < e
      BY <1>3
    <2> QED BY <2>1, <1>2
  <1>5. R \in Injection(S, 0 .. n - 1)
    <2>1. R \in [S -> 0 .. n - 1]
      BY <1>2
    <2>2. IsInjective(R)
      BY <1>4 DEF IsInjective
    <2> QED BY <2>1, <2>2 DEF Injection
  <1>6. IsFiniteSet(0 .. n - 1) /\ Cardinality(0 .. n - 1) = n
    <2> HIDE DEF n
    <2>1. 0 \in Int /\ n - 1 \in Int
      BY <1>1
    <2>2. IsFiniteSet(0 .. n - 1) /\ Cardinality(0 .. n - 1) = IF 0 > n - 1 THEN 0 ELSE (n - 1) - 0 + 1
      BY <2>1, FS_Interval
    <2> QED BY <2>2, <1>1
  <1>7. R \in Surjection(S, 0 .. n - 1)
    BY <1>5, <1>6, FS_Injection
  <1>8. \A k \in 1 .. n : \E e \in S : rank(e) = k - 1
    <2> TAKE k \in 1 .. n
    <2>1. k - 1 \in 0 .. n - 1
      BY <1>1
    <2>2. \E e \in S : R[e] = k - 1
      BY <2>1, <1>7 DEF Surjection
    <2> QED BY <2>2
  <1>9. E = [k \in 1 .. n |-> CHOOSE e \in S : rank(e) = k - 1]
    BY DEF Ascending, rank, Below
  <1> HIDE DEF E, n, R
  <1>10. \A k \in 1 .. n : E[k] \in S /\ rank(E[k]) = k - 1
    BY <1>8, <1>9
  <1>11. E \in Seq(Nat) /\ Len(E) = n
    <2>1. E \in [1 .. n -> Nat]
      BY <1>9, <1>10, <1>3
    <2> QED BY <2>1, <1>1
  <1>12. ASSUME NEW e \in S PROVE \E k \in 1 .. n : E[k] = e
    <2>1. rank(e) + 1 \in 1 .. n /\ (rank(e) + 1) - 1 = rank(e)
      BY <1>1, <1>2
    <2>2. E[rank(e) + 1] \in S /\ rank(E[rank(e) + 1]) = rank(e)
      BY <2>1, <1>10
    <2> QED BY <2>1, <2>2, <1>4
  <1>13. ASSUME NEW j \in 1 .. n, NEW k \in 1 .. n, j < k PROVE E[j] < E[k]
    <2>1. E[j] \in S /\ E[k] \in S /\ rank(E[j]) = j - 1 /\ rank(E[k]) = k - 1
      BY <1>10
    <2>0. rank(E[j]) < rank(E[k])
      BY <2>1, <1>13, <1>1
    <2>2. ~ (E[k] < E[j]) /\ E[j] # E[k]
      <3>1. ASSUME E[k] < E[j] PROVE FALSE
        <4>1. rank(E[k]) < rank(E[j])
          BY <2>1, <1>2, <3>1
        <4> QED BY <4>1, <2>0, <2>1, <1>1
      <3>2. ASSUME E[j] = E[k] PROVE FALSE
        BY <3>2, <2>0, <2>1, <1>1
      <3> QED BY <3>1, <3>2
    <2>3. E[j] \in Nat /\ E[k] \in Nat
      BY <2>1, <1>3
    <2> QED BY <2>2, <2>3
  <1>15. /\ \A k \in 1 .. Len(E) : E[k] \in S
         /\ \A e \in S : \E k \in 1 .. Len(E) : E[k] = e
         /\ \A j, k \in 1 .. Len(E) : j < k => E[j] < E[k]
    BY <1>10, <1>11, <1>12, <1>13
  <1> QED BY <1>1, <1>11, <1>15 DEF E, InOrder

\* What comes before an expert of a list that is sorted.
LEMMA Before ==
  ASSUME NEW E \in Seq(Nat), \A j, k \in 1 .. Len(E) : j < k => E[j] < E[k],
         NEW i \in 1 .. Len(E), NEW k \in 1 .. Len(E)
  PROVE  E[i] <= E[k] <=> i <= k
  <1>1. E[i] \in Nat /\ E[k] \in Nat /\ i \in Nat /\ k \in Nat
    OBVIOUS
  <1>2. i < k => E[i] < E[k]
    OBVIOUS
  <1>3. k < i => E[k] < E[i]
    OBVIOUS
  <1> QED BY <1>1, <1>2, <1>3

Sorted(route) == Ascending(ToSet(route))

\* Where the assignments of the k-th expert end.
Marked(route) == [k \in 0 .. Len(Sorted(route)) |-> IF k = 0 THEN 0 ELSE UpTo(route, Sorted(route)[k])]

\* The marks count the assignments expert by expert.
LEMMA Marks1 ==
  ASSUME NEW route \in Seq(Nat), NEW k \in 1 .. Len(Sorted(route))
  PROVE  /\ Marked(route)[k - 1] \in Nat /\ Uses(route, Sorted(route)[k]) \in Nat \ {0}
         /\ Marked(route)[k] = UpTo(route, Sorted(route)[k])
         /\ Marked(route)[k] = Marked(route)[k - 1] + Uses(route, Sorted(route)[k])
  <1> DEFINE S == ToSet(route)
             E == Sorted(route)
             D == 1 .. Len(route)
             P(i) == {p \in D : route[p] <= E[i]}
             Q == {p \in D : route[p] = E[k]}
             Prev == IF k = 1 THEN {} ELSE P(k - 1)
  <1>1. /\ DOMAIN route = D /\ Len(route) \in Nat
        /\ S \subseteq Nat /\ IsFiniteSet(S)
        /\ \A i \in D : route[i] \in S
        /\ \A e \in S : \E i \in D : route[i] = e
    BY RouteSet
  <1>2. /\ E \in Seq(Nat) /\ Len(E) \in Nat
        /\ \A j \in 1 .. Len(E) : E[j] \in S
        /\ \A e \in S : \E j \in 1 .. Len(E) : E[j] = e
        /\ \A j, i \in 1 .. Len(E) : j < i => E[j] < E[i]
    <2>1. S \in SUBSET Nat
      BY <1>1
    <2>2. E = Ascending(S)
      BY DEF Sorted
    <2> HIDE DEF S, E
    <2>3. InOrder(E, S)
      BY <1>1, <2>1, <2>2, AscendingFacts
    <2> QED BY <2>3 DEF InOrder
  <1>3. k \in 1 .. Len(E) /\ k \in Nat
    BY <1>2
  <1>4. \A i, j \in 1 .. Len(E) : E[i] <= E[j] <=> i <= j
    <2> HIDE DEF E
    <2> QED BY <1>2, Before
  <1>5. Marked(route) = [i \in 0 .. Len(E) |-> IF i = 0 THEN 0 ELSE UpTo(route, E[i])]
    BY DEF Marked
  <1>6. \A i \in 1 .. Len(E) : UpTo(route, E[i]) = Cardinality(P(i))
    BY <1>1 DEF UpTo
  <1>7. Uses(route, E[k]) = Cardinality(Q)
    BY <1>1 DEF Uses
  <1>8. \A p \in D : \E i \in 1 .. Len(E) : route[p] = E[i]
    BY <1>1, <1>2
  <1>9. IsFiniteSet(D)
    BY <1>1, FS_Interval
  <1> HIDE DEF E, S, D
  <1>10. P(k) = Prev \cup Q
    <2>1. ASSUME NEW p \in D, route[p] <= E[k] PROVE p \in Prev \cup Q
      <3>1. PICK i \in 1 .. Len(E) : route[p] = E[i]
        BY <1>8
      <3>2. i <= k
        BY <3>1, <2>1, <1>3, <1>4
      <3>3. CASE i = k
        BY <3>1, <3>3
      <3>4. CASE i # k
        <4>1. k # 1 /\ k - 1 \in 1 .. Len(E) /\ i <= k - 1
          BY <3>2, <3>4, <1>3, <1>2
        <4>2. E[i] <= E[k - 1]
          BY <4>1, <1>4
        <4> QED BY <4>1, <4>2, <3>1
      <3> QED BY <3>3, <3>4
    <2>2. ASSUME NEW p \in D, k # 1, route[p] <= E[k - 1] PROVE route[p] <= E[k]
      <3>1. k - 1 \in 1 .. Len(E) /\ k - 1 <= k
        BY <1>2, <1>3, <2>2
      <3>2. PICK i \in 1 .. Len(E) : route[p] = E[i]
        BY <1>8
      <3>3. i <= k - 1
        BY <3>1, <3>2, <2>2, <1>4
      <3>4. i <= k
        BY <3>3, <1>3
      <3> QED BY <3>2, <3>4, <1>3, <1>4
    <2>3. ASSUME NEW p \in D, route[p] = E[k] PROVE route[p] <= E[k]
      <3>1. k <= k
        BY <1>3
      <3> QED BY <2>3, <3>1, <1>3, <1>4
    <2>4. Prev \subseteq P(k)
      BY <2>2
    <2>5. Q \subseteq P(k)
      BY <2>3
    <2>6. P(k) \subseteq Prev \cup Q
      BY <2>1
    <2> QED BY <2>4, <2>5, <2>6
  <1>11. Prev \cap Q = {}
    <2> SUFFICES ASSUME NEW p \in D, k # 1, route[p] <= E[k - 1], route[p] = E[k] PROVE FALSE
      OBVIOUS
    <2>1. k - 1 \in 1 .. Len(E) /\ ~ (k <= k - 1)
      BY <1>2, <1>3
    <2> QED BY <2>1, <1>3, <1>4
  <1>12. IsFiniteSet(Prev) /\ IsFiniteSet(Q) /\ Cardinality(Prev) \in Nat /\ Cardinality(Q) \in Nat
    <2>1. Prev \in SUBSET D /\ Q \in SUBSET D
      OBVIOUS
    <2> HIDE DEF Prev, Q
    <2>2. IsFiniteSet(Prev) /\ IsFiniteSet(Q)
      BY <1>9, <2>1, FS_Subset
    <2> QED BY <2>2, FS_CardinalityType
  <1>13. Cardinality(P(k)) = Cardinality(Prev) + Cardinality(Q)
    <2> HIDE DEF Prev, Q, P
    <2>1. Cardinality(Prev \cup Q) = Cardinality(Prev) + Cardinality(Q) - Cardinality(Prev \cap Q)
      BY <1>12, FS_Union
    <2>2. Cardinality(Prev \cap Q) = 0
      BY <1>11, FS_EmptySet
    <2> QED BY <2>1, <2>2, <1>10, <1>12
  <1>14. Cardinality(Q) # 0
    <2>1. PICK p \in D : route[p] = E[k]
      BY <1>1, <1>2, <1>3
    <2>2. Q # {}
      BY <2>1
    <2> HIDE DEF Q
    <2> QED BY <2>2, <1>12, FS_EmptySet
  <1>15. Marked(route)[k - 1] = Cardinality(Prev)
    <2>1. CASE k = 1
      <3>1. Marked(route)[k - 1] = 0
        BY <2>1, <1>5, <1>2
      <3>2. Prev = {}
        BY <2>1
      <3> QED BY <3>1, <3>2, FS_EmptySet
    <2>2. CASE k # 1
      <3>1. k - 1 \in 1 .. Len(E) /\ k - 1 \in 0 .. Len(E) /\ k - 1 # 0
        BY <1>2, <1>3, <2>2
      <3>2. Marked(route)[k - 1] = UpTo(route, E[k - 1])
        BY <3>1, <1>5
      <3>3. Prev = P(k - 1)
        BY <2>2
      <3> HIDE DEF P, Prev
      <3> QED BY <3>1, <3>2, <3>3, <1>6
    <2> QED BY <2>1, <2>2
  <1>16. Marked(route)[k] = Cardinality(P(k)) /\ Marked(route)[k] = UpTo(route, E[k])
    <2>1. k \in 0 .. Len(E) /\ k # 0
      BY <1>2, <1>3
    <2> HIDE DEF P
    <2> QED BY <2>1, <1>3, <1>5, <1>6
  <1> HIDE DEF P, Prev, Q
  <1> QED BY <1>7, <1>12, <1>13, <1>14, <1>15, <1>16 DEF E

\* The marks of a route: they grow, and the last is the route's length.
Growing(route) ==
    LET E == Sorted(route)
        C == Marked(route)
    IN  /\ E \in Seq(Nat) /\ Len(E) \in Nat /\ ToSet(route) = {E[k] : k \in 1 .. Len(E)}
        /\ C \in [0 .. Len(E) -> Nat] /\ C[0] = 0 /\ C[Len(E)] = Len(route)
        /\ \A k \in 1 .. Len(E) :
             /\ Uses(route, E[k]) \in Nat \ {0} /\ C[k] = C[k - 1] + Uses(route, E[k])
             /\ C[k] = UpTo(route, E[k])
        /\ \A j, k \in 0 .. Len(E) : j <= k => C[j] <= C[k]

\* Every route has such marks.
LEMMA MarksGrow ==
  ASSUME NEW route \in Seq(Nat)
  PROVE  Growing(route)
  <1> DEFINE S == ToSet(route)
             E == Sorted(route)
             C == Marked(route)
             D == 1 .. Len(route)
  <1>1. /\ DOMAIN route = D /\ Len(route) \in Nat
        /\ S \subseteq Nat /\ IsFiniteSet(S)
        /\ \A i \in D : route[i] \in S
        /\ \A e \in S : \E i \in D : route[i] = e
    BY RouteSet
  <1>2. /\ E \in Seq(Nat) /\ Len(E) \in Nat
        /\ \A j \in 1 .. Len(E) : E[j] \in S
        /\ \A e \in S : \E j \in 1 .. Len(E) : E[j] = e
        /\ \A j, i \in 1 .. Len(E) : j < i => E[j] < E[i]
    <2>1. S \in SUBSET Nat
      BY <1>1
    <2>2. E = Ascending(S)
      BY DEF Sorted
    <2> HIDE DEF S, E
    <2>3. InOrder(E, S)
      BY <1>1, <2>1, <2>2, AscendingFacts
    <2> QED BY <2>3 DEF InOrder
  <1>3. S = {E[k] : k \in 1 .. Len(E)}
    BY <1>2
  <1>4. C = [i \in 0 .. Len(E) |-> IF i = 0 THEN 0 ELSE UpTo(route, E[i])]
    BY DEF Marked
  <1>5. \A k \in 1 .. Len(E) :
          /\ C[k - 1] \in Nat /\ Uses(route, E[k]) \in Nat \ {0}
          /\ C[k] = UpTo(route, E[k]) /\ C[k] = C[k - 1] + Uses(route, E[k])
    BY Marks1
  <1> HIDE DEF E, C, S
  <1>6. C[0] = 0
    BY <1>2, <1>4
  <1>7. C \in [0 .. Len(E) -> Nat]
    <2>1. ASSUME NEW k \in 0 .. Len(E) PROVE C[k] \in Nat
      <3>1. CASE k = 0
        BY <3>1, <1>6
      <3>2. CASE k # 0
        <4>1. k \in 1 .. Len(E)
          BY <3>2, <1>2
        <4>2. C[k - 1] \in Nat /\ Uses(route, E[k]) \in Nat /\ C[k] = C[k - 1] + Uses(route, E[k])
          BY <4>1, <1>5
        <4> QED BY <4>2
      <3> QED BY <3>1, <3>2
    <2>2. C = [i \in 0 .. Len(E) |-> C[i]]
      BY <1>4
    <2> QED BY <2>1, <2>2
  <1>8. ASSUME NEW j \in 0 .. Len(E), NEW k \in 0 .. Len(E), j <= k PROVE C[j] <= C[k]
    <2> DEFINE T == {d \in 0 .. Len(E) - j : C[j] <= C[j + d]}
    <2>1. 0 \in T
      <3>1. C[j] \in Nat /\ j \in Nat
        BY <1>7
      <3>2. j + 0 = j /\ 0 \in 0 .. Len(E) - j
        BY <1>2
      <3>3. C[j] <= C[j + 0]
        BY <3>1, <3>2
      <3> QED BY <3>2, <3>3
    <2>2. ASSUME NEW d \in 0 .. (Len(E) - j) - 1, d \in T PROVE d + 1 \in T
      <3>1. j + (d + 1) \in 1 .. Len(E) /\ (j + (d + 1)) - 1 = j + d /\ d + 1 \in 0 .. Len(E) - j
            /\ j + d \in 0 .. Len(E)
        BY <1>2
      <3>2. C[j + (d + 1)] = C[j + d] + Uses(route, E[j + (d + 1)]) /\ Uses(route, E[j + (d + 1)]) \in Nat
        BY <3>1, <1>5
      <3>3. C[j] \in Nat /\ C[j + d] \in Nat
        BY <3>1, <1>7
      <3>4. C[j] <= C[j + d]
        BY <2>2
      <3> QED BY <3>1, <3>2, <3>3, <3>4
    <2>3. Len(E) - j \in Nat
      BY <1>2
    <2> HIDE DEF T
    <2>4. \A d \in 0 .. Len(E) - j : d \in T
      BY <2>1, <2>2, <2>3, Induction
    <2>5. k - j \in 0 .. Len(E) - j /\ j + (k - j) = k
      BY <1>2, <1>8
    <2> QED BY <2>4, <2>5 DEF T
  <1>9. C[Len(E)] = Len(route)
    <2>1. CASE Len(E) = 0
      <3>1. S = {}
        BY <2>1, <1>3
      <3>2. Len(route) = 0
        BY <3>1, <1>1
      <3> QED BY <3>2, <2>1, <1>6
    <2>2. CASE Len(E) # 0
      <3>1. Len(E) \in 1 .. Len(E)
        BY <2>2, <1>2
      <3>2. ASSUME NEW p \in D PROVE route[p] <= E[Len(E)]
        <4>1. PICK i \in 1 .. Len(E) : route[p] = E[i]
          BY <1>1, <1>2
        <4>2. i <= Len(E)
          BY <1>2
        <4> QED BY <4>1, <4>2, <3>1, <1>2, Before
      <3>3. {p \in D : route[p] <= E[Len(E)]} = D
        BY <3>2
      <3>4. UpTo(route, E[Len(E)]) = Cardinality(D)
        BY <3>3, <1>1 DEF UpTo
      <3>5. Cardinality(D) = Len(route)
        <4>1. Len(route) \in Nat /\ Len(route) \in Int /\ 1 \in Int
          BY <1>1
        <4>2. Cardinality(1 .. Len(route)) = IF 1 > Len(route) THEN 0 ELSE Len(route) - 1 + 1
          BY <4>1, FS_Interval
        <4> QED BY <4>1, <4>2
      <3> QED BY <3>1, <3>4, <3>5, <1>5
    <2> QED BY <2>1, <2>2
  <1> QED BY <1>2, <1>3, <1>5, <1>6, <1>7, <1>8, <1>9 DEF Growing, E, C, S

\* An assignment stands between the marks of its expert.
LEMMA SortedPlaces ==
  ASSUME NEW route \in Seq(Nat)
  PROVE  /\ ByExpert(route) \in Seq(Nat) /\ Len(ByExpert(route)) = Len(route)
         /\ \A q \in 1 .. Len(route) : \E k \in 1 .. Len(Sorted(route)) :
              /\ ByExpert(route)[q] = Sorted(route)[k]
              /\ Marked(route)[k - 1] < q /\ q <= Marked(route)[k]
  <1> DEFINE E == Sorted(route)
             C == Marked(route)
             B == ByExpert(route)
             n == Len(route)
             Right(q, e) == UpTo(route, e) - Uses(route, e) < q /\ q <= UpTo(route, e)
  <1>1. /\ E \in Seq(Nat) /\ Len(E) \in Nat /\ ToSet(route) = {E[k] : k \in 1 .. Len(E)}
        /\ C \in [0 .. Len(E) -> Nat] /\ C[0] = 0 /\ C[Len(E)] = n
        /\ \A k \in 1 .. Len(E) :
             /\ Uses(route, E[k]) \in Nat \ {0} /\ C[k] = C[k - 1] + Uses(route, E[k])
             /\ C[k] = UpTo(route, E[k])
    BY MarksGrow DEF Growing
  <1>2. n \in Nat /\ DOMAIN route = 1 .. n
    BY RouteSet
  <1>3. B = [q \in 1 .. n |-> CHOOSE e \in ToSet(route) : Right(q, e)]
    BY <1>2 DEF ByExpert
  <1> HIDE DEF E, C, B, n
  <1>4. \A k \in 1 .. Len(E) : UpTo(route, E[k]) - Uses(route, E[k]) = C[k - 1] /\ UpTo(route, E[k]) = C[k]
    <2> TAKE k \in 1 .. Len(E)
    <2>0. k - 1 \in 0 .. Len(E) /\ k \in 0 .. Len(E)
      BY <1>1
    <2>1. C[k - 1] \in Nat /\ C[k] \in Nat /\ Uses(route, E[k]) \in Nat
      BY <2>0, <1>1
    <2> QED BY <2>1, <1>1
  <1>5. ASSUME NEW q \in 1 .. n PROVE \E e \in ToSet(route) : Right(q, e)
    <2> DEFINE T == {k \in 0 .. Len(E) : q <= C[k]}
    <2>1. T \in SUBSET Nat /\ Len(E) \in T
      BY <1>1, <1>2
    <2>2. PICK a \in T : \A y \in T : a <= y
      BY <2>1, LeastElement
    <2>3. a \in 1 .. Len(E) /\ q <= C[a]
      BY <2>2, <1>1, <1>2
    <2>4. C[a - 1] < q
      <3>1. a - 1 \in 0 .. Len(E) /\ a - 1 \notin T
        BY <2>2, <2>3, <1>1
      <3>2. C[a - 1] \in Nat /\ ~(q <= C[a - 1]) /\ q \in Nat
        <4>1. C[a - 1] \in Nat
          BY <3>1, <1>1
        <4>2. ~(q <= C[a - 1])
          BY <3>1
        <4> QED BY <4>1, <4>2, <1>2
      <3> QED BY <3>2
    <2>5. E[a] \in ToSet(route)
      BY <2>3, <1>1
    <2> QED BY <2>3, <2>4, <2>5, <1>4
  <1>6. ASSUME NEW q \in 1 .. n PROVE B[q] \in ToSet(route) /\ Right(q, B[q])
    <2> HIDE DEF Right
    <2> QED BY <1>3, <1>5
  <1>7. ASSUME NEW q \in 1 .. n
        PROVE  \E k \in 1 .. Len(E) : B[q] = E[k] /\ C[k - 1] < q /\ q <= C[k]
    <2>1. PICK k \in 1 .. Len(E) : B[q] = E[k]
      BY <1>1, <1>6
    <2> QED BY <2>1, <1>4, <1>6
  <1>8. B \in Seq(Nat) /\ Len(B) = n
    <2>1. ToSet(route) \subseteq Nat
      BY RouteSet
    <2>2. B \in [1 .. n -> Nat]
      BY <1>3, <1>6, <2>1
    <2> QED BY <2>2, <1>2
  <1> QED BY <1>7, <1>8 DEF E, C, B, n
-----------------------------------------------------------------------------
(* The groups of a prefill. *)

Group == [experts : Seq(Nat), n : Nat]
GroupLists == Seq(Group) \ {<<>>}

\* u[i] assignments are in the first i groups.
Totals(gs, u) ==
    /\ u \in [0 .. Len(gs) -> Nat] /\ u[0] = 0
    /\ \A i \in 1 .. Len(gs) : u[i] = u[i - 1] + gs[i].n

TotalOf(gs) == FoldLeft(LAMBDA s, g : s + g.n, 0, gs)

\* The total of a list of groups, group by group.
LEMMA TotalSteps ==
  ASSUME NEW gs \in Seq(Group)
  PROVE  \E u : Totals(gs, u) /\ u[Len(gs)] = TotalOf(gs)
  <1> DEFINE Op(x, g) == x + g.n
             F == [w \in Nat \X Group |-> Op(w[1], w[2])]
             G(g) == [d \in SUBSET (1 .. Len(gs)) |->
                         IF d = {} THEN 0 ELSE Op(g[d \ {Max(d)}], gs[Max(d)])]
             h == CHOOSE g : g = G(g)
  <1>0. DOMAIN gs = 1 .. Len(gs) /\ Len(gs) \in Nat
    OBVIOUS
  <1>1. Typed(Nat, Group, F, 0, gs)
    BY DEF Typed, Group
  <1>2. TotalOf(gs) = h[1 .. Len(gs)]
    BY <1>0 DEF TotalOf, FoldLeft, MapThenFoldSet
  <1>3. \E g : g = G(g)
    <2>1. PICK g \in [SUBSET (1 .. Len(gs)) -> Nat] : Iterates(F, 0, gs, Len(gs), g)
      BY <1>1, IterExists
    <2>2. ASSUME NEW d \in SUBSET (1 .. Len(gs)), d # {} PROVE g[d \ {Max(d)}] \in Nat /\ gs[Max(d)] \in Group
      <3>1. Max(d) \in 1 .. Len(gs)
        BY <2>2, <1>0, MaxIn
      <3>2. d \ {Max(d)} \in SUBSET (1 .. Len(gs))
        OBVIOUS
      <3>3. g[d \ {Max(d)}] \in Nat
        BY <3>2, Zenon
      <3> QED BY <3>1, <3>3
    <2>3. g = G(g)
      <3> HIDE DEF Op
      <3> QED BY <2>1, <2>2 DEF Iterates
    <2> QED BY <2>3
  <1>4. h = G(h)
    BY <1>3
  <1>5. Solves(Nat, F, 0, gs, h)
    <2> HIDE DEF h
    <2>1. h[{}] = 0
      BY <1>4
    <2> SUFFICES ASSUME NEW d \in SUBSET (1 .. Len(gs)), d # {}, h[d \ {Max(d)}] \in Nat
                 PROVE  h[d] = F[<<h[d \ {Max(d)}], gs[Max(d)]>>]
      BY <2>1 DEF Solves
    <2>2. gs[Max(d)] \in Group
      <3>1. Max(d) \in 1 .. Len(gs)
        BY <1>0, MaxIn
      <3> QED BY <3>1
    <2>3. h[d] = Op(h[d \ {Max(d)}], gs[Max(d)])
      <3> HIDE DEF Op
      <3> QED BY <1>4
    <2> HIDE DEF Op
    <2> QED BY <2>2, <2>3
  <1>6. PICK u : Goes(Nat, F, 0, gs, u) /\ u[Len(gs)] = h[1 .. Len(gs)]
    <2> HIDE DEF F, Op, G, h
    <2> QED BY <1>1, <1>5, Unroll
  <1>7. ASSUME NEW i \in 1 .. Len(gs) PROVE u[i] = Op(u[i - 1], gs[i])
    <2>1. u[i - 1] \in Nat /\ gs[i] \in Group
      BY <1>0, <1>6 DEF Goes
    <2> HIDE DEF Op
    <2> QED BY <2>1, <1>6 DEF Goes
  <1> HIDE DEF h, F, G
  <1> QED BY <1>2, <1>6, <1>7 DEF Goes, Totals

\* The totals of a list are those of its prefixes.
LEMMA PrefixTotals ==
  ASSUME NEW gs \in Seq(Group), NEW u, Totals(gs, u), NEW k \in 0 .. Len(gs)
  PROVE  TotalOf(SubSeq(gs, 1, k)) = u[k]
  <1> DEFINE t == SubSeq(gs, 1, k)
  <1>1. Len(gs) \in Nat /\ k \in Nat /\ k <= Len(gs)
    OBVIOUS
  <1>2. t \in Seq(Group) /\ Len(t) = k /\ \A i \in 1 .. k : t[i] = gs[i]
    BY <1>1, SubSeqProperties
  <1>3. PICK v : Totals(t, v) /\ v[Len(t)] = TotalOf(t)
    BY <1>2, TotalSteps
  <1> DEFINE T == {i \in 0 .. k : v[i] = u[i]}
  <1> HIDE DEF t
  <1>4. 0 \in T
    BY <1>1, <1>3 DEF Totals
  <1>5. ASSUME NEW i \in 0 .. k - 1, i \in T PROVE i + 1 \in T
    <2>1. i + 1 \in 1 .. k /\ i + 1 \in 1 .. Len(gs) /\ (i + 1) - 1 = i /\ i + 1 \in 0 .. k
      BY <1>1
    <2>2. v[i + 1] = v[i] + t[i + 1].n /\ u[i + 1] = u[i] + gs[i + 1].n
      BY <2>1, <1>2, <1>3 DEF Totals
    <2>3. v[i] = u[i] /\ t[i + 1] = gs[i + 1]
      BY <2>1, <1>2, <1>5
    <2> QED BY <2>1, <2>2, <2>3
  <1> HIDE DEF T
  <1>6. \A i \in 0 .. k : i \in T
    BY <1>1, <1>4, <1>5, Induction
  <1>7. v[k] = u[k]
    BY <1>1, <1>6 DEF T
  <1> QED BY <1>2, <1>3, <1>7 DEF t

\* The first j experts of a route are grouped: the groups end at marks, and an expert
\* whose assignments end within a group is in it.
Grouped(E, C, gs, j) ==
    \E u : /\ Totals(gs, u) /\ u[Len(gs)] = C[j]
           /\ \A i \in 0 .. Len(gs) : u[i] <= C[j] /\ \E b \in 0 .. j : u[i] = C[b]
           /\ \A i \in 1 .. Len(gs) : \A k \in 1 .. j :
                u[i - 1] < C[k] /\ C[k] <= u[i] => E[k] \in ToSet(gs[i].experts)

\* The shape of a list of groups after one more expert: a group of its own, or
\* a place in the last one.
Extends(gs, hs, e, n) ==
    LET m == Len(gs) IN
    \/ /\ Len(hs) = m + 1 /\ \A i \in 1 .. m : hs[i] = gs[i]
       /\ hs[m + 1].n = n /\ e \in ToSet(hs[m + 1].experts)
    \/ /\ Len(hs) = m /\ \A i \in 1 .. m - 1 : hs[i] = gs[i]
       /\ hs[m].n = gs[m].n + n
       /\ e \in ToSet(hs[m].experts) /\ ToSet(gs[m].experts) \subseteq ToSet(hs[m].experts)

\* Join extends the list of groups by one expert, in its last group or in a new one.
LEMMA JoinExtends ==
  ASSUME NEW gs \in GroupLists, NEW e \in Nat, NEW n \in Nat
  PROVE  Join(gs, e, n) \in GroupLists /\ Extends(gs, Join(gs, e, n), e, n)
  <1> DEFINE m == Len(gs)
             g == gs[m]
             one == [experts |-> <<e>>, n |-> n]
             more == [experts |-> Append(g.experts, e), n |-> g.n + n]
             hs == Join(gs, e, n)
  <1>1. gs \in Seq(Group) /\ m \in Nat /\ m \in 1 .. m /\ DOMAIN gs = 1 .. m
    BY DEF GroupLists
  <1>2. g \in Group
    BY <1>1
  <1>3. g.experts \in Seq(Nat) /\ g.n \in Nat
    BY <1>2 DEF Group
  <1>4. ToSet(<<e>>) = {e}
    <2>1. DOMAIN <<e>> = {1} /\ <<e>>[1] = e
      OBVIOUS
    <2> QED BY <2>1 DEF ToSet
  <1>5. ToSet(Append(g.experts, e)) = ToSet(g.experts) \cup {e}
    <2> HIDE DEF g
    <2> QED BY <1>3, AppendSet
  <1>6. one \in Group /\ more \in Group
    <2>1. <<e>> \in Seq(Nat) /\ Append(g.experts, e) \in Seq(Nat)
      BY <1>3
    <2>2. g.n + n \in Nat
      BY <1>3
    <2> QED BY <2>1, <2>2 DEF Group
  <1>7. one.experts = <<e>> /\ one.n = n /\ more.experts = Append(g.experts, e) /\ more.n = g.n + n
    OBVIOUS
  <1>8. hs = Append(gs, one) \/ hs = [gs EXCEPT ![m] = more]
    BY DEF Join
  <1> HIDE DEF one, more, hs
  <1>9. CASE hs = Append(gs, one)
    <2>1. hs \in Seq(Group) /\ Len(hs) = m + 1 /\ hs[m + 1] = one /\ \A i \in 1 .. m : hs[i] = gs[i]
      BY <1>1, <1>6, <1>9
    <2>2. hs # <<>>
      BY <2>1, <1>1
    <2> QED BY <2>1, <2>2, <1>4, <1>7 DEF GroupLists, Extends, hs
  <1>10. CASE hs = [gs EXCEPT ![m] = more]
    <2>1. hs \in [1 .. m -> Group]
      BY <1>1, <1>6, <1>10
    <2>2. hs \in Seq(Group) /\ Len(hs) = m
      BY <1>1, <2>1
    <2>3. hs[m] = more /\ \A i \in 1 .. m - 1 : hs[i] = gs[i]
      <3> HIDE DEF m
      <3>1. m \in DOMAIN gs
        BY <1>1
      <3>2. \A i \in 1 .. m - 1 : i \in DOMAIN gs /\ i # m
        BY <1>1
      <3> QED BY <3>1, <3>2, <1>10
    <2>4. hs # <<>>
      BY <2>2, <1>1
    <2>5. hs[m].n = gs[m].n + n /\ e \in ToSet(hs[m].experts) /\ ToSet(gs[m].experts) \subseteq ToSet(hs[m].experts)
      BY <2>3, <1>5, <1>7
    <2> HIDE DEF g
    <2> QED BY <2>2, <2>3, <2>4, <2>5 DEF GroupLists, Extends, hs
  <1> QED BY <1>8, <1>9, <1>10

\* Marks that do not fall.
Rising(C, K) == C \in [0 .. K -> Nat] /\ \A i, k \in 0 .. K : i <= k => C[i] <= C[k]

\* One more expert.
LEMMA JoinGroups ==
  ASSUME NEW E, NEW K \in Nat, NEW C, NEW j \in 1 .. K, Rising(C, K),
         NEW gs \in GroupLists, NEW hs \in GroupLists, NEW n \in Nat \ {0},
         C[j] = C[j - 1] + n, Grouped(E, C, gs, j - 1), Extends(gs, hs, E[j], n)
  PROVE  Grouped(E, C, hs, j)
  <1> DEFINE m == Len(gs)
             J == j - 1
  <1>0. gs \in Seq(Group) /\ m \in Nat /\ m \in 1 .. m
    BY DEF GroupLists
  <1>1. m \in Nat /\ J \in Nat /\ j = J + 1 /\ C[J] \in Nat /\ C[j] \in Nat /\ C[j] = C[J] + n
    <2>1. J \in Nat /\ j = J + 1 /\ J \in 0 .. K
      OBVIOUS
    <2>2. C[J] \in Nat
      BY <2>1 DEF Rising
    <2> QED BY <2>1, <2>2, <1>0
  <1>2. PICK u : /\ Totals(gs, u) /\ u[m] = C[J]
                 /\ \A i \in 0 .. m : u[i] <= C[J] /\ \E b \in 0 .. J : u[i] = C[b]
                 /\ \A i \in 1 .. m : \A k \in 1 .. J :
                      u[i - 1] < C[k] /\ C[k] <= u[i] => E[k] \in ToSet(gs[i].experts)
    BY DEF Grouped
  <1>3. /\ u \in [0 .. m -> Nat] /\ u[0] = 0
        /\ \A i \in 1 .. m : u[i] = u[i - 1] + gs[i].n
    BY <1>2 DEF Totals
  <1>4. \A k \in 1 .. j : k \in 1 .. J \/ k = j
    BY <1>1
  <1>5. \A k \in 1 .. J : C[k] <= C[J] /\ C[k] \in Nat
    <2> TAKE k \in 1 .. J
    <2>1. k \in 0 .. K /\ J \in 0 .. K /\ k <= J
      OBVIOUS
    <2> QED BY <2>1 DEF Rising
  <1> HIDE DEF J, m
  <1>6. CASE /\ Len(hs) = m + 1 /\ \A i \in 1 .. m : hs[i] = gs[i]
             /\ hs[m + 1].n = n /\ E[j] \in ToSet(hs[m + 1].experts)
    <2> DEFINE v == [i \in 0 .. m + 1 |-> IF i = m + 1 THEN C[j] ELSE u[i]]
    <2>1. v \in [0 .. m + 1 -> Nat] /\ v[m + 1] = C[j] /\ \A i \in 0 .. m : v[i] = u[i]
      <3>1. \A i \in 0 .. m + 1 : i = m + 1 \/ i \in 0 .. m
        BY <1>1
      <3>2. m + 1 \in 0 .. m + 1 /\ \A i \in 0 .. m : i \in 0 .. m + 1 /\ i # m + 1
        BY <1>1
      <3>3. \A i \in 0 .. m : u[i] \in Nat
        BY <1>3
      <3> QED BY <3>1, <3>2, <3>3, <1>1
    <2> HIDE DEF v
    <2>2. \A i \in 1 .. m + 1 : (i \in 1 .. m /\ i - 1 \in 0 .. m) \/ i = m + 1
      BY <1>1
    <2>3. Totals(hs, v)
      <3>1. ASSUME NEW i \in 1 .. m + 1 PROVE v[i] = v[i - 1] + hs[i].n
        <4>1. CASE i \in 1 .. m
          <5>0. i \in 0 .. m /\ i - 1 \in 0 .. m
            BY <4>1, <1>1
          <5>1. v[i] = u[i] /\ v[i - 1] = u[i - 1] /\ hs[i] = gs[i]
            BY <1>6, <4>1, <5>0, <2>1
          <5> QED BY <5>1, <4>1, <1>3
        <4>2. CASE i = m + 1
          <5>1. i - 1 = m /\ m \in 0 .. m
            BY <4>2, <1>1
          <5>2. v[i - 1] = C[J] /\ v[i] = C[j] /\ hs[i].n = n
            BY <5>1, <4>2, <2>1, <1>2, <1>6
          <5> QED BY <5>2, <1>1
        <4> QED BY <4>1, <4>2, <2>2
      <3>2. v[0] = 0
        <4>1. 0 \in 0 .. m
          BY <1>0
        <4> QED BY <4>1, <2>1, <1>3
      <3> QED BY <3>1, <3>2, <2>1, <1>6 DEF Totals
    <2>4. ASSUME NEW i \in 0 .. m + 1 PROVE v[i] <= C[j] /\ \E b \in 0 .. j : v[i] = C[b]
      <3>1. CASE i = m + 1
        <4>1. v[i] = C[j] /\ C[j] <= C[j] /\ j \in 0 .. j
          BY <3>1, <2>1, <1>1
        <4> QED BY <4>1
      <3>2. CASE i # m + 1
        <4>0. i \in 0 .. m
          BY <3>2, <1>1
        <4>1. i \in 0 .. m /\ v[i] = u[i] /\ u[i] \in Nat
          BY <4>0, <2>1, <1>3
        <4>2. u[i] <= C[J] /\ \E b \in 0 .. J : u[i] = C[b]
          BY <4>1, <1>2
        <4>3. \A b \in 0 .. J : b \in 0 .. j
          BY <1>1
        <4>4. v[i] <= C[j]
          BY <4>1, <4>2, <1>1
        <4> QED BY <4>1, <4>2, <4>3, <4>4
      <3> QED BY <3>1, <3>2
    <2>5. ASSUME NEW i \in 1 .. m + 1, NEW k \in 1 .. j, v[i - 1] < C[k], C[k] <= v[i]
          PROVE  E[k] \in ToSet(hs[i].experts)
      <3>1. CASE i \in 1 .. m
        <4>0. i \in 0 .. m /\ i - 1 \in 0 .. m
          BY <3>1, <1>1
        <4>1. v[i] = u[i] /\ v[i - 1] = u[i - 1] /\ hs[i] = gs[i] /\ u[i] <= C[J] /\ u[i] \in Nat
          BY <1>6, <3>1, <4>0, <2>1, <1>2, <1>3
        <4>2. k # j
          <5> SUFFICES ASSUME k = j PROVE FALSE
            OBVIOUS
          <5>1. C[J] + n <= u[i]
            BY <4>1, <2>5, <1>1
          <5>2. u[i] <= C[J] /\ u[i] \in Nat /\ C[J] \in Nat
            BY <4>1, <1>1
          <5> QED BY <5>1, <5>2
        <4> QED BY <4>1, <4>2, <3>1, <2>5, <1>2, <1>4
      <3>2. CASE i = m + 1
        <4>1. i - 1 = m /\ m \in 0 .. m
          BY <3>2, <1>1
        <4>2. v[i - 1] = C[J]
          BY <4>1, <2>1, <1>2
        <4>3. k = j
          <5> SUFFICES ASSUME k \in 1 .. J PROVE FALSE
            BY <1>4
          <5> QED BY <4>2, <2>5, <1>1, <1>5
        <4> QED BY <4>3, <3>2, <1>6
      <3> QED BY <3>1, <3>2, <2>2
    <2>6. /\ v[Len(hs)] = C[j]
          /\ \A i \in 0 .. Len(hs) : v[i] <= C[j] /\ \E b \in 0 .. j : v[i] = C[b]
          /\ \A i \in 1 .. Len(hs) : \A k \in 1 .. j :
               v[i - 1] < C[k] /\ C[k] <= v[i] => E[k] \in ToSet(hs[i].experts)
      BY <2>1, <2>4, <2>5, <1>6
    <2> QED BY <2>3, <2>6 DEF Grouped
  <1>7. CASE /\ Len(hs) = m /\ \A i \in 1 .. m - 1 : hs[i] = gs[i]
             /\ hs[m].n = gs[m].n + n
             /\ E[j] \in ToSet(hs[m].experts) /\ ToSet(gs[m].experts) \subseteq ToSet(hs[m].experts)
    <2> DEFINE v == [i \in 0 .. m |-> IF i = m THEN C[j] ELSE u[i]]
    <2>1. v \in [0 .. m -> Nat] /\ v[m] = C[j] /\ \A i \in 0 .. m - 1 : v[i] = u[i]
      <3>1. m \in 0 .. m /\ \A i \in 0 .. m - 1 : i \in 0 .. m /\ i # m
        BY <1>1
      <3>2. \A i \in 0 .. m : u[i] \in Nat
        BY <1>3
      <3> QED BY <3>1, <3>2, <1>1
    <2> HIDE DEF v
    <2>2. \A i \in 1 .. m : i - 1 \in 0 .. m - 1 /\ ((i \in 1 .. m - 1 /\ i \in 0 .. m - 1) \/ i = m)
      BY <1>1
    <2>3. Totals(hs, v)
      <3>1. ASSUME NEW i \in 1 .. m PROVE v[i] = v[i - 1] + hs[i].n
        <4>0. v[i - 1] = u[i - 1] /\ u[i] = u[i - 1] + gs[i].n
          BY <2>1, <2>2, <1>3
        <4>1. CASE i \in 1 .. m - 1
          <5>0. i \in 0 .. m - 1
            BY <4>1, <1>1
          <5>1. v[i] = u[i] /\ hs[i] = gs[i]
            BY <1>7, <4>1, <5>0, <2>1
          <5> QED BY <5>1, <4>0
        <4>2. CASE i = m
          <5>1. v[i] = C[J] + n /\ u[i] = C[J] /\ hs[i].n = gs[i].n + n
            <6>1. v[m] = C[J] + n /\ u[m] = C[J] /\ hs[m].n = gs[m].n + n
              BY <2>1, <1>1, <1>2, <1>7
            <6> QED BY <6>1, <4>2
          <5>2. u[i - 1] \in Nat /\ gs[i].n \in Nat
            <6>1. gs[i] \in Group
              BY <4>2, <1>0 DEF m
            <6>2. gs[i].n \in Nat
              BY <6>1 DEF Group
            <6>3. i - 1 \in 0 .. m
              BY <1>1
            <6>4. u[i - 1] \in Nat
              BY <6>3, <1>3
            <6> QED BY <6>2, <6>4
          <5>3. v[i] = (u[i - 1] + gs[i].n) + n
            BY <5>1, <4>0
          <5>4. v[i - 1] + hs[i].n = u[i - 1] + (gs[i].n + n)
            BY <5>1, <4>0
          <5> QED BY <5>2, <5>3, <5>4
        <4> QED BY <4>1, <4>2, <2>2
      <3>2. v[0] = 0
        <4>1. 0 \in 0 .. m - 1
          BY <1>0
        <4> QED BY <4>1, <2>1, <1>3
      <3> QED BY <3>1, <3>2, <2>1, <1>7 DEF Totals
    <2>4. ASSUME NEW i \in 0 .. m PROVE v[i] <= C[j] /\ \E b \in 0 .. j : v[i] = C[b]
      <3>1. CASE i = m
        <4>1. v[i] = C[j]
          BY <3>1, <2>1
        <4>2. C[j] <= C[j] /\ j \in 0 .. j
          BY <1>1
        <4> QED BY <4>1, <4>2
      <3>2. CASE i # m
        <4>0. i \in 0 .. m - 1
          BY <3>2, <1>1
        <4>1. i \in 0 .. m - 1 /\ v[i] = u[i] /\ u[i] \in Nat
          BY <4>0, <2>1, <1>3
        <4>2. u[i] <= C[J] /\ \E b \in 0 .. J : u[i] = C[b]
          BY <4>1, <1>2
        <4>3. \A b \in 0 .. J : b \in 0 .. j
          BY <1>1
        <4>4. v[i] <= C[j]
          BY <4>1, <4>2, <1>1
        <4> QED BY <4>1, <4>2, <4>3, <4>4
      <3> QED BY <3>1, <3>2
    <2>5. ASSUME NEW i \in 1 .. m, NEW k \in 1 .. j, v[i - 1] < C[k], C[k] <= v[i]
          PROVE  E[k] \in ToSet(hs[i].experts)
      <3>0. v[i - 1] = u[i - 1] /\ u[i] <= C[J] /\ u[i] \in Nat
        <4>1. i \in 0 .. m /\ i - 1 \in 0 .. m - 1
          BY <1>1
        <4> QED BY <4>1, <2>1, <1>2, <1>3
      <3>1. CASE i \in 1 .. m - 1
        <4>0. i \in 0 .. m - 1
          BY <3>1, <1>1
        <4>1. v[i] = u[i] /\ hs[i] = gs[i]
          BY <1>7, <3>1, <4>0, <2>1
        <4>2. k # j
          <5> SUFFICES ASSUME k = j PROVE FALSE
            OBVIOUS
          <5>1. C[J] + n <= u[i]
            BY <4>1, <2>5, <1>1
          <5>2. u[i] <= C[J] /\ u[i] \in Nat /\ C[J] \in Nat
            BY <3>0, <1>1
          <5> QED BY <5>1, <5>2
        <4> QED BY <4>1, <4>2, <3>0, <2>5, <1>2, <1>4
      <3>2. CASE i = m
        <4>1. CASE k = j
          BY <4>1, <3>2, <1>7
        <4>2. CASE k \in 1 .. J
          <5>1. C[k] <= u[i]
            BY <3>2, <4>2, <1>2, <1>5
          <5>2. E[k] \in ToSet(gs[i].experts)
            BY <5>1, <4>2, <3>0, <2>5, <1>2
          <5> QED BY <5>2, <3>2, <1>7
        <4> QED BY <4>1, <4>2, <1>4
      <3> QED BY <3>1, <3>2, <2>2
    <2>6. /\ v[Len(hs)] = C[j]
          /\ \A i \in 0 .. Len(hs) : v[i] <= C[j] /\ \E b \in 0 .. j : v[i] = C[b]
          /\ \A i \in 1 .. Len(hs) : \A k \in 1 .. j :
               v[i - 1] < C[k] /\ C[k] <= v[i] => E[k] \in ToSet(hs[i].experts)
      BY <2>1, <2>4, <2>5, <1>7
    <2> QED BY <2>3, <2>6 DEF Grouped
  <1> QED BY <1>6, <1>7 DEF Extends, m

\* The list of groups, expert by expert.
LEMMA GroupSteps ==
  ASSUME NEW route \in Seq(Nat)
  PROVE  LET E == Sorted(route) IN
         \E f : /\ f \in [0 .. Len(E) -> GroupLists]
                /\ f[0] = <<[experts |-> <<>>, n |-> 0]>>
                /\ \A j \in 1 .. Len(E) : f[j] = Join(f[j - 1], E[j], Uses(route, E[j]))
                /\ f[Len(E)] = Groups(route)
  <1> DEFINE E == Sorted(route)
             first == <<[experts |-> <<>>, n |-> 0]>>
             Op(x, e) == Join(x, e, Uses(route, e))
             F == [w \in GroupLists \X Nat |-> Op(w[1], w[2])]
             G(g) == [d \in SUBSET (1 .. Len(E)) |->
                         IF d = {} THEN first ELSE Op(g[d \ {Max(d)}], E[Max(d)])]
             h == CHOOSE g : g = G(g)
  <1>0. E \in Seq(Nat) /\ DOMAIN E = 1 .. Len(E) /\ Len(E) \in Nat
    <2>1. E \in Seq(Nat)
      BY MarksGrow DEF Growing
    <2> HIDE DEF E
    <2> QED BY <2>1
  <1>a. \A e \in Nat : Uses(route, e) \in Nat
    <2> TAKE e \in Nat
    <2>1. IsFiniteSet(DOMAIN route)
      <3>1. DOMAIN route = 1 .. Len(route) /\ Len(route) \in Int
        BY RouteSet
      <3> QED BY <3>1, FS_Interval
    <2>2. {p \in DOMAIN route : route[p] = e} \in SUBSET (DOMAIN route)
      OBVIOUS
    <2> QED BY <2>1, <2>2, FS_Subset, FS_CardinalityType DEF Uses
  <1>b. first \in GroupLists
    <2>1. [experts |-> <<>>, n |-> 0] \in Group
      BY DEF Group
    <2>2. first \in Seq(Group) /\ first # <<>>
      BY <2>1
    <2> HIDE DEF first
    <2> QED BY <2>2 DEF GroupLists
  <1>c. \A x \in GroupLists, e \in Nat : Op(x, e) \in GroupLists
    BY <1>a, JoinExtends
  <1> HIDE DEF first
  <1>1. Typed(GroupLists, Nat, F, first, E)
    <2> HIDE DEF E, Op
    <2> QED BY <1>0, <1>b, <1>c DEF Typed
  <1>2. Groups(route) = h[1 .. Len(E)]
    <2>1. DOMAIN Ascending(ToSet(route)) = 1 .. Len(E)
      BY <1>0 DEF Sorted
    <2> QED BY <2>1 DEF Groups, FoldLeft, MapThenFoldSet, Sorted, first
  <1> HIDE DEF E
  <1>3. \E g : g = G(g)
    <2>1. PICK g \in [SUBSET (1 .. Len(E)) -> GroupLists] : Iterates(F, first, E, Len(E), g)
      BY <1>1, IterExists
    <2>2. ASSUME NEW d \in SUBSET (1 .. Len(E)), d # {} PROVE g[d \ {Max(d)}] \in GroupLists /\ E[Max(d)] \in Nat
      <3>1. Max(d) \in 1 .. Len(E)
        BY <2>2, <1>0, MaxIn
      <3>2. d \ {Max(d)} \in SUBSET (1 .. Len(E))
        OBVIOUS
      <3>3. g[d \ {Max(d)}] \in GroupLists
        BY <3>2, Zenon
      <3> QED BY <3>1, <3>3, <1>0
    <2>3. g = G(g)
      <3> HIDE DEF Op
      <3> QED BY <2>1, <2>2 DEF Iterates
    <2> QED BY <2>3
  <1>4. h = G(h)
    BY <1>3
  <1>5. Solves(GroupLists, F, first, E, h)
    <2> HIDE DEF h
    <2>1. h[{}] = first
      BY <1>4
    <2> SUFFICES ASSUME NEW d \in SUBSET (1 .. Len(E)), d # {}, h[d \ {Max(d)}] \in GroupLists
                 PROVE  h[d] = F[<<h[d \ {Max(d)}], E[Max(d)]>>]
      BY <2>1 DEF Solves
    <2>2. E[Max(d)] \in Nat
      <3>1. Max(d) \in 1 .. Len(E)
        BY <1>0, MaxIn
      <3> QED BY <3>1, <1>0
    <2>3. h[d] = Op(h[d \ {Max(d)}], E[Max(d)])
      <3> HIDE DEF Op
      <3> QED BY <1>4
    <2> HIDE DEF Op
    <2> QED BY <2>2, <2>3
  <1>6. PICK f : Goes(GroupLists, F, first, E, f) /\ f[Len(E)] = h[1 .. Len(E)]
    <2> HIDE DEF F, Op, G, h
    <2> QED BY <1>1, <1>5, Unroll
  <1>7. ASSUME NEW i \in 1 .. Len(E) PROVE f[i] = Op(f[i - 1], E[i])
    <2>0. i - 1 \in 0 .. Len(E)
      BY <1>0
    <2>1. f[i - 1] \in GroupLists
      <3>1. f \in [0 .. Len(E) -> GroupLists]
        BY <1>6 DEF Goes
      <3> HIDE DEF Op, F, h
      <3> QED BY <2>0, <3>1
    <2>2. E[i] \in Nat
      BY <1>0
    <2>3. f[i] = F[<<f[i - 1], E[i]>>]
      <3> HIDE DEF Op, F, h
      <3> QED BY <1>6 DEF Goes
    <2> HIDE DEF Op
    <2> QED BY <2>1, <2>2, <2>3
  <1>8. f \in [0 .. Len(E) -> GroupLists] /\ f[0] = first /\ f[Len(E)] = Groups(route)
    <2> HIDE DEF h
    <2> QED BY <1>2, <1>6 DEF Goes
  <1> HIDE DEF h, F, G
  <1> QED BY <1>7, <1>8 DEF E, first

\* All experts of a route are grouped.
LEMMA GroupsEndAtMarks ==
  ASSUME NEW route \in Seq(Nat)
  PROVE  Groups(route) \in GroupLists /\ Grouped(Sorted(route), Marked(route), Groups(route), Len(Sorted(route)))
  <1> DEFINE E == Sorted(route)
             C == Marked(route)
             K == Len(E)
  <1>1. PICK f : /\ f \in [0 .. K -> GroupLists]
                 /\ f[0] = <<[experts |-> <<>>, n |-> 0]>>
                 /\ \A j \in 1 .. K : f[j] = Join(f[j - 1], E[j], Uses(route, E[j]))
                 /\ f[K] = Groups(route)
    BY GroupSteps
  <1>2. /\ E \in Seq(Nat) /\ K \in Nat
        /\ C \in [0 .. K -> Nat] /\ C[0] = 0
        /\ \A k \in 1 .. K : Uses(route, E[k]) \in Nat \ {0} /\ C[k] = C[k - 1] + Uses(route, E[k])
        /\ \A j, k \in 0 .. K : j <= k => C[j] <= C[k]
    BY MarksGrow DEF Growing
  <1> HIDE DEF C, K, E
  <1> DEFINE T == {j \in 0 .. K : Grouped(E, C, f[j], j)}
  <1>3. 0 \in T
    <2> DEFINE u == [i \in 0 .. 1 |-> 0]
    <2>1. f[0] = <<[experts |-> <<>>, n |-> 0]>>
      BY <1>1
    <2>2. Len(f[0]) = 1 /\ f[0][1].n = 0
      BY <2>1
    <2>3. u \in [0 .. 1 -> Nat] /\ u[0] = 0 /\ u[1] = 0
      OBVIOUS
    <2> HIDE DEF u
    <2>4. Totals(f[0], u)
      <3>1. \A i \in 1 .. 1 : i = 1 /\ i - 1 = 0
        OBVIOUS
      <3>2. \A i \in 1 .. 1 : u[i] = u[i - 1] + f[0][i].n
        BY <3>1, <2>2, <2>3
      <3> QED BY <3>2, <2>2, <2>3 DEF Totals
    <2>5. \A i \in 0 .. 1 : i = 0 \/ i = 1
      OBVIOUS
    <2>6. 0 \in 0 .. 0 /\ C[0] = 0 /\ C[0] <= C[0]
      BY <1>2
    <2>7. \A i \in 0 .. 1 : u[i] = C[0]
      BY <2>3, <2>5, <2>6
    <2>8. /\ u[Len(f[0])] = C[0]
          /\ \A i \in 0 .. Len(f[0]) : u[i] <= C[0] /\ \E b \in 0 .. 0 : u[i] = C[b]
          /\ \A i \in 1 .. Len(f[0]) : \A k \in 1 .. 0 :
               u[i - 1] < C[k] /\ C[k] <= u[i] => E[k] \in ToSet(f[0][i].experts)
      BY <2>2, <2>3, <2>6, <2>7
    <2>9. 0 \in 0 .. K
      BY <1>2
    <2>10. Grouped(E, C, f[0], 0)
      BY <2>4, <2>8 DEF Grouped
    <2> QED BY <2>9, <2>10
  <1>4. ASSUME NEW i \in 0 .. K - 1, i \in T PROVE i + 1 \in T
    <2> DEFINE j == i + 1
    <2>1. j \in 1 .. K /\ j - 1 = i /\ j \in 0 .. K /\ j - 1 \in 0 .. K /\ i \in 0 .. K
      BY <1>2
    <2>2. E[j] \in Nat /\ Uses(route, E[j]) \in Nat \ {0} /\ C[j] = C[j - 1] + Uses(route, E[j])
      BY <2>1, <1>2 DEF K
    <2>3. f[i] \in GroupLists /\ f[j] \in GroupLists /\ f[j] = Join(f[i], E[j], Uses(route, E[j]))
      BY <2>1, <1>1
    <2> HIDE DEF j
    <2>4. Extends(f[i], f[j], E[j], Uses(route, E[j]))
      BY <2>2, <2>3, JoinExtends
    <2>5. Grouped(E, C, f[i], j - 1)
      BY <2>1, <1>4
    <2>6. Rising(C, K) /\ K \in Nat
      BY <1>2 DEF Rising
    <2>7. Grouped(E, C, f[j], j)
      BY <2>1, <2>2, <2>3, <2>4, <2>5, <2>6, JoinGroups
    <2> QED BY <2>1, <2>7 DEF j
  <1> HIDE DEF T
  <1>5. \A i \in 0 .. K : i \in T
    BY <1>2, <1>3, <1>4, Induction
  <1>6. K \in 0 .. K
    BY <1>2
  <1>7. Grouped(E, C, f[K], K) /\ f[K] \in GroupLists
    BY <1>1, <1>5, <1>6 DEF T
  <1> QED BY <1>1, <1>7 DEF E, C, K

\* Every assignment of a route finds its expert in the bank of its group.
THEOREM RouteIsGrouped ==
  ASSUME NEW route \in Seq(Nat)
  PROVE  GroupedRight(route)
  <1> DEFINE E == Sorted(route)
             C == Marked(route)
             K == Len(E)
             gs == Groups(route)
             B == ByExpert(route)
             n == Len(route)
  <1>1. /\ E \in Seq(Nat) /\ K \in Nat
        /\ C \in [0 .. K -> Nat] /\ C[0] = 0 /\ C[K] = n
        /\ \A j, k \in 0 .. K : j <= k => C[j] <= C[k]
    BY MarksGrow DEF Growing
  <1>2. /\ B \in Seq(Nat) /\ Len(B) = n /\ n \in Nat
        /\ \A q \in 1 .. n : \E k \in 1 .. K : B[q] = E[k] /\ C[k - 1] < q /\ q <= C[k]
    BY SortedPlaces, RouteSet
  <1>3. gs \in GroupLists /\ Grouped(E, C, gs, K)
    BY GroupsEndAtMarks
  <1>s. \A i : Slice(route, i) = SubSeq(B, TotalOf(SubSeq(gs, 1, i - 1)) + 1, TotalOf(SubSeq(gs, 1, i)))
    BY DEF Slice, TotalOf
  <1>g. GroupedRight(route) <=>
          TotalOf(gs) = n /\ \A i \in DOMAIN gs : ToSet(Slice(route, i)) \subseteq ToSet(gs[i].experts)
    BY DEF GroupedRight, TotalOf
  <1> HIDE DEF E, C, K, gs, B, n
  <1>4. PICK u : /\ Totals(gs, u) /\ u[Len(gs)] = C[K]
                 /\ \A i \in 0 .. Len(gs) : u[i] <= C[K] /\ \E b \in 0 .. K : u[i] = C[b]
                 /\ \A i \in 1 .. Len(gs) : \A k \in 1 .. K :
                      u[i - 1] < C[k] /\ C[k] <= u[i] => E[k] \in ToSet(gs[i].experts)
    BY <1>3 DEF Grouped
  <1>5. gs \in Seq(Group) /\ Len(gs) \in Nat /\ Len(gs) \in 0 .. Len(gs) /\ DOMAIN gs = 1 .. Len(gs)
    BY <1>3 DEF GroupLists
  <1>6. \A i \in 0 .. Len(gs) : TotalOf(SubSeq(gs, 1, i)) = u[i] /\ u[i] \in Nat /\ u[i] <= n
    <2> TAKE i \in 0 .. Len(gs)
    <2>1. TotalOf(SubSeq(gs, 1, i)) = u[i]
      BY <1>4, <1>5, PrefixTotals
    <2>2. u[i] \in Nat
      BY <1>4 DEF Totals
    <2> QED BY <2>1, <2>2, <1>1, <1>4
  <1>7. TotalOf(gs) = n
    <2>1. SubSeq(gs, 1, Len(gs)) = gs
      BY <1>5
    <2>2. TotalOf(SubSeq(gs, 1, Len(gs))) = u[Len(gs)]
      BY <1>5, <1>6
    <2> QED BY <2>1, <2>2, <1>1, <1>4
  <1>8. ASSUME NEW i \in 1 .. Len(gs) PROVE ToSet(Slice(route, i)) \subseteq ToSet(gs[i].experts)
    <2> DEFINE a == u[i - 1]
               z == u[i]
               s == SubSeq(B, a + 1, z)
    <2>1. i - 1 \in 0 .. Len(gs) /\ i \in 0 .. Len(gs)
      BY <1>5
    <2>2. Slice(route, i) = s
      BY <2>1, <1>s, <1>6
    <2>3. a \in Nat /\ z \in Nat /\ z <= n
      BY <2>1, <1>6
    <2>4. PICK b \in 0 .. K : z = C[b]
      BY <2>1, <1>4
    <2> HIDE DEF a, z
    <2>5. ASSUME NEW q \in 1 .. n, a < q, q <= z PROVE B[q] \in ToSet(gs[i].experts)
      <3>1. PICK k \in 1 .. K : B[q] = E[k] /\ C[k - 1] < q /\ q <= C[k]
        BY <1>2
      <3>2. k \in 0 .. K /\ k - 1 \in 0 .. K /\ k \in Nat /\ b \in Nat /\ q \in Nat
        BY <1>1, <1>2
      <3>3. C[k] \in Nat /\ C[k - 1] \in Nat /\ C[b] \in Nat
        BY <3>2, <1>1
      <3>4. a < C[k]
        BY <3>1, <3>2, <3>3, <2>3, <2>5
      <3>5. k <= b
        <4> SUFFICES ASSUME b <= k - 1 PROVE FALSE
          BY <3>2
        <4>1. C[b] <= C[k - 1]
          BY <3>2, <1>1
        <4> QED BY <4>1, <3>1, <3>2, <3>3, <2>4, <2>5
      <3>6. C[k] <= z
        BY <3>2, <3>5, <2>4, <1>1
      <3> QED BY <3>1, <3>4, <3>6, <1>4 DEF a, z
    <2>6. ASSUME NEW x \in ToSet(s) PROVE x \in ToSet(gs[i].experts)
      <3>1. CASE a + 1 <= z
        <4>1. s \in Seq(Nat) /\ Len(s) = z - a /\ \A p \in 1 .. z - a : s[p] = B[a + p]
          <5>1. a + 1 \in 1 .. n + 1 /\ z \in a .. n
            BY <3>1, <2>3, <1>2
          <5>2. Len(s) = (z - (a + 1)) + 1 /\ \A p \in 1 .. (z - (a + 1)) + 1 : s[p] = B[(a + 1) + p - 1]
            BY <5>1, <3>1, <2>3, <1>2, SubSeqProperties
          <5>3. (z - (a + 1)) + 1 = z - a /\ \A p \in 1 .. z - a : (a + 1) + p - 1 = a + p
            BY <2>3, <3>1
          <5>4. s \in Seq(Nat)
            BY <5>1, <3>1, <2>3, <1>2, SubSeqProperties
          <5> QED BY <5>2, <5>3, <5>4
        <4> HIDE DEF s
        <4>2. PICK p \in 1 .. z - a : x = s[p]
          <5>1. \E p \in 1 .. Len(s) : s[p] = x
            BY <4>1, <2>6, RouteSet
          <5> QED BY <5>1, <4>1
        <4>3. a + p \in 1 .. n /\ a < a + p /\ a + p <= z
          <5>1. a \in Nat /\ z \in Nat /\ n \in Nat /\ z <= n
            BY <2>3, <1>2
          <5>2. p \in Nat /\ 1 <= p /\ p <= z - a
            BY <5>1
          <5> HIDE DEF a, z
          <5> QED BY <5>1, <5>2
        <4> QED BY <4>1, <4>2, <4>3, <2>5
      <3>2. CASE ~(a + 1 <= z)
        <4>1. s = <<>>
          BY <3>2, <2>3, <1>2, SubSeqProperties
        <4>2. ToSet(<<>>) = {}
          BY DEF ToSet
        <4> QED BY <4>1, <4>2, <2>6
      <3> QED BY <3>1, <3>2
    <2> QED BY <2>2, <2>6
  <1> QED BY <1>5, <1>7, <1>8, <1>g

\* What an expert-major prefill may route to is grouped right.
LEMMA RoutesAreGrouped == \A route \in Routes : GroupedRight(route)
  BY MoeForwardAssumption, RouteIsGrouped

-----------------------------------------------------------------------------
(* The inductive invariant *)

Kinds == {"prefill", "verify", "replay", "rescue", "fallback"}

Types ==
    /\ cfg \in Configs
    /\ pc \in {"forward", "kept", "step", "raised"}
    /\ at \in {"attend", "predict", "serve"}
    /\ fwd \in [kind : Kinds, start : Layers, layer : 0 .. NL, async : BOOLEAN,
                noio : SUBSET Layers, warm : BOOLEAN]
    /\ fwd.start <= L
    /\ good \in BOOLEAN /\ fed \in [Layers -> Seq(BOOLEAN)]
    /\ gen \in Nat /\ prog \subseteq Nat \X Layers
    /\ flags \subseteq Layers /\ optLayers \subseteq Layers
    /\ inputs \in [Layers -> BOOLEAN \cup {None}]

\* Which forwards there are: only a verify may skip handlers, and only a sparse replay
\* starts in the middle.
ForwardInv ==
    /\ fwd.async => cfg.async
    /\ fwd.noio # {} => fwd.kind = "verify" /\ OptimisticMode
    /\ fwd.kind # "replay" => fwd.start = 0
    /\ fwd.kind = "replay" => OptimisticMode \/ (SparseReplayMode /\ ~fwd.async)
    /\ fwd.kind = "rescue" => cfg.verify = "rescue"
    /\ fwd.kind = "fallback" => ~cfg.commits

\* Only a verify that will be run again raises flags, for layers it has left, and
\* what it computes is exact until it does.
FlagInv ==
    /\ flags # {} => /\ pc \in {"forward", "raised"} /\ fwd.kind = "verify"
                     /\ OptimisticMode \/ SparseReplayMode
    /\ \A f \in flags : f < L
    /\ ~good => flags # {}

\* Attention is moved only to the layer that comes next.
MovedInv ==
    /\ moved \subseteq {<<gen, L>>}
    /\ moved # {} => pc = "forward" /\ at = "attend" /\ fwd.start < L /\ L < NL

\* Layers no flagged layer comes before.
Clean == {l \in Layers : \A f \in flags : l <= f}

\* Layers whose attention has run in this forward.
Reached(l) ==
    /\ fwd.start <= l
    /\ l < L \/ (l = L /\ (at # "attend" \/ moved # {}))

\* n forwards went over the caches before this one.
Passes(n) ==
    /\ n = 1 => fwd.kind = "verify" /\ cfg.verify = "step"
    /\ \A l \in Layers :
         Len(fed[l]) = IF l < fwd.start THEN 1 ELSE IF Reached(l) THEN n + 1 ELSE n

\* Every cache was fed once by each forward, exactly up to the first flagged layer.
FedInv ==
    /\ pc = "forward" => \E n \in {0, 1} : Passes(n)
    /\ pc = "kept" => \A l \in Layers :
           Len(fed[l]) = IF cfg.verify = "step" /\ fwd.kind = "verify" THEN 2 ELSE 1
    /\ pc = "step" => \A l \in Layers : Len(fed[l]) = 0
    /\ \A l \in Clean : \A i \in 1 .. Len(fed[l]) : fed[l][i] = TRUE

\* The captured inputs are exact up to there as well.
InputInv ==
    pc = "forward" /\ fwd.kind = "verify" =>
        \A l \in Clean : l < L \/ (l = L /\ at # "attend") => inputs[l] = TRUE

IInv == Types /\ ForwardInv /\ FlagInv /\ MovedInv /\ FedInv /\ InputInv

-----------------------------------------------------------------------------
(* Lemmas *)

ConfigRecord ==
    [verify : Verifies, commits : BOOLEAN, async : BOOLEAN, budget : [Layers -> Nat],
     partition : BOOLEAN, localfix : BOOLEAN, custom : BOOLEAN, single : BOOLEAN,
     suffix : BOOLEAN, optimistic : BOOLEAN, exactgpu : BOOLEAN,
     progressive : SUBSET Layers, fuse : BOOLEAN, multi : BOOLEAN, ready : BOOLEAN,
     wide : BOOLEAN]

\* The switches have their types.
LEMMA ConfigTypes == cfg \in Configs => cfg \in ConfigRecord
  BY MoeForwardAssumption DEF ConfigRecord

\* There are finitely many positions.
LEMMA RowsIsNat == Rows \in Nat
  BY MoeForwardAssumption, FS_CardinalityType DEF Rows

\* Of two sets of positions, one in the other, the one that is not smaller is the larger.
LEMMA Larger ==
  ASSUME NEW A \in SUBSET Positions, NEW B \in SUBSET Positions,
         A \subseteq B \/ B \subseteq A, Cardinality(A) <= Cardinality(B)
  PROVE  A \subseteq B
  <1>1. IsFiniteSet(A) /\ IsFiniteSet(B)
    BY MoeForwardAssumption, FS_Subset
  <1>2. CASE A \subseteq B
    BY <1>2
  <1>3. CASE B \subseteq A
    <2>1. Cardinality(B) <= Cardinality(A) /\ (Cardinality(A) = Cardinality(B) => A = B)
      BY <1>1, <1>3, FS_Subset
    <2>2. Cardinality(A) \in Nat /\ Cardinality(B) \in Nat
      BY <1>1, FS_CardinalityType
    <2> QED BY <2>1, <2>2
  <1> QED BY <1>2, <1>3

\* The budget that is used is at most the positions, and none where none is set.
LEMMA BudgetIsNat ==
  ASSUME cfg \in Configs, L \in Layers
  PROVE  Budget \in Nat /\ Budget <= Rows /\ cfg.budget[L] \in Nat
                        /\ (cfg.budget[L] = 0 => Budget = 0)
  BY ConfigTypes, RowsIsNat DEF ConfigRecord, Budget, Least

\* Positions that do not hit are the rest.
LEMMA CountMisses ==
  ASSUME NEW hit \in SUBSET Positions
  PROVE  /\ Cardinality(hit) \in Nat /\ Cardinality(Positions \ hit) \in Nat
         /\ Cardinality(Positions \ hit) = Rows - Cardinality(hit)
  <1>1. IsFiniteSet(Positions) /\ IsFiniteSet(hit) /\ IsFiniteSet(Positions \ hit)
    BY MoeForwardAssumption, FS_Subset, FS_Difference
  <1>2. Positions \cap hit = hit
    OBVIOUS
  <1>3. Cardinality(Positions \ hit) = Cardinality(Positions) - Cardinality(Positions \cap hit)
    BY <1>1, FS_Difference
  <1> QED BY <1>1, <1>2, <1>3, FS_CardinalityType DEF Rows

\* Whichever way a block computes, a position that keeps the entry mapping hit, unless
\* the layer is flagged.
LEMMA ServedExact ==
  ASSUME ReplaysExactly, cfg \in Configs, L \in Layers,
         NEW hit \in SUBSET Positions, NEW final \in FromFinal(hit), ~Flagged(hit)
  PROVE  Positions \ final \subseteq hit
  <1> DEFINE miss == Positions \ hit
  <1>b. Budget \in Nat /\ Budget <= Rows /\ Rows \in Nat
    BY BudgetIsNat, RowsIsNat
  <1>1. CASE GpuOnly
    <2>1. cfg.optimistic /\ NoIO
      BY <1>1 DEF GpuOnly, ReplaysExactly
    <2> QED BY <2>1, <1>1 DEF Flagged
  <1>2. CASE ~GpuOnly /\ (~fwd.async \/ ~SplitMapping \/ cfg.single)
    BY <1>2 DEF FromFinal
  <1>3. CASE ~GpuOnly /\ ~(~fwd.async \/ ~SplitMapping \/ cfg.single) /\ Budget = 0
    BY <1>3 DEF FromFinal
  <1>4. CASE ~GpuOnly /\ ~(~fwd.async \/ ~SplitMapping \/ cfg.single) /\ Budget # 0
    <2>1. Sparse
      BY <1>4, <1>b DEF Sparse
    <2>2. ~(cfg.partition /\ cfg.localfix) => Cardinality(miss) <= Budget
      BY <2>1, <1>b, CountMisses DEF Flagged
    <2>3. CASE cfg.partition
      <3>1. PICK early \in First(Rows - Budget, hit) :
              final = (Positions \ early) \cup (IF cfg.localfix THEN early \ hit ELSE {})
        BY <1>4, <2>3 DEF FromFinal
      <3>2. CASE cfg.localfix
        BY <3>1, <3>2
      <3>3. CASE ~cfg.localfix
        <4>1. Cardinality(hit) >= Rows - Budget
          BY <2>2, <3>3, <1>b, CountMisses
        <4>2. early \in SUBSET Positions /\ (early \subseteq hit \/ hit \subseteq early)
              /\ Cardinality(early) = Rows - Budget
          BY <3>1 DEF First
        <4>3. early \subseteq hit
          BY <4>1, <4>2, <1>b, CountMisses, Larger
        <4> QED BY <3>1, <4>3
      <3> QED BY <3>2, <3>3
    <2>4. CASE ~cfg.partition
      <3>1. PICK corrected \in First(Budget, miss) : final = corrected \cap miss
        BY <1>4, <2>4 DEF FromFinal
      <3>2. corrected \in SUBSET Positions /\ (corrected \subseteq miss \/ miss \subseteq corrected)
            /\ Cardinality(corrected) = Budget
        BY <3>1 DEF First
      <3>3. Cardinality(miss) <= Cardinality(corrected)
        BY <2>2, <2>4, <3>2
      <3>4. miss \subseteq corrected
        BY <3>2, <3>3, Larger
      <3> QED BY <3>1, <3>4
    <2> QED BY <2>3, <2>4
  <1> QED BY <1>1, <1>2, <1>3, <1>4

\* A flag is raised only by a verify whose flags are read.
LEMMA FlagsAreRead ==
  ASSUME ReplaysExactly, Types, ForwardInv, L \in Layers, ~Prefilling,
         NEW hit \in SUBSET Positions, Flagged(hit)
  PROVE  fwd.kind = "verify" /\ (OptimisticMode \/ SparseReplayMode)
  <1>1. CASE NoIO
    BY <1>1 DEF NoIO, ForwardInv
  <1>2. CASE ~NoIO
    <2>1. Sparse /\ ~(cfg.partition /\ cfg.localfix)
      BY <1>2 DEF Flagged
    <2>2. fwd.async /\ ~cfg.single /\ Budget > 0
      BY <2>1 DEF Sparse
    <2>3. cfg.async
      BY <2>2 DEF ForwardInv
    <2>4. cfg.budget[L] > 0
      BY <2>2, BudgetIsNat DEF Types
    <2>5. MayOverflow(cfg)
      BY <2>1, <2>2, <2>3, <2>4 DEF MayOverflow
    <2>6. /\ cfg.verify = "batch" /\ cfg.commits /\ ~cfg.localfix
          /\ cfg.optimistic => cfg.progressive \subseteq {0}
      BY <2>5 DEF ReplaysExactly, Types
    <2>7. ~OptimisticMode
      BY <2>6 DEF OptimisticMode, InitialOptimistic
    <2>8. SparseReplayMode
      BY <2>3, <2>4, <2>6 DEF SparseReplayMode, SparseEnabled
    <2>9. fwd.kind = "verify"
      BY <2>2, <2>6, <2>7 DEF ForwardInv, Types, Kinds, Prefilling
    <2> QED BY <2>8, <2>9
  <1> QED BY <1>1, <1>2

\* min(flagged) is a flagged layer and none comes before it.
LEMMA LeastLayer ==
  ASSUME NEW S \in SUBSET Layers, S # {}
  PROVE  Min(S) \in S /\ \A y \in S : Min(S) <= y
  <1>1. S \in SUBSET Nat
    BY MoeForwardAssumption DEF Layers
  <1>2. \E x \in S : \A y \in S : x <= y
    BY <1>1, LeastElement, Zenon
  <1> QED BY <1>2 DEF Min

\* Layers are numbered from 0.
LEMMA LayerFacts ==
  /\ NL \in Nat \ {0} /\ 0 \in Layers
  /\ \A l : l \in Layers <=> l \in Nat /\ l < NL
  BY MoeForwardAssumption DEF Layers

-----------------------------------------------------------------------------
(* Within a forward *)

\* Attention feeds the layer's cache unless it was moved ahead and has fed it.
LEMMA AttendStep ==
  ASSUME ReplaysExactly, IInv, Attend
  PROVE  IInv'
  <1> USE LayerFacts
  <1>1. pc = "forward" /\ at = "attend" /\ L \in Layers /\ moved' = {}
    BY DEF Attend, Running, IInv, MovedInv
  <1>a. /\ UNCHANGED <<cfg, pc, fwd, good, flags, optLayers>> /\ L' = L
        /\ at' = "predict" /\ inputs' = [inputs EXCEPT ![L] = good]
    BY DEF Attend, L
  <1>2. moved # {} <=> <<gen, L>> \in moved
    BY DEF IInv, MovedInv
  <1>3. fed' = IF moved # {} THEN fed ELSE [fed EXCEPT ![L] = Append(@, good)]
    BY <1>2 DEF Attend
  <1>4. gen' \in Nat /\ prog' \subseteq prog
    BY DEF Attend, IInv, Types
  <1>t. Types
    BY DEF IInv
  <1>5. L \in Clean => good = TRUE
    BY <1>1, <1>t DEF IInv, FlagInv, Clean, Types
  <1>6. Types'
    <2>1. fed' \in [Layers -> Seq(BOOLEAN)]
      BY <1>1, <1>3, <1>t DEF Types
    <2>2. inputs' \in [Layers -> BOOLEAN \cup {None}]
      BY <1>1, <1>a, <1>t DEF Types
    <2> QED BY <2>1, <2>2, <1>a, <1>1, <1>4, <1>t DEF Types
  <1>7. ForwardInv'
    BY <1>a DEF IInv, ForwardInv, OptimisticMode, SparseReplayMode, SparseEnabled, InitialOptimistic
  <1>8. FlagInv'
    BY <1>a, <1>1 DEF IInv, FlagInv, OptimisticMode, SparseReplayMode, SparseEnabled, InitialOptimistic
  <1>9. MovedInv'
    BY <1>1 DEF MovedInv
  <1>10. FedInv'
    <2>1. Clean' = Clean
      BY <1>a DEF Clean
    <2>2. PICK n \in {0, 1} : Passes(n)
      BY <1>1 DEF IInv, FedInv
    <2>3. \A l \in Layers : Reached(l)' <=> Reached(l) \/ l = L
      BY <1>1, <1>a, <1>t DEF Reached, Types
    <2>4. \A l \in Layers : Len(fed'[l]) = IF moved = {} /\ l = L THEN Len(fed[l]) + 1 ELSE Len(fed[l])
      BY <1>1, <1>3, <1>t DEF Types
    <2>5. Passes(n)'
      <3>1. \A l \in Layers :
              Len(fed'[l]) = IF l < fwd.start THEN 1 ELSE IF Reached(l)' THEN n + 1 ELSE n
        <4>1. (Reached(L) <=> moved # {}) /\ fwd.start <= L
          BY <1>1, <1>t DEF Reached, Types
        <4>2. \A l \in Layers :
                Len(fed[l]) = IF l < fwd.start THEN 1 ELSE IF Reached(l) THEN n + 1 ELSE n
          BY <2>2 DEF Passes
        <4>3. L \in Nat /\ fwd.start \in Nat
          BY <1>1, <1>t DEF Types
        <4> HIDE DEF Reached
        <4> QED BY <2>3, <2>4, <1>1, <4>1, <4>2, <4>3
      <3> QED BY <3>1, <2>2, <1>a DEF Passes
    <2>6. \A l \in Clean : \A i \in 1 .. Len(fed'[l]) : fed'[l][i] = TRUE
      <3> SUFFICES ASSUME NEW l \in Clean, NEW i \in 1 .. Len(fed'[l]) PROVE fed'[l][i] = TRUE
        OBVIOUS
      <3>1. l \in Layers /\ fed[l] \in Seq(BOOLEAN)
        BY <1>t DEF Clean, Types
      <3>2. CASE fed'[l] = fed[l]
        BY <3>2 DEF IInv, FedInv
      <3>3. CASE l = L /\ fed'[l] = Append(fed[l], good)
        BY <3>1, <3>3, <1>5 DEF IInv, FedInv
      <3> QED BY <3>1, <3>2, <3>3, <1>3, <1>1, <1>t DEF Types
    <2> QED BY <2>1, <2>5, <2>6, <1>1, <1>a DEF FedInv
  <1>11. InputInv'
    <2>1. Clean' = Clean
      BY <1>a DEF Clean
    <2>2. \A l \in Layers : inputs'[l] = IF l = L THEN good ELSE inputs[l]
      BY <1>1, <1>a, <1>t DEF Types
    <2> QED BY <2>1, <2>2, <1>5, <1>1, <1>a DEF IInv, InputInv, Clean
  <1> QED BY <1>6, <1>7, <1>8, <1>9, <1>10, <1>11 DEF IInv

\* Predictions leave caches and flags alone.
LEMMA PredictStep ==
  ASSUME ReplaysExactly, IInv, Predict
  PROVE  IInv'
  <1> USE LayerFacts
  <1>t. Types
    BY DEF IInv
  <1>1. pc = "forward" /\ at = "predict" /\ L \in Layers
    BY DEF Predict, Running
  <1>a. /\ UNCHANGED <<cfg, fwd, good, fed, moved, gen, flags, inputs, optLayers>> /\ L' = L
        /\ \/ pc' = "raised" /\ at' = at /\ prog' = prog
           \/ pc' = pc /\ at' = "serve" /\ (prog' = prog \/ \E now : prog' = prog \cup Recorded(now))
    BY DEF Predict, L
  <1>2. moved = {}
    BY <1>1 DEF IInv, MovedInv
  <1>3. prog' \subseteq Nat \X Layers
    <2>1. \A now : Recorded(now) \subseteq Nat \X Layers
      BY <1>t, ConfigTypes DEF Recorded, ConfigRecord, Types
    <2> QED BY <2>1, <1>a, <1>t DEF Types
  <1>4. Types'
    BY <1>a, <1>3, <1>t DEF Types
  <1>5. ForwardInv'
    BY <1>a DEF IInv, ForwardInv, OptimisticMode, SparseReplayMode, SparseEnabled, InitialOptimistic
  <1>6. FlagInv'
    BY <1>a, <1>1 DEF IInv, FlagInv, OptimisticMode, SparseReplayMode, SparseEnabled, InitialOptimistic
  <1>7. MovedInv'
    BY <1>a, <1>2 DEF MovedInv
  <1>8. Clean' = Clean /\ \A l \in Layers : Reached(l)' = Reached(l)
    BY <1>a, <1>1, <1>2 DEF Clean, Reached
  <1>9. FedInv'
    <2>1. PICK n \in {0, 1} : Passes(n)
      BY <1>1 DEF IInv, FedInv
    <2>2. Passes(n)'
      BY <2>1, <1>8, <1>a DEF Passes
    <2> QED BY <2>2, <1>8, <1>a, <1>1 DEF IInv, FedInv
  <1>10. InputInv'
    BY <1>8, <1>a, <1>1 DEF IInv, InputInv
  <1> QED BY <1>4, <1>5, <1>6, <1>7, <1>9, <1>10 DEF IInv

\* A layer of the prefill is exact because its groups cover the route.
LEMMA PrefillLayerStep ==
  ASSUME ReplaysExactly, IInv, PrefillLayer
  PROVE  IInv'
  <1> USE LayerFacts
  <1>t. Types
    BY DEF IInv
  <1>1. pc = "forward" /\ at = "predict" /\ L \in Layers /\ fwd.kind = "prefill"
    BY DEF PrefillLayer, Running, Prefilling
  <1>a. /\ UNCHANGED <<cfg, pc, fed, moved, gen, prog, flags, inputs, optLayers>>
        /\ at' = "attend" /\ fwd' = [fwd EXCEPT !.layer = @ + 1]
    BY DEF PrefillLayer
  <1>2. moved = {} /\ flags = {} /\ good = TRUE
    BY <1>1, <1>t DEF IInv, MovedInv, FlagInv, Types
  <1>3. good' = TRUE
    BY <1>2, RoutesAreGrouped DEF PrefillLayer
  <1>4. L' = L + 1 /\ L + 1 \in 0 .. NL
    BY <1>1, <1>a, <1>t DEF Types, L
  <1>b. /\ fwd'.kind = fwd.kind /\ fwd'.start = fwd.start /\ fwd'.async = fwd.async
        /\ fwd'.noio = fwd.noio /\ fwd' \in [kind : Kinds, start : Layers, layer : 0 .. NL,
                async : BOOLEAN, noio : SUBSET Layers, warm : BOOLEAN]
    BY <1>a, <1>4, <1>t DEF Types, L
  <1>5. Types'
    <2>1. fwd'.start <= L'
      <3>1. fwd.start <= L /\ fwd.start \in Nat /\ L \in Nat
        BY <1>1, <1>t DEF Types
      <3> QED BY <3>1, <1>b, <1>4
    <2>2. good' \in BOOLEAN
      BY <1>3
    <2> QED BY <2>1, <2>2, <1>a, <1>b, <1>t DEF Types
  <1>6. ForwardInv'
    BY <1>a, <1>b DEF IInv, ForwardInv, OptimisticMode, SparseReplayMode, SparseEnabled, InitialOptimistic
  <1>7. FlagInv'
    BY <1>a, <1>2, <1>3 DEF FlagInv
  <1>8. MovedInv'
    BY <1>a, <1>2 DEF MovedInv
  <1>9. FedInv'
    <2>1. PICK n \in {0, 1} : Passes(n)
      BY <1>1 DEF IInv, FedInv
    <2>2. \A l \in Layers : Reached(l)' <=> Reached(l)
      <3>1. \A l \in Layers : Reached(l)' <=> fwd.start <= l /\ l < L + 1
        BY <1>a, <1>b, <1>2, <1>4 DEF Reached
      <3>2. \A l \in Layers : Reached(l) <=> fwd.start <= l /\ (l < L \/ l = L)
        BY <1>1 DEF Reached
      <3>3. \A l \in Layers : l < L + 1 <=> l < L \/ l = L
        BY <1>1
      <3> QED BY <3>1, <3>2, <3>3
    <2>3. Clean' = Clean
      BY <1>a DEF Clean
    <2>4. Passes(n)'
      BY <2>1, <2>2, <1>a, <1>b DEF Passes
    <2> QED BY <2>3, <2>4, <1>a, <1>1 DEF IInv, FedInv
  <1>10. InputInv'
    BY <1>1, <1>b DEF InputInv
  <1> QED BY <1>5, <1>6, <1>7, <1>8, <1>9, <1>10 DEF IInv

\* A block keeps the forward exact or flags its layer; moved attention reads what it made.
LEMMA ServeStep ==
  ASSUME ReplaysExactly, IInv, Serve
  PROVE  IInv'
  <1> USE LayerFacts
  <1>t. Types
    BY DEF IInv
  <1>1. pc = "forward" /\ at = "serve" /\ L \in Layers /\ ~Prefilling
    BY DEF Serve, Running
  <1>a. /\ UNCHANGED <<cfg, pc, gen, inputs, optLayers>>
        /\ at' = "attend" /\ fwd' = [fwd EXCEPT !.layer = @ + 1] /\ prog' \subseteq prog
    BY DEF Serve
  <1>2. moved = {}
    BY <1>1 DEF IInv, MovedInv
  <1>c. PICK hit \in SUBSET Positions : \E final \in FromFinal(hit) :
          /\ good' = (good /\ (Positions \ final) \subseteq hit)
          /\ flags' = IF Flagged(hit) THEN flags \cup {L} ELSE flags
          /\ IF Refines
             THEN fed' = [fed EXCEPT ![L + 1] = Append(@, good')] /\ moved' = moved \cup {<<gen, L + 1>>}
             ELSE UNCHANGED <<fed, moved>>
    BY DEF Serve
  <1>3. PICK final \in FromFinal(hit) :
          /\ good' = (good /\ (Positions \ final) \subseteq hit)
          /\ flags' = IF Flagged(hit) THEN flags \cup {L} ELSE flags
          /\ IF Refines
             THEN fed' = [fed EXCEPT ![L + 1] = Append(@, good')] /\ moved' = moved \cup {<<gen, L + 1>>}
             ELSE UNCHANGED <<fed, moved>>
    BY <1>c
  <1>4. L' = L + 1 /\ L + 1 \in 0 .. NL
    BY <1>1, <1>a, <1>t DEF Types, L
  <1>b. /\ fwd'.kind = fwd.kind /\ fwd'.start = fwd.start /\ fwd'.async = fwd.async
        /\ fwd'.noio = fwd.noio /\ fwd' \in [kind : Kinds, start : Layers, layer : 0 .. NL,
                async : BOOLEAN, noio : SUBSET Layers, warm : BOOLEAN]
    BY <1>a, <1>4, <1>t DEF Types, L
  <1>5. Refines => L + 1 \in Layers
    BY <1>t DEF Refines, Types
  <1>6. good' \in BOOLEAN
    BY <1>3, <1>t DEF Types
  <1>7. flags' \subseteq Layers /\ flags \subseteq flags' /\ flags' \subseteq flags \cup {L}
    BY <1>3, <1>1, <1>t DEF Types
  <1>8. /\ ~good' => flags' # {}
        /\ flags' # {} => fwd.kind = "verify" /\ (OptimisticMode \/ SparseReplayMode)
    <2>1. CASE Flagged(hit)
      BY <2>1, <1>1, <1>3, <1>t, FlagsAreRead DEF IInv
    <2>2. CASE ~Flagged(hit)
      <3>1. Positions \ final \subseteq hit
        BY <2>2, <1>1, <1>3, <1>t, ServedExact DEF Types
      <3> QED BY <3>1, <2>2, <1>3 DEF IInv, FlagInv
    <2> QED BY <2>1, <2>2
  <1>9. Types'
    <2>1. fed' \in [Layers -> Seq(BOOLEAN)]
      <3>1. fed \in [Layers -> Seq(BOOLEAN)]
        BY <1>t DEF Types
      <3>2. CASE Refines
        <4>1. Append(fed[L + 1], good') \in Seq(BOOLEAN)
          BY <3>1, <3>2, <1>5, <1>6
        <4> QED BY <3>1, <3>2, <4>1, <1>3
      <3>3. CASE ~Refines
        BY <3>1, <3>3, <1>3
      <3> QED BY <3>2, <3>3
    <2>2. fwd'.start <= L'
      <3>1. fwd.start <= L /\ fwd.start \in Nat /\ L \in Nat
        BY <1>1, <1>t DEF Types
      <3> QED BY <3>1, <1>b, <1>4
    <2> QED BY <2>1, <2>2, <1>a, <1>b, <1>6, <1>7, <1>t DEF Types
  <1>10. ForwardInv'
    BY <1>a, <1>b DEF IInv, ForwardInv, OptimisticMode, SparseReplayMode, SparseEnabled, InitialOptimistic
  <1>11. FlagInv'
    <2>1. \A f \in flags' : f < L'
      BY <1>7, <1>4, <1>1, <1>t DEF IInv, FlagInv, Types
    <2> QED
      BY <2>1, <1>8, <1>a, <1>b, <1>1 DEF FlagInv, OptimisticMode, SparseReplayMode, SparseEnabled, InitialOptimistic
  <1>12. MovedInv'
    <2>1. moved' # {} => L + 1 \in Layers /\ moved' = {<<gen, L + 1>>}
      BY <1>2, <1>3, <1>5
    <2>2. fwd.start < L + 1
      BY <1>t, <1>1 DEF Types
    <2> QED BY <2>1, <2>2, <1>4, <1>a, <1>b, <1>1 DEF MovedInv
  <1>13. Clean' \subseteq Clean /\ (\A l \in Clean' : l > L => good' = TRUE)
    <2>a. \A f \in flags' : f \in Nat /\ f <= L
      <3>1. \A f \in flags : f < L
        BY DEF IInv, FlagInv
      <3>2. \A f \in flags' : f \in Nat /\ (f \in flags \/ f = L)
        BY <1>7
      <3>3. L \in Nat
        BY <1>1
      <3> HIDE LayerFacts
      <3> QED BY <3>1, <3>2, <3>3
    <2>1. \A l \in Clean' : l > L => flags' = {}
      <3> SUFFICES ASSUME NEW l \in Clean', l > L, NEW f \in flags' PROVE FALSE
        OBVIOUS
      <3>1. l \in Layers /\ l <= f
        BY DEF Clean
      <3>2. l \in Nat /\ L \in Nat
        BY <3>1, <1>1
      <3> HIDE LayerFacts
      <3> QED BY <3>1, <3>2, <2>a
    <2> QED BY <2>1, <1>7, <1>8, <1>6 DEF Clean
  <1>14. FedInv'
    <2>1. PICK n \in {0, 1} : Passes(n)
      BY <1>1 DEF IInv, FedInv
    <2>2. \A l \in Layers : Reached(l)' <=> Reached(l) \/ (Refines /\ l = L + 1)
      <3>1. moved' # {} <=> Refines
        BY <1>2, <1>3
      <3>2. \A l \in Layers : Reached(l) <=> fwd.start <= l /\ l <= L
        BY <1>1, <1>t DEF Reached, Types
      <3>3. \A l \in Layers : Reached(l)' <=> fwd.start <= l /\ (l <= L \/ (l = L + 1 /\ Refines))
        <4>1. \A l \in Layers :
                Reached(l)' <=> fwd.start <= l /\ (l < L + 1 \/ (l = L + 1 /\ Refines))
          BY <3>1, <1>a, <1>b, <1>4 DEF Reached
        <4>2. \A l \in Layers : l < L + 1 <=> l <= L
          BY <1>1
        <4> QED BY <4>1, <4>2
      <3>4. fwd.start <= L + 1
        BY <1>t, <1>1 DEF Types
      <3> QED BY <3>2, <3>3, <3>4
    <2>3. \A l \in Layers :
            Len(fed'[l]) = IF Refines /\ l = L + 1 THEN Len(fed[l]) + 1 ELSE Len(fed[l])
      BY <1>3, <1>6, <1>t DEF Types
    <2>4. Passes(n)'
      <3>1. ~Reached(L + 1) /\ fwd.start <= L + 1 /\ fwd.start \in Nat /\ L \in Nat
        BY <1>t, <1>1 DEF Reached, Types
      <3>2. \A l \in Layers :
              Len(fed[l]) = IF l < fwd.start THEN 1 ELSE IF Reached(l) THEN n + 1 ELSE n
        BY <2>1 DEF Passes
      <3>3. \A l \in Layers :
              Len(fed'[l]) = IF l < fwd.start THEN 1 ELSE IF Reached(l)' THEN n + 1 ELSE n
        <4> HIDE DEF Reached, Refines
        <4> QED BY <2>2, <2>3, <3>1, <3>2
      <3> QED BY <3>3, <2>1, <1>a, <1>b DEF Passes
    <2>5. \A l \in Clean' : \A i \in 1 .. Len(fed'[l]) : fed'[l][i] = TRUE
      <3> SUFFICES ASSUME NEW l \in Clean', NEW i \in 1 .. Len(fed'[l]) PROVE fed'[l][i] = TRUE
        OBVIOUS
      <3>1. l \in Layers /\ fed[l] \in Seq(BOOLEAN) /\ l \in Clean
        BY <1>t, <1>13 DEF Clean, Types
      <3>2. CASE fed'[l] = fed[l]
        BY <3>1, <3>2 DEF IInv, FedInv
      <3>3. CASE l = L + 1 /\ fed'[l] = Append(fed[l], good')
        <4>1. good' = TRUE
          BY <3>3, <1>13, <1>1
        <4>2. \A j \in 1 .. Len(fed[l]) : fed[l][j] = TRUE
          BY <3>1 DEF IInv, FedInv
        <4> QED BY <3>1, <3>3, <4>1, <4>2
      <3> QED BY <3>1, <3>2, <3>3, <1>3, <1>t DEF Types
    <2> QED BY <2>4, <2>5, <1>a, <1>1 DEF FedInv
  <1>15. InputInv'
    <2> SUFFICES ASSUME fwd.kind = "verify", NEW l \in Clean', l < L' \/ (l = L' /\ at' # "attend")
                 PROVE  inputs'[l] = TRUE
      BY <1>b DEF InputInv
    <2>1. l \in Clean /\ l \in Nat /\ L \in Nat
      BY <1>13, <1>1 DEF Clean
    <2>2. l < L \/ (l = L /\ at # "attend")
      BY <2>1, <1>1, <1>a, <1>4
    <2> QED BY <2>1, <2>2, <1>1, <1>a DEF IInv, InputInv
  <1> QED BY <1>9, <1>10, <1>11, <1>12, <1>14, <1>15 DEF IInv

-----------------------------------------------------------------------------
(* Between forwards *)

\* After the last layer every cache has been reached.
LEMMA AllReached ==
  ASSUME IInv, pc = "forward", L = NL
  PROVE  /\ moved = {}
         /\ \E n \in {0, 1} :
              /\ n = 1 => fwd.kind = "verify" /\ cfg.verify = "step"
              /\ \A l \in Layers : Len(fed[l]) = IF l < fwd.start THEN 1 ELSE n + 1
  <1>1. moved = {}
    BY LayerFacts DEF IInv, MovedInv
  <1>2. PICK n \in {0, 1} : Passes(n)
    BY DEF IInv, FedInv
  <1>3. fwd.start \in Nat
    BY LayerFacts DEF IInv, Types
  <1>4. \A l \in Layers : Reached(l) <=> ~(l < fwd.start)
    BY <1>3, LayerFacts DEF Reached
  <1>5. /\ n = 1 => fwd.kind = "verify" /\ cfg.verify = "step"
        /\ \A l \in Layers : Len(fed[l]) = IF l < fwd.start THEN 1 ELSE n + 1
    BY <1>2, <1>4 DEF Passes
  <1> QED BY <1>1, <1>5

\* What a forward that is kept leaves.
LEMMA KeepStep ==
  ASSUME IInv, pc = "forward", L = NL, Keep, flags = {}, flags' = {},
         UNCHANGED <<cfg, fed, moved, gen, prog, inputs>>, optLayers' \subseteq Layers,
         fwd.kind = "verify" /\ cfg.verify = "step" => Len(fed[0]) = 2
  PROVE  IInv'
  <1>1. moved = {}
    BY AllReached
  <1>2. PICK n \in {0, 1} :
              /\ n = 1 => fwd.kind = "verify" /\ cfg.verify = "step"
              /\ \A l \in Layers : Len(fed[l]) = IF l < fwd.start THEN 1 ELSE n + 1
    BY AllReached
  <1>a. pc' = "kept" /\ UNCHANGED <<fwd, good, at>> /\ L' = L
    BY DEF Keep, L
  <1>3. Types'
    BY <1>a DEF IInv, Types
  <1>4. ForwardInv'
    BY <1>a DEF IInv, ForwardInv, OptimisticMode, SparseReplayMode, SparseEnabled, InitialOptimistic
  <1>5. FlagInv'
    BY <1>a DEF IInv, FlagInv
  <1>6. MovedInv'
    BY <1>1 DEF MovedInv
  <1>7. FedInv'
    <2>1. \A l \in Layers :
            Len(fed[l]) = IF cfg.verify = "step" /\ fwd.kind = "verify" THEN 2 ELSE 1
      <3>1. CASE cfg.verify = "step" /\ fwd.kind = "verify"
        <4>1. fwd.start = 0
          BY <3>1 DEF IInv, ForwardInv
        <4>2. n = 1
          <5>1. Len(fed[0]) = n + 1
            BY <1>2, <4>1, LayerFacts
          <5> QED BY <5>1, <3>1
        <4>3. \A l \in Layers : ~(l < fwd.start)
          BY <4>1, LayerFacts
        <4>4. \A l \in Layers : Len(fed[l]) = n + 1
          BY <1>2, <4>3
        <4> QED BY <3>1, <4>2, <4>4
      <3>2. CASE ~(cfg.verify = "step" /\ fwd.kind = "verify")
        BY <1>2, <3>2
      <3> QED BY <3>1, <3>2
    <2>2. Clean' = Clean
      BY DEF Clean
    <2> QED BY <2>1, <2>2, <1>a DEF IInv, FedInv
  <1>8. InputInv'
    BY <1>a DEF InputInv
  <1> QED BY <1>3, <1>4, <1>5, <1>6, <1>7, <1>8 DEF IInv

\* Where a forward starts.
LEMMA RunStep ==
  ASSUME IInv, pc' = "forward", at' = "attend", good' = TRUE, flags' = {}, moved = {},
         UNCHANGED <<cfg, moved, gen, prog, inputs>>, optLayers' \subseteq Layers,
         fwd' \in [kind : Kinds, start : Layers, layer : 0 .. NL, async : BOOLEAN,
                   noio : SUBSET Layers, warm : BOOLEAN],
         fwd'.layer = fwd'.start, ForwardInv', fed' \in [Layers -> Seq(BOOLEAN)],
         NEW n \in {0, 1}, n = 1 => fwd'.kind = "verify" /\ cfg.verify = "step",
         \A l \in Layers : Len(fed'[l]) = IF l < fwd'.start THEN 1 ELSE n,
         \A l \in Layers : \A i \in 1 .. Len(fed'[l]) : fed'[l][i] = TRUE
  PROVE  IInv'
  <1>0. L' = fwd'.start /\ fwd'.start \in Layers
    BY DEF L
  <1>1. Types'
    <2>1. fwd'.start <= L'
      BY <1>0, LayerFacts
    <2>2. /\ cfg' \in Configs /\ pc' \in {"forward", "kept", "step", "raised"}
          /\ at' \in {"attend", "predict", "serve"}
      BY DEF IInv, Types
    <2>3. good' \in BOOLEAN /\ gen' \in Nat /\ prog' \subseteq Nat \X Layers
      BY DEF IInv, Types
    <2>4. /\ flags' \subseteq Layers /\ optLayers' \subseteq Layers
          /\ inputs' \in [Layers -> BOOLEAN \cup {None}]
      BY DEF IInv, Types
    <2> QED BY <2>1, <2>2, <2>3, <2>4 DEF Types
  <1>2. FlagInv'
    BY DEF FlagInv
  <1>3. MovedInv'
    BY DEF MovedInv
  <1>4. FedInv'
    <2>1. \A l \in Layers : Reached(l)' = FALSE
      BY <1>0, LayerFacts DEF Reached
    <2>2. Passes(n)'
      BY <2>1 DEF Passes
    <2>3. Clean' \subseteq Layers
      BY DEF Clean
    <2> QED BY <2>2, <2>3 DEF FedInv
  <1>5. InputInv'
    <2>1. fwd'.kind = "verify" => L' = 0
      BY <1>0 DEF ForwardInv
    <2> QED BY <2>1, LayerFacts DEF InputInv, Clean
  <1> QED BY <1>1, <1>2, <1>3, <1>4, <1>5 DEF IInv

\* The same from caches that are put back whole, or were just committed.
LEMMA FreshRunStep ==
  ASSUME IInv, pc' = "forward", at' = "attend", good' = TRUE, flags' = {}, moved = {},
         UNCHANGED <<cfg, moved, gen, prog, inputs>>, optLayers' \subseteq Layers,
         NEW kind \in Kinds, NEW async \in BOOLEAN, NEW noio \in SUBSET Layers,
         fwd' = Forward(kind, 0, async, noio), ForwardInv',
         Restored(0) \/ (fed' = fed /\ \A l \in Layers : Len(fed[l]) = 0)
  PROVE  IInv'
  <1>1. fed' \in [Layers -> Seq(BOOLEAN)] /\ \A l \in Layers : Len(fed'[l]) = 0
    <2>1. CASE Restored(0)
      <3>1. fed' = [l \in Layers |-> <<>>]
        BY <2>1, LayerFacts DEF Restored
      <3> QED BY <3>1
    <2>2. CASE fed' = fed /\ \A l \in Layers : Len(fed[l]) = 0
      BY <2>2 DEF IInv, Types
    <2> QED BY <2>1, <2>2
  <1>2. /\ fwd' \in [kind : Kinds, start : Layers, layer : 0 .. NL, async : BOOLEAN,
                     noio : SUBSET Layers, warm : BOOLEAN]
        /\ fwd'.layer = fwd'.start /\ fwd'.start = 0
    BY LayerFacts DEF Forward
  <1>3. \A l \in Layers : Len(fed'[l]) = IF l < fwd'.start THEN 1 ELSE 0
    BY <1>1, <1>2, LayerFacts
  <1>4. \A l \in Layers : \A i \in 1 .. Len(fed'[l]) : fed'[l][i] = TRUE
    BY <1>1
  <1>5. 0 \in {0, 1} /\ 0 # 1
    OBVIOUS
  <1> QED BY <1>1, <1>2, <1>3, <1>4, <1>5, RunStep, Zenon

\* A pending flag means that the forward will be run again.
LEMMA FlagsMeanReplay ==
  ASSUME IInv, flags # {}
  PROVE  fwd.kind = "verify" /\ (OptimisticMode \/ SparseReplayMode) /\ cfg.verify # "step"
  <1>1. fwd.kind = "verify" /\ (OptimisticMode \/ SparseReplayMode)
    BY DEF IInv, FlagInv
  <1>2. cfg.verify # "step"
    BY <1>1 DEF OptimisticMode, SparseReplayMode
  <1> QED BY <1>1, <1>2

\* Without flags every cache holds exact entries only.
LEMMA AllExact ==
  ASSUME IInv, flags = {}
  PROVE  good = TRUE /\ \A l \in Layers : \A i \in 1 .. Len(fed[l]) : fed[l][i] = TRUE
  <1>1. Clean = Layers
    BY DEF Clean
  <1>2. good = TRUE
    BY DEF IInv, FlagInv, Types
  <1> QED BY <1>1, <1>2 DEF IInv, FedInv

\* The end of the prefill keeps exact caches.
LEMMA EndPrefillStep ==
  ASSUME IInv, EndPrefill
  PROVE  IInv'
  <1>1. pc = "forward" /\ L = NL /\ fwd.kind = "prefill" /\ Keep
        /\ UNCHANGED <<cfg, fed, moved, gen, prog, inputs, flags, optLayers>>
    BY DEF EndPrefill, Ended, vpool
  <1>2. flags = {} /\ optLayers \subseteq Layers
    BY <1>1, FlagsMeanReplay DEF IInv, Types
  <1> QED BY <1>1, <1>2, KeepStep

\* A replay has no flags and is kept.
LEMMA ReplayedStep ==
  ASSUME IInv, Replayed
  PROVE  IInv'
  <1>1. pc = "forward" /\ L = NL /\ fwd.kind # "verify" /\ Keep
        /\ UNCHANGED <<cfg, fed, moved, gen, prog, inputs, flags, optLayers>>
    BY DEF Replayed, Ended, vpool
  <1>2. flags = {} /\ optLayers \subseteq Layers
    BY <1>1, FlagsMeanReplay DEF IInv, Types
  <1> QED BY <1>1, <1>2, KeepStep

\* A verify of a mode without flags is kept; in step mode it is the second.
LEMMA AcceptStep ==
  ASSUME IInv, Accept
  PROVE  IInv'
  <1>1. pc = "forward" /\ L = NL /\ ~OptimisticMode /\ ~SparseReplayMode /\ Keep
        /\ (cfg.verify = "step" => Len(fed[0]) = 2)
        /\ UNCHANGED <<cfg, fed, moved, gen, prog, inputs, flags, optLayers>>
    BY DEF Accept, Ended, vpool
  <1>2. flags = {} /\ optLayers \subseteq Layers
    BY <1>1, FlagsMeanReplay DEF IInv, Types
  <1> QED BY <1>1, <1>2, KeepStep

\* A verify starts on committed caches.
LEMMA VerifyStep ==
  ASSUME IInv, Verify
  PROVE  IInv'
  <1>1. PICK noio \in SUBSET Layers : noio = IF OptimisticMode THEN optLayers ELSE {}
    BY DEF IInv, Types
  <1>2. /\ pc = "step" /\ pc' = "forward" /\ at' = "attend" /\ good' = TRUE
        /\ fwd' = Forward("verify", 0, cfg.async, noio) /\ fed' = fed
        /\ UNCHANGED <<cfg, moved, gen, prog, inputs, flags, optLayers>>
    BY <1>1 DEF Verify, Run, vpool
  <1>3. flags = {} /\ moved = {} /\ optLayers \subseteq Layers /\ \A l \in Layers : Len(fed[l]) = 0
    BY <1>2 DEF IInv, FlagInv, MovedInv, FedInv, Types
  <1>4. cfg.async \in BOOLEAN /\ "verify" \in Kinds
    BY ConfigTypes DEF IInv, Types, ConfigRecord, Kinds
  <1>5. ForwardInv'
    BY <1>1, <1>2 DEF ForwardInv, Forward, OptimisticMode, InitialOptimistic
  <1> QED BY <1>2, <1>3, <1>4, <1>5, FreshRunStep

\* The second forward of step mode finds every cache fed once.
LEMMA StepAgainStep ==
  ASSUME IInv, StepAgain
  PROVE  IInv'
  <1>2. /\ pc = "forward" /\ L = NL /\ fwd.kind = "verify" /\ cfg.verify = "step" /\ Len(fed[0]) = 1
        /\ pc' = "forward" /\ at' = "attend" /\ good' = TRUE
        /\ fwd' = Forward("verify", 0, cfg.async, {}) /\ fed' = fed
        /\ UNCHANGED <<cfg, moved, gen, prog, inputs, flags, optLayers>>
    BY DEF StepAgain, Ended, Run, vpool
  <1>3. flags = {} /\ moved = {} /\ optLayers \subseteq Layers
    BY <1>2, FlagsMeanReplay, AllReached DEF IInv, Types
  <1>4. cfg.async \in BOOLEAN /\ "verify" \in Kinds
    BY ConfigTypes DEF IInv, Types, ConfigRecord, Kinds
  <1>5. ForwardInv'
    BY <1>2 DEF ForwardInv, Forward
  <1>6. \A l \in Layers : Len(fed[l]) = 1
    <2>1. PICK n \in {0, 1} : \A l \in Layers : Len(fed[l]) = IF l < fwd.start THEN 1 ELSE n + 1
      BY <1>2, AllReached
    <2>2. fwd.start = 0
      BY <1>2 DEF IInv, ForwardInv
    <2>3. Len(fed[0]) = n + 1
      BY <2>1, <2>2, LayerFacts
    <2>4. n + 1 = 1
      BY <2>3, <1>2
    <2> QED BY <2>1, <2>4
  <1>7. /\ fwd' \in [kind : Kinds, start : Layers, layer : 0 .. NL, async : BOOLEAN,
                     noio : SUBSET Layers, warm : BOOLEAN]
        /\ fwd'.layer = fwd'.start /\ fwd'.start = 0 /\ fwd'.kind = "verify"
    BY <1>2, <1>4, LayerFacts DEF Forward
  <1>8. fed' \in [Layers -> Seq(BOOLEAN)]
    BY <1>2 DEF IInv, Types
  <1>9. \A l \in Layers : Len(fed'[l]) = IF l < fwd'.start THEN 1 ELSE 1
    BY <1>2, <1>6
  <1>10. \A l \in Layers : \A i \in 1 .. Len(fed'[l]) : fed'[l][i] = TRUE
    BY <1>2, <1>3, AllExact
  <1>11. 1 \in {0, 1}
    OBVIOUS
  <1>12. flags' = {} /\ UNCHANGED <<cfg, moved, gen, prog, inputs>> /\ optLayers' \subseteq Layers
    BY <1>2, <1>3
  <1> QED BY <1>2, <1>3, <1>5, <1>7, <1>8, <1>9, <1>10, <1>11, <1>12, RunStep, Zenon

\* An optimistic verify is kept without flags and run again from restored caches with one.
LEMMA OptimisticCheckStep ==
  ASSUME IInv, OptimisticCheck
  PROVE  IInv'
  <1>1. pc = "forward" /\ L = NL /\ OptimisticMode /\ flags' = {} /\ optLayers' = optLayers \ flags
        /\ UNCHANGED <<cfg, moved, gen, prog, inputs>>
    BY DEF OptimisticCheck, Ended
  <1>2. optLayers' \subseteq Layers /\ moved = {}
    BY <1>1, AllReached DEF IInv, Types
  <1>3. CASE flags = {}
    <2>1. Keep /\ UNCHANGED fed
      BY <1>3 DEF OptimisticCheck
    <2>2. cfg.verify # "step"
      BY <1>1 DEF OptimisticMode
    <2> QED BY <2>1, <2>2, <1>1, <1>2, <1>3, KeepStep
  <1>4. CASE flags # {}
    <2>1. /\ Restored(0) /\ pc' = "forward" /\ at' = "attend" /\ good' = TRUE
          /\ fwd' = Forward("replay", 0, cfg.async, {})
      BY <1>4 DEF OptimisticCheck, Run
    <2>2. cfg.async \in BOOLEAN /\ "replay" \in Kinds
      BY ConfigTypes DEF IInv, Types, ConfigRecord, Kinds
    <2>3. ForwardInv'
      BY <1>1, <2>1 DEF ForwardInv, Forward, OptimisticMode, InitialOptimistic
    <2> QED BY <1>1, <1>2, <2>1, <2>2, <2>3, FreshRunStep
  <1> QED BY <1>3, <1>4

\* A rescue starts on restored caches.
LEMMA RescueStep ==
  ASSUME IInv, Rescue
  PROVE  IInv'
  <1>1. /\ pc = "kept" /\ cfg.verify = "rescue" /\ Restored(0)
        /\ pc' = "forward" /\ at' = "attend" /\ good' = TRUE
        /\ fwd' = Forward("rescue", 0, cfg.async, {})
        /\ UNCHANGED <<cfg, moved, gen, prog, inputs, flags, optLayers>>
    BY DEF Rescue, Run, vpool
  <1>2. flags = {} /\ moved = {} /\ optLayers \subseteq Layers
    BY <1>1 DEF IInv, FlagInv, MovedInv, Types
  <1>3. cfg.async \in BOOLEAN /\ "rescue" \in Kinds
    BY ConfigTypes DEF IInv, Types, ConfigRecord, Kinds
  <1>4. ForwardInv'
    BY <1>1 DEF ForwardInv, Forward
  <1> QED BY <1>1, <1>2, <1>3, <1>4, FreshRunStep

\* A fallback starts on restored caches.
LEMMA FallbackStep ==
  ASSUME IInv, Fallback
  PROVE  IInv'
  <1>1. /\ pc = "kept" /\ ~cfg.commits /\ Restored(0)
        /\ pc' = "forward" /\ at' = "attend" /\ good' = TRUE
        /\ fwd' = Forward("fallback", 0, cfg.async, {})
        /\ UNCHANGED <<cfg, moved, gen, prog, inputs, flags, optLayers>>
    BY DEF Fallback, Run, vpool
  <1>2. flags = {} /\ moved = {} /\ optLayers \subseteq Layers
    BY <1>1 DEF IInv, FlagInv, MovedInv, Types
  <1>3. cfg.async \in BOOLEAN /\ "fallback" \in Kinds
    BY ConfigTypes DEF IInv, Types, ConfigRecord, Kinds
  <1>4. ForwardInv'
    BY <1>1 DEF ForwardInv, Forward
  <1> QED BY <1>1, <1>2, <1>3, <1>4, FreshRunStep

\* A commit leaves nothing pending.
LEMMA CommitStep ==
  ASSUME IInv, Commit
  PROVE  IInv'
  <1>1. /\ pc = "kept" /\ pc' = "step" /\ fed' = [l \in Layers |-> <<>>] /\ L' = L
        /\ UNCHANGED <<cfg, fwd, good, at, moved, gen, prog, inputs, flags, optLayers>>
    BY DEF Commit, vpool, L
  <1>2. Types'
    BY <1>1 DEF IInv, Types
  <1>3. ForwardInv'
    BY <1>1 DEF IInv, ForwardInv, OptimisticMode, SparseReplayMode, SparseEnabled, InitialOptimistic
  <1>4. FlagInv' /\ MovedInv'
    BY <1>1 DEF IInv, FlagInv, MovedInv
  <1>5. FedInv'
    BY <1>1 DEF FedInv, Clean
  <1>6. InputInv'
    BY <1>1 DEF InputInv
  <1> QED BY <1>2, <1>3, <1>4, <1>5, <1>6 DEF IInv

\* A sparse replay starts at the first flagged layer, whose input was exact, or at the
\* first of all; the caches before it were fed exactly.
LEMMA SparseCheckStep ==
  ASSUME IInv, SparseCheck
  PROVE  IInv'
  <1> USE LayerFacts
  <1>1. pc = "forward" /\ L = NL /\ ~OptimisticMode /\ SparseReplayMode /\ flags' = {}
        /\ fwd.kind = "verify" /\ UNCHANGED <<cfg, moved, gen, prog, inputs, optLayers>>
    BY DEF SparseCheck, Ended
  <1>2. optLayers' \subseteq Layers /\ moved = {}
    BY <1>1, AllReached DEF IInv, Types
  <1>3. cfg.verify = "batch"
    BY <1>1 DEF SparseReplayMode
  <1>4. CASE flags = {}
    <2>1. Keep /\ UNCHANGED fed
      BY <1>4 DEF SparseCheck
    <2> QED BY <2>1, <1>1, <1>2, <1>3, <1>4, KeepStep
  <1>5. CASE flags # {}
    <2>1. ReplayStart \in Layers /\ \A f \in flags : ReplayStart <= f
      BY <1>5, LeastLayer DEF ReplayStart, IInv, Types
    <2>2. PICK r \in Layers : r = ReplayStart
      BY <2>1
    <2>3. /\ pc' = "forward" /\ at' = "attend" /\ Restored(r)
          /\ good' = (IF r = 0 THEN TRUE ELSE inputs[r])
          /\ fwd' = Forward("replay", r, FALSE, {})
      BY <1>5, <2>2 DEF SparseCheck, Run, ReplayAsync
    <2>4. \A l \in Layers : l <= r => l \in Clean
      BY <2>1, <2>2 DEF Clean, IInv, Types
    <2>5. good' = TRUE
      <3>1. r \in Clean /\ r < L
        BY <2>4, <1>1
      <3>2. inputs[r] = TRUE
        BY <3>1, <1>1 DEF IInv, InputInv
      <3> QED BY <3>2, <2>3
    <2>6. \A l \in Layers : Len(fed[l]) = 1
      <3>1. PICK n \in {0, 1} :
              /\ n = 1 => fwd.kind = "verify" /\ cfg.verify = "step"
              /\ \A l \in Layers : Len(fed[l]) = IF l < fwd.start THEN 1 ELSE n + 1
        BY <1>1, AllReached
      <3>2. n = 0
        BY <3>1, <1>3
      <3> QED BY <3>1, <3>2
    <2>7. fed' \in [Layers -> Seq(BOOLEAN)]
          /\ \A l \in Layers : fed'[l] = IF l >= r THEN <<>> ELSE fed[l]
      <3>1. fed \in [Layers -> Seq(BOOLEAN)]
        BY DEF IInv, Types
      <3>2. fed' = [l \in Layers |-> IF l >= r THEN <<>> ELSE fed[l]]
        BY <2>3 DEF Restored
      <3>3. <<>> \in Seq(BOOLEAN)
        OBVIOUS
      <3>4. \A l \in Layers : (IF l >= r THEN <<>> ELSE fed[l]) \in Seq(BOOLEAN)
        BY <3>1, <3>3
      <3> HIDE LayerFacts
      <3> QED BY <3>2, <3>4
    <2>8. /\ fwd' \in [kind : Kinds, start : Layers, layer : 0 .. NL, async : BOOLEAN,
                       noio : SUBSET Layers, warm : BOOLEAN]
          /\ fwd'.layer = fwd'.start /\ fwd'.start = r
      BY <2>3 DEF Forward, Kinds
    <2>9. ForwardInv'
      BY <2>3, <1>1 DEF ForwardInv, Forward, SparseReplayMode, SparseEnabled
    <2>10. \A l \in Layers : Len(fed'[l]) = IF l < fwd'.start THEN 1 ELSE 0
      <3>1. fwd'.start = r
        BY <2>8
      <3>2. \A l \in Layers : (l < r) <=> ~(l >= r)
        OBVIOUS
      <3>3. \A l \in Layers : Len(fed'[l]) = IF l >= r THEN 0 ELSE 1
        BY <2>6, <2>7
      <3> QED BY <3>1, <3>2, <3>3
    <2>11. \A l \in Layers : \A i \in 1 .. Len(fed'[l]) : fed'[l][i] = TRUE
      <3> SUFFICES ASSUME NEW l \in Layers, NEW i \in 1 .. Len(fed'[l]) PROVE fed'[l][i] = TRUE
        OBVIOUS
      <3>1. CASE l >= r
        BY <3>1, <2>7
      <3>2. CASE ~(l >= r)
        <4>1. l \in Clean /\ fed'[l] = fed[l]
          BY <3>2, <2>4, <2>7
        <4> QED BY <4>1 DEF IInv, FedInv
      <3> QED BY <3>1, <3>2
    <2>12. 0 \in {0, 1} /\ 0 # 1 /\ UNCHANGED <<cfg, moved, gen, prog, inputs>>
      BY <1>1
    <2> HIDE LayerFacts
    <2> QED
      BY <1>1, <1>2, <2>3, <2>5, <2>7, <2>8, <2>9, <2>10, <2>11, <2>12, RunStep, Zenon
  <1> QED BY <1>4, <1>5

-----------------------------------------------------------------------------
(* Theorems *)

\* The invariant holds when the prefill begins.
LEMMA InitInv == Init => IInv
  <1> SUFFICES ASSUME Init PROVE IInv
    OBVIOUS
  <1> USE LayerFacts
  <1>1. L = 0 /\ fwd.start = 0 /\ fwd.kind = "prefill" /\ fwd.async = cfg.async /\ fwd.noio = {}
    BY DEF Init, Forward, L
  <1>2. Types
    <2>1. cfg \in Configs /\ cfg \in ConfigRecord
      BY ConfigTypes DEF Init
    <2>2. InitialOptimistic \subseteq Layers /\ cfg.async \in BOOLEAN
      BY <2>1 DEF InitialOptimistic, ConfigRecord
    <2> QED BY <1>1, <2>1, <2>2 DEF Types, Init, Forward, Kinds
  <1>3. ForwardInv /\ FlagInv /\ MovedInv
    BY <1>1 DEF Init, ForwardInv, FlagInv, MovedInv
  <1>4. FedInv
    <2>1. \A l \in Layers : ~Reached(l)
      BY <1>1 DEF Reached, Init
    <2>2. \A l \in Layers : Len(fed[l]) = 0
      BY DEF Init
    <2>3. Passes(0)
      BY <2>1, <2>2, <1>1 DEF Passes
    <2> QED BY <2>2, <2>3 DEF FedInv, Init, Clean
  <1>5. InputInv
    BY <1>1 DEF InputInv
  <1> QED BY <1>2, <1>3, <1>4, <1>5 DEF IInv

\* The invariant holds in every state.
THEOREM Inductive ==
  ASSUME ReplaysExactly
  PROVE  Spec => []IInv
  <1>1. Init => IInv
    BY InitInv
  <1>2. IInv /\ [Next]_vars => IInv'
    <2> SUFFICES ASSUME IInv, [Next]_vars PROVE IInv'
      OBVIOUS
    <2>1. CASE UNCHANGED vars
      BY <2>1 DEF vars, python, caches, vpool, IInv, Types, ForwardInv, FlagInv, MovedInv, FedInv,
                  InputInv, Passes, Reached, Clean, L, OptimisticMode, SparseReplayMode,
                  SparseEnabled, InitialOptimistic
    <2>2. CASE Next
      BY <2>2, AttendStep, PredictStep, ServeStep, PrefillLayerStep, EndPrefillStep, VerifyStep,
         StepAgainStep, AcceptStep, OptimisticCheckStep, SparseCheckStep, ReplayedStep, RescueStep,
         FallbackStep, CommitStep DEF Next
    <2> QED BY <2>1, <2>2
  <1> QED BY <1>1, <1>2, PTL DEF Spec

\* Sequences of one and of two exact entries.
LEMMA ExactSeq ==
  ASSUME NEW s \in Seq(BOOLEAN)
  PROVE  /\ Len(s) = 1 /\ s[1] = TRUE => s = <<TRUE>>
         /\ Len(s) = 2 /\ s[1] = TRUE /\ s[2] = TRUE => s = <<TRUE, TRUE>>
  <1>1. ASSUME Len(s) = 1, s[1] = TRUE PROVE s = <<TRUE>>
    <2>0. <<TRUE>> \in Seq(BOOLEAN)
      OBVIOUS
    <2>1. PICK t \in Seq(BOOLEAN) : t = <<TRUE>>
      BY <2>0, Zenon
    <2>2. Len(t) = 1 /\ t[1] = TRUE
      BY <2>1
    <2>3. Len(s) = Len(t) /\ \A i \in 1 .. Len(s) : s[i] = t[i]
      BY <1>1, <2>2
    <2>4. s = t
      BY <2>3, SeqEqual
    <2> QED BY <2>1, <2>4
  <1>2. ASSUME Len(s) = 2, s[1] = TRUE, s[2] = TRUE PROVE s = <<TRUE, TRUE>>
    <2>0. <<TRUE, TRUE>> \in Seq(BOOLEAN)
      OBVIOUS
    <2>1. PICK t \in Seq(BOOLEAN) : t = <<TRUE, TRUE>>
      BY <2>0, Zenon
    <2>2. Len(t) = 2 /\ t[1] = TRUE /\ t[2] = TRUE
      BY <2>1
    <2>3. Len(s) = Len(t) /\ \A i \in 1 .. Len(s) : s[i] = t[i]
      BY <1>2, <2>2
    <2>4. s = t
      BY <2>3, SeqEqual
    <2> QED BY <2>1, <2>4
  <1> QED BY <1>1, <1>2

\* What the decoder keeps is exact: KeptExact.  Positions whose experts were not in their
\* rows never leave the verify step, and each cache was fed each kept token once.
THEOREM KeptIsExact ==
  ASSUME ReplaysExactly
  PROVE  Spec => []KeptExact
  <1>1. IInv => KeptExact
    <2> SUFFICES ASSUME IInv, pc = "kept"
                 PROVE  /\ good
                        /\ \A l \in Layers :
                             fed[l] = IF cfg.verify = "step" /\ fwd.kind = "verify"
                                      THEN <<TRUE, TRUE>> ELSE <<TRUE>>
      BY DEF KeptExact
    <2>1. flags = {}
      BY DEF IInv, FlagInv
    <2>2. good = TRUE /\ \A l \in Layers : \A i \in 1 .. Len(fed[l]) : fed[l][i] = TRUE
      BY <2>1, AllExact
    <2>3. ASSUME NEW l \in Layers
          PROVE  fed[l] = IF cfg.verify = "step" /\ fwd.kind = "verify"
                          THEN <<TRUE, TRUE>> ELSE <<TRUE>>
      <3>1. fed[l] \in Seq(BOOLEAN)
        BY DEF IInv, Types
      <3>2. Len(fed[l]) = IF cfg.verify = "step" /\ fwd.kind = "verify" THEN 2 ELSE 1
        BY DEF IInv, FedInv
      <3>3. CASE cfg.verify = "step" /\ fwd.kind = "verify"
        <4>1. Len(fed[l]) = 2 /\ fed[l][1] = TRUE /\ fed[l][2] = TRUE
          BY <3>2, <3>3, <2>2
        <4>2. fed[l] = <<TRUE, TRUE>>
          BY <3>1, <4>1, ExactSeq
        <4> QED BY <3>3, <4>2
      <3>4. CASE ~(cfg.verify = "step" /\ fwd.kind = "verify")
        <4>1. Len(fed[l]) = 1 /\ fed[l][1] = TRUE
          BY <3>2, <3>4, <2>2
        <4>2. fed[l] = <<TRUE>>
          BY <3>1, <4>1, ExactSeq
        <4> QED BY <3>4, <4>2
      <3> QED BY <3>3, <3>4
    <2> QED BY <2>2, <2>3
  <1> QED BY <1>1, Inductive, PTL

\* Flags are consumed by the forward that raised them: FlagsConsumed.  A verify never
\* replays for a miss of an earlier forward.
THEOREM FlagsAreConsumed ==
  ASSUME ReplaysExactly
  PROVE  Spec => []FlagsConsumed
  <1>1. IInv => FlagsConsumed
    BY DEF IInv, FlagInv, FlagsConsumed
  <1> QED BY <1>1, Inductive, PTL

-----------------------------------------------------------------------------
(* Predictions: hypotheses and invariant *)

\* A prediction handed to the next demand is handed to one that takes it.
FusedRides ==
    \A c \in Configs :
        c.fuse /\ c.async => /\ ~c.custom /\ \A l \in Layers : c.budget[l] = 0
                             /\ c.exactgpu => c.optimistic

\* No progressive target is predicted from two layers.
OneSource ==
    \A c \in Configs : \A t \in c.progressive \ {0} :
        c.multi /\ MultiAhead # Ahead[t] => t < Ahead[t] \/ t < MultiAhead

Begun == pc = "forward" /\ ~(at = "attend" /\ L = fwd.start)

\* The block of layer l has submitted its predictions in this forward.
Entered(l) == fwd.start <= l /\ (l < L \/ (l = L /\ at = "serve"))

OrderTypes ==
    /\ cfg \in Configs
    /\ pc \in {"forward", "kept", "step"}
    /\ at \in {"attend", "predict", "serve"}
    /\ fwd \in [kind : Kinds, start : Layers, layer : 0 .. NL, async : BOOLEAN,
                noio : SUBSET Layers, warm : BOOLEAN]
    /\ fwd.start <= L /\ (fwd.async => cfg.async)
    /\ gen \in Nat /\ last \in -1 .. NL - 1
    /\ pools \subseteq Layers /\ (fwd.warm => pools = Layers)
    /\ flags \subseteq Layers /\ optLayers \subseteq Layers
    /\ prog \subseteq Nat \X Layers /\ fused \subseteq Nat \X Nat \X Layers
    /\ asked \subseteq Layers \X Layers \X Layers

\* Layers are entered in order, and a forward ends with the last: so that the next one
\* begins a new generation.
OrderInv ==
    /\ pc = "forward" /\ at # "attend" => last = L /\ L < NL
    /\ pc = "forward" /\ at = "attend" /\ L # fwd.start => last = L - 1
    /\ pc = "forward" /\ at = "attend" /\ L = fwd.start =>
           last = NL - 1 \/ (last = -1 /\ fwd.kind = "prefill")
    /\ pc # "forward" => last = NL - 1

\* What is on record for this generation was asked for in this forward.
RecordInv ==
    /\ fwd.kind = "prefill" => prog = {} /\ fused = {}
    /\ \A k \in prog :
         k[1] <= gen /\ (Begun /\ k[1] = gen => \E l \in Layers : Entered(l) /\ k[2] \in Targets(l))
    /\ \A k \in fused :
         k[1] <= gen /\ (Begun /\ k[1] = gen =>
             \E l \in Layers : Entered(l) /\ k[2] = l + 1 /\ k[3] \in Fusable(l))

\* A whole forward with all pools built.
Whole == Begun /\ fwd.start = 0 /\ fwd.warm /\ fwd.kind # "prefill"

\* Target t, predicted from layer l, has been submitted from layer n.
IsSent(t, l, n) ==
    IF HostReady THEN n = l /\ l < L /\ t \in Targets(l)
    ELSE \/ Entered(l) /\ n = l /\ t \in Targets(l) /\ t \notin Fusable(l)
         \/ n = l + 1 /\ n < L /\ t \in Fusable(l)

AskedInv ==
    /\ deferred = IF pc = "forward" /\ at = "serve" /\ HostReady THEN Targets(L) ELSE {}
    /\ Whole => /\ \A t, l, n \in Layers : <<t, l, n>> \in asked <=> IsSent(t, l, n)
                /\ \A l, t \in Layers :
                     Entered(l) /\ L <= l + 1 /\ t \in Fusable(l) => <<gen, l + 1, t>> \in fused

PredictionInv == OrderTypes /\ OrderInv /\ RecordInv /\ AskedInv

-----------------------------------------------------------------------------
(* Predictions: proofs *)

\* Targets come after their source.
LEMMA TargetsAreLater ==
  ASSUME NEW l \in Layers, NEW t \in Targets(l)
  PROVE  t \in Layers /\ l < t
  <1> USE LayerFacts, MoeForwardAssumption
  <1>1. CASE t \in TargetsFor(l)
    <2>1. t \in l + 1 .. NL - 1 /\ l \in Nat /\ NL \in Nat
      BY <1>1 DEF TargetsFor
    <2> HIDE LayerFacts, MoeForwardAssumption
    <2>2. t \in Nat /\ l < t /\ t < NL
      BY <2>1
    <2> QED BY <2>2, LayerFacts
  <1>2. CASE t \in Layers /\ t = l + MultiAhead
    BY <1>2
  <1> QED BY <1>1, <1>2 DEF Targets

\* A progressive target has at most one source.
LEMMA ProgressiveHasOneSource ==
  ASSUME OneSource, cfg \in Configs, NEW l \in Layers, NEW k \in Layers,
         NEW t \in cfg.progressive, t \in Targets(l), t \in Targets(k)
  PROVE  l = k
  <1> USE LayerFacts
  <1>1. t \in 1 .. NL - 1 /\ Ahead[t] \in Nat /\ MultiAhead \in Nat /\ l \in Nat /\ k \in Nat
    <2>1. t \in Layers /\ l < t
      BY TargetsAreLater
    <2>2. NL \in Nat /\ MultiAhead \in Nat /\ Ahead \in [1 .. NL - 1 -> Nat \ {0}]
      BY MoeForwardAssumption
    <2>3. t \in Nat /\ l \in Nat /\ k \in Nat /\ t < NL
      BY <2>1
    <2> HIDE LayerFacts
    <2>4. t \in 1 .. NL - 1
      BY <2>1, <2>2, <2>3
    <2> QED BY <2>2, <2>3, <2>4
  <1>2. (l = t - Ahead[t] \/ (cfg.multi /\ l = t - MultiAhead))
        /\ (k = t - Ahead[t] \/ (cfg.multi /\ k = t - MultiAhead))
    BY <1>1 DEF Targets, TargetsFor
  <1>3. cfg.multi /\ MultiAhead # Ahead[t] => t < Ahead[t] \/ t < MultiAhead
    BY <1>1 DEF OneSource
  <1> QED BY <1>1, <1>2, <1>3

\* A fused prediction goes to a block that exists and whose demand takes it.
LEMMA FusableFacts ==
  ASSUME FusedRides, OrderTypes, NEW l \in Layers, NEW t \in Fusable(l)
  PROVE  /\ t \in Targets(l) /\ t \in Layers /\ l + 1 < NL /\ l + 1 < t /\ ~HostReady
         /\ L \in Layers => Rides
  <1> USE LayerFacts
  <1>1. t \in Targets(l) /\ cfg.fuse /\ fwd.async /\ t - l >= 2
    BY DEF Fusable
  <1>2. t \in Layers
    BY <1>1, TargetsAreLater
  <1>3. cfg.async /\ ~cfg.custom /\ (\A m \in Layers : cfg.budget[m] = 0) /\ (cfg.exactgpu => cfg.optimistic)
    BY <1>1 DEF OrderTypes, FusedRides
  <1>4. ASSUME L \in Layers PROVE Rides
    <2>1. ~SplitMapping
      BY <1>3, <1>4 DEF SplitMapping
    <2>2. ~GpuOnly
      BY <1>1, <1>3 DEF GpuOnly
    <2> QED BY <2>1, <2>2, <1>1 DEF Rides
  <1> QED BY <1>1, <1>2, <1>4 DEF HostReady

\* The first attention of a forward drops all older records, the others none.
LEMMA PredictionAttendStep ==
  ASSUME FusedRides, OneSource, PredictionInv, Attend
  PROVE  PredictionInv'
  <1> USE LayerFacts
  <1>1. pc = "forward" /\ at = "attend" /\ L \in Layers
    BY DEF Attend, Running
  <1>t. OrderTypes /\ OrderInv /\ RecordInv /\ AskedInv
    BY DEF PredictionInv
  <1> DEFINE g == IF L <= last THEN gen + 1 ELSE gen
  <1>a. /\ UNCHANGED <<cfg, pc, fwd, pools, deferred, flags, optLayers>> /\ L' = L
        /\ at' = "predict" /\ last' = L /\ gen' = g
        /\ prog' = {k \in prog : k[1] >= g} /\ fused' = {k \in fused : k[1] >= g}
        /\ asked' = IF L = fwd.start THEN {} ELSE asked
    BY DEF Attend, L
  <1>2. g \in Nat /\ L \in -1 .. NL - 1
    BY <1>1, <1>t DEF OrderTypes
  <1>3. OrderTypes'
    BY <1>a, <1>2, <1>t DEF OrderTypes
  <1>4. OrderInv'
    BY <1>a, <1>1 DEF OrderInv
  <1>b. Begun' /\ (\A l \in Layers : Entered(l)' <=> Entered(l)) /\ HostReady' = HostReady
        /\ (\A l \in Layers : Targets(l)' = Targets(l) /\ Fusable(l)' = Fusable(l))
    BY <1>a, <1>1 DEF Begun, Entered, HostReady, Targets, TargetsFor, Fusable
  <1>5. CASE L = fwd.start
    <2>1. last = NL - 1 \/ (prog = {} /\ fused = {})
      BY <1>5, <1>1, <1>t DEF OrderInv, RecordInv
    <2>2. prog' = {} /\ fused' = {}
      <3>1. CASE prog = {} /\ fused = {}
        BY <3>1, <1>a
      <3>2. CASE last = NL - 1
        <4>1. g = gen + 1
          BY <3>2, <1>1
        <4>2. \A k \in prog : k[1] \in Nat /\ k[1] <= gen
          BY <1>t DEF OrderTypes, RecordInv
        <4>3. \A k \in fused : k[1] \in Nat /\ k[1] <= gen
          <5> SUFFICES ASSUME NEW k \in fused PROVE k[1] \in Nat /\ k[1] <= gen
            OBVIOUS
          <5>1. k[1] \in Nat
            BY <1>t DEF OrderTypes
          <5> QED BY <5>1, <1>t DEF RecordInv
        <4> QED BY <1>a, <4>1, <4>2, <4>3, <1>t DEF OrderTypes
      <3> QED BY <3>1, <3>2, <2>1
    <2>3. RecordInv'
      BY <2>2 DEF RecordInv
    <2>4. \A l \in Layers : ~Entered(l) /\ (L = 0 => ~(l < L))
      BY <1>5, <1>1, <1>t DEF Entered, OrderTypes
    <2>5. Whole' => L = 0
      BY <1>5, <1>a DEF Whole
    <2>6. AskedInv'
      <3>1. deferred' = {}
        BY <1>a, <1>1, <1>t DEF AskedInv
      <3>2. \A t, l, n \in Layers : Whole' => ~IsSent(t, l, n)'
        BY <2>4, <2>5, <1>b, <1>a DEF IsSent
      <3> QED BY <3>1, <3>2, <2>4, <1>5, <1>a, <1>b DEF AskedInv
    <2> QED BY <1>3, <1>4, <2>3, <2>6 DEF PredictionInv
  <1>6. CASE L # fwd.start
    <2>1. gen' = gen /\ Begun /\ asked' = asked
      BY <1>6, <1>1, <1>a, <1>t DEF OrderInv, Begun
    <2>2. prog' \subseteq prog /\ fused' \subseteq fused
      BY <1>a
    <2>3. \A n, t : <<gen, n, t>> \in fused => <<gen, n, t>> \in fused'
      BY <2>1, <1>a, <1>2
    <2>4. RecordInv'
      BY <2>1, <2>2, <1>b, <1>a, <1>t DEF RecordInv
    <2>5. deferred' = {}
      BY <1>a, <1>1, <1>t DEF AskedInv
    <2>6. Whole' => Whole
      BY <2>1, <1>a DEF Whole
    <2>7. \A t, l, n \in Layers : IsSent(t, l, n)' <=> IsSent(t, l, n)
      BY <1>a, <1>b DEF IsSent
    <2>8. AskedInv'
      BY <2>1, <2>3, <2>5, <2>6, <2>7, <1>a, <1>b, <1>t DEF AskedInv
    <2> QED BY <1>3, <1>4, <2>4, <2>8 DEF PredictionInv
  <1> QED BY <1>5, <1>6

\* No progressive record is made twice.
LEMMA NoDuplicate ==
  ASSUME OneSource, PredictionInv, pc = "forward", at = "predict", L \in Layers
  PROVE  ~Duplicate
  <1> USE LayerFacts
  <1>t. OrderTypes /\ RecordInv
    BY DEF PredictionInv
  <1> SUFFICES ASSUME NEW t \in ScheduledNow(L) \cap cfg.progressive, <<gen, t>> \in prog
               PROVE  FALSE
    BY DEF Duplicate
  <1>1. PICK l \in Layers : Entered(l) /\ t \in Targets(l)
    BY <1>t DEF RecordInv, Begun
  <1>2. l # L
    BY <1>1 DEF Entered
  <1>3. t \in Targets(L) /\ cfg \in Configs
    BY <1>t DEF ScheduledNow, OrderTypes
  <1> QED BY <1>1, <1>2, <1>3, ProgressiveHasOneSource

\* A block submits its targets but the fused one, which it leaves for the next.
LEMMA PredictionPredictStep ==
  ASSUME FusedRides, OneSource, PredictionInv, Predict
  PROVE  PredictionInv'
  <1> USE LayerFacts
  <1>t. OrderTypes /\ OrderInv /\ RecordInv /\ AskedInv
    BY DEF PredictionInv
  <1>1. pc = "forward" /\ at = "predict" /\ L \in Layers /\ fwd.kind # "prefill"
    BY DEF Predict, Running, Prefilling
  <1>2. ~Duplicate
    BY <1>1, NoDuplicate
  <1>a. /\ UNCHANGED <<cfg, pc, fwd, gen, last, pools, flags, optLayers>> /\ L' = L /\ at' = "serve"
    BY <1>2 DEF Predict, L
  <1> DEFINE now == ScheduledNow(L) \cap pools
  <1>c. IF HostReady
        THEN deferred' = Targets(L) /\ UNCHANGED <<prog, fused, asked>>
        ELSE /\ asked' = asked \cup {<<t, L, L>> : t \in now}
             /\ prog' = prog \cup Recorded(now)
             /\ fused' = fused \cup {<<gen, L + 1, t>> : t \in Fusable(L)}
             /\ deferred' = {}
    BY <1>2 DEF Predict
  <1>b. /\ Begun /\ Begun' /\ HostReady' = HostReady
        /\ \A l \in Layers : Targets(l)' = Targets(l) /\ Fusable(l)' = Fusable(l)
        /\ \A l \in Layers : Entered(l)' <=> Entered(l) \/ l = L
    <2>1. \A l \in Layers : Entered(l)' <=> Entered(l) \/ l = L
      BY <1>a, <1>1, <1>t DEF Entered, OrderTypes
    <2> QED BY <2>1, <1>a, <1>1 DEF Begun, HostReady, Targets, TargetsFor, Fusable
  <1>d. now \subseteq Layers /\ now \subseteq Targets(L) /\ Fusable(L) \subseteq Layers
        /\ Fusable(L) \subseteq Targets(L)
    BY <1>1, TargetsAreLater DEF ScheduledNow, Fusable
  <1>e. gen \in Nat /\ L \in Nat /\ L + 1 \in Nat
    BY <1>1, <1>t DEF OrderTypes
  <1>3. OrderTypes'
    <2>1. {<<t, L, L>> : t \in now} \subseteq Layers \X Layers \X Layers
      BY <1>d, <1>1
    <2>2. Recorded(now) \subseteq Nat \X Layers
      BY <1>d, <1>e DEF Recorded
    <2>3. {<<gen, L + 1, t>> : t \in Fusable(L)} \subseteq Nat \X Nat \X Layers
      BY <1>d, <1>e
    <2>4. /\ asked' \subseteq Layers \X Layers \X Layers /\ prog' \subseteq Nat \X Layers
          /\ fused' \subseteq Nat \X Nat \X Layers
      <3> HIDE DEF now
      <3> QED BY <2>1, <2>2, <2>3, <1>c, <1>t DEF OrderTypes
    <2> QED BY <2>4, <1>a, <1>t DEF OrderTypes
  <1>4. OrderInv'
    BY <1>a, <1>1, <1>t DEF OrderInv
  <1>5. RecordInv'
    <2>1. ASSUME NEW k \in prog'
          PROVE  k[1] <= gen /\ (k[1] = gen => \E l \in Layers : Entered(l)' /\ k[2] \in Targets(l))
      <3>1. CASE k \in prog
        BY <3>1, <1>b, <1>t DEF RecordInv
      <3>2. CASE k \notin prog
        <4>1. k[1] = gen /\ k[2] \in Targets(L)
          BY <3>2, <2>1, <1>c, <1>d DEF Recorded
        <4> QED BY <4>1, <1>b, <1>1, <1>e
      <3> QED BY <3>1, <3>2
    <2>2. ASSUME NEW k \in fused'
          PROVE  k[1] <= gen /\ (k[1] = gen =>
                     \E l \in Layers : Entered(l)' /\ k[2] = l + 1 /\ k[3] \in Fusable(l))
      <3>1. CASE k \in fused
        BY <3>1, <1>b, <1>t DEF RecordInv
      <3>2. CASE k \notin fused
        <4>1. k[1] = gen /\ k[2] = L + 1 /\ k[3] \in Fusable(L)
          BY <3>2, <2>2, <1>c
        <4> QED BY <4>1, <1>b, <1>1, <1>e
      <3> QED BY <3>1, <3>2
    <2> QED BY <2>1, <2>2, <1>a, <1>b, <1>1 DEF RecordInv
  <1>6. deferred' = IF pc' = "forward" /\ at' = "serve" /\ HostReady' THEN Targets(L)' ELSE {}
    BY <1>a, <1>b, <1>c, <1>1
  <1>7. ASSUME Whole', NEW t \in Layers, NEW l \in Layers, NEW n \in Layers
        PROVE  <<t, l, n>> \in asked' <=> IsSent(t, l, n)'
    <2>1. Whole /\ pools = Layers
      BY <1>7, <1>a, <1>b, <1>t DEF Whole, OrderTypes
    <2>2. <<t, l, n>> \in asked <=> IsSent(t, l, n)
      BY <2>1, <1>t DEF AskedInv
    <2>3. CASE HostReady
      BY <2>2, <2>3, <1>a, <1>b, <1>c DEF IsSent
    <2>4. CASE ~HostReady
      <3>1. <<t, l, n>> \in asked' <=>
              <<t, l, n>> \in asked \/ (l = L /\ n = L /\ t \in Targets(L) /\ t \notin Fusable(L))
        BY <2>4, <2>1, <1>c DEF ScheduledNow
      <3>2. IsSent(t, l, n)' <=>
              IsSent(t, l, n) \/ (l = L /\ n = L /\ t \in Targets(L) /\ t \notin Fusable(L))
        BY <2>4, <1>a, <1>b DEF IsSent
      <3> QED BY <3>1, <3>2, <2>2
    <2> QED BY <2>3, <2>4
  <1>8. ASSUME Whole', NEW l \in Layers, NEW t \in Layers, Entered(l)', L' <= l + 1, t \in Fusable(l)'
        PROVE  <<gen', l + 1, t>> \in fused'
    <2>1. Whole
      BY <1>8, <1>a, <1>b DEF Whole
    <2>2. t \in Fusable(l) /\ ~HostReady
      BY <1>8, <1>b, <1>t, FusableFacts
    <2>3. CASE l = L
      BY <2>2, <2>3, <1>c, <1>a
    <2>4. CASE l # L
      <3>1. Entered(l)
        BY <2>4, <1>8, <1>b
      <3>2. <<gen, l + 1, t>> \in fused
        BY <3>1, <2>1, <2>2, <1>8, <1>a, <1>t DEF AskedInv
      <3> QED BY <3>2, <2>2, <1>c, <1>a
    <2> QED BY <2>3, <2>4
  <1>9. AskedInv'
    BY <1>6, <1>7, <1>8 DEF AskedInv
  <1> QED BY <1>3, <1>4, <1>5, <1>9 DEF PredictionInv

\* A prefill predicts nothing.
LEMMA PredictionPrefillStep ==
  ASSUME FusedRides, OneSource, PredictionInv, PrefillLayer
  PROVE  PredictionInv'
  <1> USE LayerFacts
  <1>t. OrderTypes /\ OrderInv /\ RecordInv /\ AskedInv
    BY DEF PredictionInv
  <1>1. pc = "forward" /\ at = "predict" /\ L \in Layers /\ fwd.kind = "prefill"
    BY DEF PrefillLayer, Running, Prefilling
  <1>a. /\ UNCHANGED <<cfg, pc, gen, last, pools, prog, fused, deferred, asked, flags, optLayers>>
        /\ at' = "attend" /\ fwd' = [fwd EXCEPT !.layer = @ + 1]
    BY DEF PrefillLayer
  <1>2. L' = L + 1 /\ L + 1 \in 0 .. NL /\ L \in Nat
    BY <1>1, <1>a, <1>t DEF OrderTypes, L
  <1>b. /\ fwd'.kind = fwd.kind /\ fwd'.start = fwd.start /\ fwd'.async = fwd.async
        /\ fwd'.warm = fwd.warm /\ fwd' \in [kind : Kinds, start : Layers, layer : 0 .. NL,
                async : BOOLEAN, noio : SUBSET Layers, warm : BOOLEAN]
    BY <1>a, <1>2, <1>t DEF OrderTypes, L
  <1>c. fwd.start \in Nat /\ fwd.start <= L
    BY <1>t DEF OrderTypes
  <1>3. OrderTypes'
    <2>1. fwd'.start <= L'
      BY <1>b, <1>c, <1>2
    <2> QED BY <2>1, <1>a, <1>b, <1>t DEF OrderTypes
  <1>4. OrderInv'
    BY <1>a, <1>b, <1>c, <1>1, <1>2, <1>t DEF OrderInv
  <1>5. RecordInv'
    BY <1>a, <1>b, <1>1, <1>t DEF RecordInv
  <1>6. AskedInv'
    BY <1>a, <1>b, <1>1, <1>t DEF AskedInv, Whole
  <1> QED BY <1>3, <1>4, <1>5, <1>6 DEF PredictionInv

\* A demand carries what was deferred or left for it.
LEMMA PredictionServeStep ==
  ASSUME FusedRides, OneSource, PredictionInv, Serve
  PROVE  PredictionInv'
  <1> USE LayerFacts
  <1>t. OrderTypes /\ OrderInv /\ RecordInv /\ AskedInv
    BY DEF PredictionInv
  <1>1. pc = "forward" /\ at = "serve" /\ L \in Layers /\ fwd.kind # "prefill"
    BY DEF Serve, Running, Prefilling
  <1>a. /\ UNCHANGED <<cfg, pc, gen, last, optLayers>>
        /\ at' = "attend" /\ fwd' = [fwd EXCEPT !.layer = @ + 1]
        /\ pools' = pools \cup {L} /\ deferred' = {} /\ prog' \subseteq prog
        /\ fused' = {k \in fused : ~(k[1] = gen /\ k[2] = L)}
        /\ asked' = asked \cup Submitted(deferred)
                          \cup (IF Rides THEN {<<t, L - 1, L>> : t \in FusedHere} ELSE {})
        /\ \E hit \in SUBSET Positions : flags' = IF Flagged(hit) THEN flags \cup {L} ELSE flags
    BY DEF Serve
  <1>2. L' = L + 1 /\ L + 1 \in 0 .. NL /\ L \in Nat
    BY <1>1, <1>a, <1>t DEF OrderTypes, L
  <1>b. /\ fwd'.kind = fwd.kind /\ fwd'.start = fwd.start /\ fwd'.async = fwd.async
        /\ fwd'.warm = fwd.warm /\ fwd' \in [kind : Kinds, start : Layers, layer : 0 .. NL,
                async : BOOLEAN, noio : SUBSET Layers, warm : BOOLEAN]
    BY <1>a, <1>2, <1>t DEF OrderTypes, L
  <1>c. fwd.start \in Nat /\ fwd.start <= L /\ gen \in Nat
    BY <1>t DEF OrderTypes
  <1>d. \A l \in Layers : Entered(l)' <=> Entered(l)
    BY <1>a, <1>b, <1>c, <1>1, <1>2 DEF Entered
  <1>e. Begun /\ Begun' /\ HostReady' = HostReady /\ (Whole' => Whole)
    BY <1>a, <1>b, <1>c, <1>1, <1>2 DEF Begun, HostReady, Whole
  <1>f. \A l : Targets(l)' = Targets(l)
    BY <1>a DEF Targets, TargetsFor
  <1>g. \A l : Fusable(l) \subseteq Fusable(l)' /\ (pools = Layers => Fusable(l)' = Fusable(l))
    BY <1>a, <1>b, <1>f, <1>1 DEF Fusable
  <1>h. \A t : t \in FusedHere => /\ <<gen, L, t>> \in fused /\ t \in Layers
                                  /\ L - 1 \in Layers /\ t \in Fusable(L - 1)
    <2> SUFFICES ASSUME NEW t \in FusedHere
                 PROVE  /\ <<gen, L, t>> \in fused /\ t \in Layers
                        /\ L - 1 \in Layers /\ t \in Fusable(L - 1)
      OBVIOUS
    <2>1. PICK k \in fused : k[1] = gen /\ k[2] = L /\ k[3] = t
      BY DEF FusedHere
    <2>2. k = <<gen, L, t>> /\ t \in Layers
      BY <2>1, <1>t DEF OrderTypes
    <2>3. PICK l \in Layers : L = l + 1 /\ t \in Fusable(l)
      BY <2>1, <2>2, <1>e, <1>c, <1>t DEF RecordInv
    <2>4. L - 1 = l
      BY <2>3
    <2> QED BY <2>1, <2>2, <2>3, <2>4
  <1>i. \A t : <<gen, L, t>> \in fused => t \in FusedHere
    BY DEF FusedHere
  <1>j. deferred \subseteq Layers /\ (HostReady => deferred = Targets(L)) /\ (~HostReady => deferred = {})
    BY <1>1, <1>t, TargetsAreLater DEF AskedInv
  <1>3. OrderTypes'
    <2>1. fwd'.start <= L'
      BY <1>b, <1>c, <1>2
    <2>2. flags' \subseteq Layers
      BY <1>a, <1>1, <1>t DEF OrderTypes
    <2>3. Submitted(deferred) \subseteq Layers \X Layers \X Layers
      BY <1>j, <1>1 DEF Submitted
    <2>4. {<<t, L - 1, L>> : t \in FusedHere} \subseteq Layers \X Layers \X Layers
      <3> SUFFICES ASSUME NEW t \in FusedHere
                   PROVE  <<t, L - 1, L>> \in Layers \X Layers \X Layers
        OBVIOUS
      <3>1. t \in Layers /\ L - 1 \in Layers
        BY <1>h, Zenon
      <3> QED BY <3>1, <1>1
    <2>5. asked' \subseteq Layers \X Layers \X Layers
      BY <2>3, <2>4, <1>a, <1>t DEF OrderTypes
    <2>6. pools' \subseteq Layers /\ (fwd'.warm => pools' = Layers)
      BY <1>a, <1>b, <1>1, <1>t DEF OrderTypes
    <2>7. prog' \subseteq Nat \X Layers /\ fused' \subseteq Nat \X Nat \X Layers
      BY <1>a, <1>t DEF OrderTypes
    <2> QED BY <2>1, <2>2, <2>5, <2>6, <2>7, <1>a, <1>b, <1>t DEF OrderTypes
  <1>4. OrderInv'
    BY <1>a, <1>b, <1>c, <1>1, <1>2, <1>t DEF OrderInv
  <1>5. RecordInv'
    <2>1. ASSUME NEW k \in prog'
          PROVE  k[1] <= gen /\ (k[1] = gen => \E l \in Layers : Entered(l)' /\ k[2] \in Targets(l)')
      BY <2>1, <1>a, <1>d, <1>e, <1>f, <1>t DEF RecordInv
    <2>2. ASSUME NEW k \in fused'
          PROVE  k[1] <= gen /\ (k[1] = gen =>
                     \E l \in Layers : Entered(l)' /\ k[2] = l + 1 /\ k[3] \in Fusable(l)')
      <3>1. k \in fused
        BY <2>2, <1>a
      <3>2. k[1] <= gen /\ (k[1] = gen =>
                \E l \in Layers : Entered(l) /\ k[2] = l + 1 /\ k[3] \in Fusable(l))
        BY <3>1, <1>e, <1>t DEF RecordInv
      <3> QED BY <3>2, <1>d, <1>g
    <2> QED BY <2>1, <2>2, <1>a, <1>b, <1>1 DEF RecordInv
  <1>7. ASSUME Whole', NEW t \in Layers, NEW l \in Layers, NEW n \in Layers
        PROVE  <<t, l, n>> \in asked' <=> IsSent(t, l, n)'
    <2>1. Whole /\ pools = Layers
      BY <1>7, <1>e, <1>t DEF Whole, OrderTypes
    <2>2. <<t, l, n>> \in asked <=> IsSent(t, l, n)
      BY <2>1, <1>t DEF AskedInv
    <2>a. t \in Fusable(l)' <=> t \in Fusable(l)
      BY <2>1, <1>g
    <2>3. CASE HostReady
      <3>1. FusedHere = {}
        BY <2>3, <1>h, <1>t, FusableFacts
      <3>2. <<t, l, n>> \in asked' <=> <<t, l, n>> \in asked \/ (l = L /\ n = L /\ t \in Targets(L))
        <4>1. <<t, l, n>> \in Submitted(deferred) <=> (l = L /\ n = L /\ t \in Targets(L))
          BY <2>1, <2>3, <1>j DEF Submitted
        <4> QED BY <3>1, <4>1, <1>a
      <3>3. IsSent(t, l, n)' <=> n = l /\ l < L + 1 /\ t \in Targets(l)
        BY <2>3, <1>e, <1>f, <1>2 DEF IsSent
      <3>4. IsSent(t, l, n) <=> n = l /\ l < L /\ t \in Targets(l)
        BY <2>3 DEF IsSent
      <3>5. l < L + 1 <=> l < L \/ l = L
        BY <1>2
      <3> QED BY <2>2, <3>2, <3>3, <3>4, <3>5
    <2>4. CASE ~HostReady
      <3>1. <<t, l, n>> \in asked' <=>
              <<t, l, n>> \in asked \/ (n = L /\ n = l + 1 /\ t \in Fusable(l))
        <4>1. Submitted(deferred) = {}
          BY <2>4, <1>j DEF Submitted
        <4>2. ASSUME n = L, n = l + 1, t \in Fusable(l)
              PROVE  Rides /\ t \in FusedHere /\ l = L - 1
          <5>1. Rides
            BY <4>2, <1>1, <1>t, FusableFacts
          <5>2. Entered(l) /\ L <= l + 1
            BY <4>2, <1>1, <2>1, <1>2 DEF Entered, Whole
          <5>3. <<gen, l + 1, t>> \in fused
            BY <5>2, <4>2, <2>1, <1>t DEF AskedInv
          <5>4. l = L - 1
            BY <4>2, <1>2
          <5> QED BY <5>1, <5>3, <5>4, <4>2, <1>i
        <4>3. ASSUME Rides, t \in FusedHere, l = L - 1, n = L
              PROVE  n = L /\ n = l + 1 /\ t \in Fusable(l)
          <5>1. t \in Fusable(l)
            BY <4>3, <1>h, Zenon
          <5>2. l + 1 = L
            BY <4>3, <1>2
          <5> QED BY <5>1, <5>2, <4>3
        <4>4. <<t, l, n>> \in asked' <=>
                <<t, l, n>> \in asked \/ (Rides /\ t \in FusedHere /\ l = L - 1 /\ n = L)
          BY <4>1, <1>a
        <4> QED BY <4>2, <4>3, <4>4
      <3>2. IsSent(t, l, n)' <=> \/ Entered(l) /\ n = l /\ t \in Targets(l) /\ t \notin Fusable(l)
                                 \/ n = l + 1 /\ n < L + 1 /\ t \in Fusable(l)
        BY <2>4, <2>a, <1>d, <1>e, <1>f, <1>2 DEF IsSent
      <3>3. IsSent(t, l, n) <=> \/ Entered(l) /\ n = l /\ t \in Targets(l) /\ t \notin Fusable(l)
                                \/ n = l + 1 /\ n < L /\ t \in Fusable(l)
        BY <2>4 DEF IsSent
      <3>4. n < L + 1 <=> n < L \/ n = L
        BY <1>2
      <3> QED BY <2>2, <3>1, <3>2, <3>3, <3>4
    <2> QED BY <2>3, <2>4
  <1>8. ASSUME Whole', NEW l \in Layers, NEW t \in Layers, Entered(l)', L' <= l + 1, t \in Fusable(l)'
        PROVE  <<gen', l + 1, t>> \in fused'
    <2>1. Whole /\ pools = Layers
      BY <1>8, <1>e, <1>t DEF Whole, OrderTypes
    <2>2. t \in Fusable(l) /\ Entered(l) /\ l \in Nat /\ L <= l + 1 /\ l + 1 # L
      BY <2>1, <1>8, <1>d, <1>g, <1>2
    <2>3. <<gen, l + 1, t>> \in fused
      BY <2>1, <2>2, <1>t DEF AskedInv
    <2> QED BY <2>2, <2>3, <1>a
  <1>9. AskedInv'
    BY <1>7, <1>8, <1>a DEF AskedInv
  <1> QED BY <1>3, <1>4, <1>5, <1>9 DEF PredictionInv

\* Between forwards nothing is submitted.
LEMMA PredictionBetween ==
  ASSUME PredictionInv, UNCHANGED <<cfg, gen, last, pools, prog, fused, deferred, asked>>,
         \/ pc = "forward" /\ L = NL
         \/ pc # "forward",
         \/ pc' \in {"kept", "step"} /\ fwd' = fwd /\ at' = at
         \/ /\ pc' = "forward" /\ at' = "attend"
            /\ fwd' \in [kind : Kinds \ {"prefill"}, start : Layers, layer : 0 .. NL, async : BOOLEAN,
                         noio : SUBSET Layers, warm : BOOLEAN]
            /\ fwd'.layer = fwd'.start /\ (fwd'.async => cfg.async) /\ (fwd'.warm => pools = Layers),
         flags' \subseteq Layers, optLayers' \subseteq Layers
  PROVE  PredictionInv'
  <1> USE LayerFacts
  <1>t. OrderTypes /\ OrderInv /\ RecordInv /\ AskedInv
    BY DEF PredictionInv
  <1>1. last = NL - 1 /\ deferred = {}
    <2>1. CASE pc = "forward" /\ L = NL
      <3>1. at = "attend" /\ L # fwd.start
        BY <2>1, <1>t DEF OrderTypes, OrderInv
      <3> QED BY <2>1, <3>1, <1>t DEF OrderInv, AskedInv
    <2>2. CASE pc # "forward"
      BY <2>2, <1>t DEF OrderInv, AskedInv
    <2> QED BY <2>1, <2>2
  <1>2. CASE pc' \in {"kept", "step"} /\ fwd' = fwd /\ at' = at
    <2>1. OrderTypes' /\ OrderInv' /\ RecordInv' /\ AskedInv'
      <3>1. L' = L
        BY <1>2 DEF L
      <3>2. OrderTypes'
        <4>1. /\ cfg' \in Configs /\ pc' \in {"forward", "kept", "step"}
              /\ at' \in {"attend", "predict", "serve"}
              /\ fwd' \in [kind : Kinds, start : Layers, layer : 0 .. NL, async : BOOLEAN,
                           noio : SUBSET Layers, warm : BOOLEAN]
          BY <1>2, <1>t DEF OrderTypes
        <4>2. fwd'.start <= L' /\ (fwd'.async => cfg'.async) /\ (fwd'.warm => pools' = Layers)
          BY <1>2, <3>1, <1>t DEF OrderTypes
        <4>3. /\ gen' \in Nat /\ last' \in -1 .. NL - 1 /\ pools' \subseteq Layers
              /\ prog' \subseteq Nat \X Layers /\ fused' \subseteq Nat \X Nat \X Layers
              /\ asked' \subseteq Layers \X Layers \X Layers
          BY <1>t DEF OrderTypes
        <4> QED BY <4>1, <4>2, <4>3 DEF OrderTypes
      <3>3. OrderInv' /\ AskedInv' /\ ~Begun'
        BY <1>1, <1>2 DEF OrderInv, AskedInv, Whole, Begun
      <3>4. RecordInv'
        BY <1>2, <3>3, <1>t DEF RecordInv
      <3> QED BY <3>2, <3>3, <3>4
    <2> QED BY <2>1 DEF PredictionInv
  <1>3. CASE /\ pc' = "forward" /\ at' = "attend"
             /\ fwd' \in [kind : Kinds \ {"prefill"}, start : Layers, layer : 0 .. NL, async : BOOLEAN,
                          noio : SUBSET Layers, warm : BOOLEAN]
             /\ fwd'.layer = fwd'.start /\ (fwd'.async => cfg.async) /\ (fwd'.warm => pools = Layers)
    <2>1. L' = fwd'.start /\ fwd'.start \in Nat /\ fwd'.kind # "prefill"
          /\ fwd' \in [kind : Kinds, start : Layers, layer : 0 .. NL, async : BOOLEAN,
                       noio : SUBSET Layers, warm : BOOLEAN]
      BY <1>3 DEF L
    <2>2. OrderTypes'
      BY <1>3, <2>1, <1>t DEF OrderTypes
    <2>3. ~Begun'
      BY <1>3, <2>1 DEF Begun
    <2>4. OrderInv' /\ AskedInv'
      BY <1>1, <1>3, <2>1, <2>3 DEF OrderInv, AskedInv, Whole
    <2>5. RecordInv'
      BY <2>1, <2>3, <1>t DEF RecordInv
    <2> QED BY <2>2, <2>4, <2>5 DEF PredictionInv
  <1> QED BY <1>2, <1>3

\* The actions of mtp_generate.
Between ==
    \/ EndPrefill \/ Verify \/ StepAgain \/ Accept \/ OptimisticCheck \/ SparseCheck \/ Replayed
    \/ Rescue \/ Fallback \/ Commit

\* A forward starts at its first layer.
LEMMA RunTypes ==
  ASSUME PredictionInv, NEW kind \in Kinds \ {"prefill"}, NEW start \in Layers, NEW async \in BOOLEAN,
         NEW noio \in SUBSET Layers, fwd' = Forward(kind, start, async, noio), async => cfg.async
  PROVE  /\ fwd' \in [kind : Kinds \ {"prefill"}, start : Layers, layer : 0 .. NL, async : BOOLEAN,
                      noio : SUBSET Layers, warm : BOOLEAN]
         /\ fwd'.layer = fwd'.start /\ (fwd'.async => cfg.async) /\ (fwd'.warm => pools = Layers)
  <1>1. start \in 0 .. NL
    BY LayerFacts
  <1> QED BY <1>1 DEF Forward

\* The actions of mtp_generate submit nothing.
LEMMA PredictionGenerateStep ==
  ASSUME PredictionInv, Between
  PROVE  PredictionInv'
  <1> USE LayerFacts
  <1>t. OrderTypes
    BY DEF PredictionInv
  <1>1. UNCHANGED <<cfg, gen, last, pools, prog, fused, deferred, asked>>
    BY DEF Between, EndPrefill, Verify, StepAgain, Accept, OptimisticCheck, SparseCheck, Replayed,
           Rescue, Fallback, Commit, vpool
  <1>2. (pc = "forward" /\ L = NL) \/ pc # "forward"
    BY DEF Between, EndPrefill, Verify, StepAgain, Accept, OptimisticCheck, SparseCheck, Replayed,
           Rescue, Fallback, Commit, Ended
  <1>3. flags' \subseteq Layers /\ optLayers' \subseteq Layers
    BY <1>t DEF Between, EndPrefill, Verify, StepAgain, Accept, OptimisticCheck, SparseCheck, Replayed,
                Rescue, Fallback, Commit, vpool, OrderTypes
  <1>4. CASE \/ EndPrefill \/ Accept \/ Replayed \/ Commit
             \/ (OptimisticCheck \/ SparseCheck) /\ flags = {}
    <2>1. pc' \in {"kept", "step"} /\ fwd' = fwd /\ at' = at
      BY <1>4 DEF EndPrefill, Accept, Replayed, Commit, OptimisticCheck, SparseCheck, Keep
    <2> QED BY <2>1, <1>1, <1>2, <1>3, PredictionBetween
  <1>a. cfg.async \in BOOLEAN
    BY <1>t, ConfigTypes DEF OrderTypes, ConfigRecord
  <1>5. CASE Verify \/ StepAgain \/ Rescue \/ Fallback \/ (OptimisticCheck /\ flags # {})
    <2>1. PICK noio \in SUBSET Layers : noio = IF Verify /\ OptimisticMode THEN optLayers ELSE {}
      BY <1>t DEF OrderTypes
    <2>2. pc' = "forward" /\ at' = "attend"
          /\ \E kind \in Kinds \ {"prefill"} : fwd' = Forward(kind, 0, cfg.async, noio)
      <3>1. CASE Verify
        BY <3>1, <2>1 DEF Verify, Run, Kinds
      <3>2. CASE StepAgain
        BY <3>2, <2>1 DEF Verify, StepAgain, Ended, Run, Kinds
      <3>3. CASE Rescue
        BY <3>3, <2>1 DEF Verify, Rescue, Run, Kinds
      <3>4. CASE Fallback
        BY <3>4, <2>1 DEF Verify, Fallback, Run, Kinds
      <3>5. CASE OptimisticCheck /\ flags # {}
        BY <3>5, <2>1 DEF Verify, OptimisticCheck, Ended, Run, Kinds
      <3> QED BY <3>1, <3>2, <3>3, <3>4, <3>5, <1>5
    <2>3. PICK kind \in Kinds \ {"prefill"} : fwd' = Forward(kind, 0, cfg.async, noio)
      BY <2>2
    <2>4. /\ fwd' \in [kind : Kinds \ {"prefill"}, start : Layers, layer : 0 .. NL, async : BOOLEAN,
                       noio : SUBSET Layers, warm : BOOLEAN]
          /\ fwd'.layer = fwd'.start /\ (fwd'.async => cfg.async) /\ (fwd'.warm => pools = Layers)
      BY <2>3, <1>a, RunTypes
    <2> QED BY <2>2, <2>4, <1>1, <1>2, <1>3, PredictionBetween
  <1>6. CASE SparseCheck /\ flags # {}
    <2>1. ReplayStart \in Layers
      BY <1>6, <1>t, LeastLayer DEF ReplayStart, OrderTypes
    <2>2. PICK start \in Layers : start = ReplayStart
      BY <2>1
    <2>a. PICK async \in BOOLEAN, noio \in SUBSET Layers : async = FALSE /\ noio = {}
      OBVIOUS
    <2>3. pc' = "forward" /\ at' = "attend" /\ fwd' = Forward("replay", start, async, noio)
      BY <1>6, <2>2, <2>a DEF SparseCheck, Run, ReplayAsync
    <2>4. "replay" \in Kinds \ {"prefill"}
      BY DEF Kinds
    <2>5. /\ fwd' \in [kind : Kinds \ {"prefill"}, start : Layers, layer : 0 .. NL, async : BOOLEAN,
                       noio : SUBSET Layers, warm : BOOLEAN]
          /\ fwd'.layer = fwd'.start /\ (fwd'.async => cfg.async) /\ (fwd'.warm => pools = Layers)
      BY <2>3, <2>4, <2>a, RunTypes
    <2> QED BY <2>3, <2>5, <1>1, <1>2, <1>3, PredictionBetween
  <1> QED BY <1>4, <1>5, <1>6 DEF Between

\* The invariant of predictions holds when the prefill begins.
LEMMA PredictionInit == Init => PredictionInv
  <1> SUFFICES ASSUME Init PROVE PredictionInv
    OBVIOUS
  <1> USE LayerFacts
  <1>1. L = 0 /\ fwd.start = 0 /\ fwd.kind = "prefill" /\ fwd.async = cfg.async /\ fwd.warm = FALSE
    <2>1. pools # Layers
      BY DEF Init
    <2> QED BY <2>1 DEF Init, Forward, L
  <1>2. cfg \in Configs /\ cfg \in ConfigRecord
    BY ConfigTypes DEF Init
  <1>3. InitialOptimistic \subseteq Layers /\ cfg.async \in BOOLEAN
    BY <1>2 DEF InitialOptimistic, ConfigRecord
  <1>4. OrderTypes
    BY <1>1, <1>2, <1>3 DEF OrderTypes, Init, Forward, Kinds
  <1>5. OrderInv /\ RecordInv /\ AskedInv
    BY <1>1 DEF Init, OrderInv, RecordInv, AskedInv, Whole
  <1> QED BY <1>4, <1>5 DEF PredictionInv

\* Every wanted prediction is submitted once, by its block, with the ids known to the host
\* or on the next demand, and no progressive record raises: PredictedOnce.
THEOREM PredictionsAreSubmittedOnce ==
  ASSUME FusedRides, OneSource
  PROVE  Spec => []PredictedOnce
  <1>1. Init => PredictionInv
    BY PredictionInit
  <1>2. PredictionInv /\ [Next]_vars => PredictionInv'
    <2> SUFFICES ASSUME PredictionInv, [Next]_vars PROVE PredictionInv'
      OBVIOUS
    <2>1. CASE UNCHANGED vars
      BY <2>1 DEF vars, python, caches, vpool, PredictionInv, OrderTypes, OrderInv, RecordInv, AskedInv, Whole,
                  Begun, Entered, IsSent, HostReady, Targets, TargetsFor, Fusable, L
    <2>2. CASE Next
      BY <2>2, PredictionAttendStep, PredictionPredictStep, PredictionServeStep, PredictionPrefillStep, PredictionGenerateStep DEF Next, Between
    <2> QED BY <2>1, <2>2
  <1>3. PredictionInv => PredictedOnce
    <2> SUFFICES ASSUME PredictionInv, Ended({"verify", "replay", "rescue", "fallback"}),
                        fwd.start = 0, fwd.warm, NEW w \in Wanted
                 PROVE  Cardinality({a \in asked : <<a[1], a[2]>> = w}) = 1
      BY DEF PredictedOnce, PredictionInv, OrderTypes
    <2>t. OrderTypes /\ AskedInv
      BY DEF PredictionInv
    <2>1. PICK t \in Layers, l \in Layers : w = <<t, l>> /\ t \in Targets(l)
      BY DEF Wanted
    <2>2. Whole /\ L = NL
      BY LayerFacts DEF Ended, Whole, Begun
    <2>3. \A n \in Layers : <<t, l, n>> \in asked <=> IsSent(t, l, n)
      BY <2>2, <2>t DEF AskedInv
    <2>4. \E m \in Layers : \A n \in Layers : IsSent(t, l, n) <=> n = m
      <3>1. l \in Nat /\ l < L /\ Entered(l)
        BY <2>2, LayerFacts DEF Entered, Whole
      <3>2. CASE HostReady
        BY <3>1, <3>2, <2>1 DEF IsSent
      <3>3. CASE ~HostReady /\ t \notin Fusable(l)
        BY <3>1, <3>3, <2>1 DEF IsSent
      <3>4. CASE ~HostReady /\ t \in Fusable(l)
        <4>1. l + 1 < NL /\ l + 1 \in Layers
          BY <3>4, <3>1, <2>t, FusableFacts, LayerFacts
        <4> QED BY <3>1, <3>4, <4>1, <2>2 DEF IsSent
      <3> QED BY <3>2, <3>3, <3>4
    <2>5. PICK m \in Layers : \A n \in Layers : IsSent(t, l, n) <=> n = m
      BY <2>4
    <2>6. {a \in asked : <<a[1], a[2]>> = w} = {<<t, l, m>>}
      <3>1. ASSUME NEW a \in asked, <<a[1], a[2]>> = w PROVE a = <<t, l, m>>
        <4>1. a = <<t, l, a[3]>> /\ a[3] \in Layers
          BY <3>1, <2>1, <2>t DEF OrderTypes
        <4> QED BY <4>1, <2>3, <2>5
      <3>2. <<t, l, m>> \in asked
        BY <2>3, <2>5
      <3> QED BY <3>1, <3>2, <2>1
    <2> QED BY <2>6, FS_Singleton
  <1> QED BY <1>1, <1>2, <1>3, PTL DEF Spec

=============================================================================
