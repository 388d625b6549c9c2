----------------------------- MODULE LoopProofs -----------------------------
(***************************************************************************)
(* Machine-checked theorems about RuntimeBundle and ResidentPool, the two  *)
(* modules whose actions run loops over lists, for all values of their     *)
(* constants.  A loop is a fold, a fold is a recursion over the subsets of *)
(* the list's positions, and what it computes is found by taking a least   *)
(* counterexample in a set of numbers; the first part does this once.      *)
(***************************************************************************)
EXTENDS RuntimeBundle, ResidentPool, FiniteSetTheorems, SequenceTheorems,
        WellFoundedInduction, TLAPS

-----------------------------------------------------------------------------
(* Loops over lists.                                                       *)

\* Every set of numbers that is not empty has a least one.
LEMMA LeastElement ==
  ASSUME NEW T \in SUBSET Nat, T # {}
  PROVE  \E a \in T : \A y \in T : a <= y
  <1> DEFINE Below == OpToRel(<, Nat)
  <1>0. T \subseteq Nat
    OBVIOUS
  <1>1. IsWellFoundedOn(Below, Nat)
    BY NatLessThanWellFounded, Zenon
  <1>2. \A y, z \in Nat : y < z => <<y, z>> \in Below
    BY SMT DEF OpToRel
  <1> HIDE DEF Below
  <1>3. \E z \in T : \A y \in T : ~ (<<y, z>> \in Below)
    BY <1>1, <1>0, WFMin, Zenon
  <1>4. PICK z \in T : \A y \in T : ~ (<<y, z>> \in Below)
    BY <1>3
  <1>5. ASSUME NEW y \in T PROVE z <= y
    <2>1. y \in Nat /\ z \in Nat
      BY <1>0
    <2>2. ~ (y < z)
      BY <2>1, <1>2, <1>4, Zenon
    <2> QED BY <2>1, <2>2
  <1> QED BY <1>5

\* A set of numbers that holds 0 and with each number the next holds all up to n.
LEMMA Induction ==
  ASSUME NEW n \in Nat, NEW T, 0 \in T, \A i \in 0 .. n - 1 : i \in T => i + 1 \in T
  PROVE  \A i \in 0 .. n : i \in T
  <1> SUFFICES ASSUME NEW k \in 0 .. n, k \notin T PROVE FALSE
    OBVIOUS
  <1> DEFINE Out == {i \in 0 .. n : i \notin T}
  <1>1. Out \in SUBSET Nat /\ Out # {}
    OBVIOUS
  <1>2. PICK a \in Out : \A y \in Out : a <= y
    BY <1>1, LeastElement, Zenon
  <1>3. a # 0 /\ a \in 1 .. n
    BY <1>2
  <1>4. a - 1 \in 0 .. n - 1 /\ a - 1 \in T
    <2>1. a - 1 \in 0 .. n - 1
      BY <1>3
    <2>2. a - 1 \notin Out
      BY <2>1, <1>2, <1>3
    <2> QED BY <2>1, <2>2
  <1>5. a \in T
    BY <1>3, <1>4
  <1> QED BY <1>5, <1>2

Typed(A, B, F, a, s) == F \in [A \X B -> A] /\ a \in A /\ s \in Seq(B)

\* What FoldLeft recurses over.
Iterates(F, a, s, m, h) ==
    h = [d \in SUBSET (1 .. m) |-> IF d = {} THEN a ELSE F[<<h[d \ {Max(d)}], s[Max(d)]>>]]

\* The greatest position of a prefix is its last ...
LEMMA MaxOf ==
  ASSUME NEW m \in Nat \ {0}, NEW d \in SUBSET (1 .. m), m \in d
  PROVE  Max(d) = m
  <1>1. \A x \in d : m >= x
    OBVIOUS
  <1>2. PICK x : x = Max(d)
    OBVIOUS
  <1>3. x \in d /\ \A y \in d : x >= y
    BY <1>1, <1>2, Zenon DEF Max
  <1>4. x \in Nat /\ x >= m /\ m >= x
    BY <1>1, <1>3
  <1> QED BY <1>2, <1>4

\* ... and a set of positions has a greatest one.
LEMMA MaxIn ==
  ASSUME NEW n \in Nat, NEW d \in SUBSET (1 .. n), d # {}
  PROVE  Max(d) \in d
  <1> DEFINE Up == {i \in 0 .. n : \A x \in d : x <= i}
  <1>1. Up \in SUBSET Nat /\ n \in Up
    OBVIOUS
  <1>2. PICK a \in Up : \A y \in Up : a <= y
    BY <1>1, LeastElement
  <1>3. a \in d
    <2>1. PICK x \in d : TRUE
      OBVIOUS
    <2>2. a >= 1 /\ a - 1 \in 0 .. n /\ a - 1 \notin Up
      BY <1>2, <2>1
    <2>3. PICK y \in d : ~(y <= a - 1)
      BY <2>2
    <2> QED BY <1>2, <2>3
  <1>4. \A y \in d : a >= y
    BY <1>2
  <1> QED BY <1>3, <1>4, Zenon DEF Max

\* The recursion has a solution.
LEMMA IterExists ==
  ASSUME NEW A, NEW B, NEW F, NEW a, NEW s, Typed(A, B, F, a, s)
  PROVE  \E h \in [SUBSET (1 .. Len(s)) -> A] : Iterates(F, a, s, Len(s), h)
  <1> USE DEF Typed
  <1> DEFINE T == {m \in 0 .. Len(s) : \E h \in [SUBSET (1 .. m) -> A] : Iterates(F, a, s, m, h)}
  <1>0. Len(s) \in Nat
    OBVIOUS
  <1>1. 0 \in T
    <2> DEFINE h == [d \in SUBSET (1 .. 0) |-> a]
    <2>1. h \in [SUBSET (1 .. 0) -> A]
      OBVIOUS
    <2>2. \A d \in SUBSET (1 .. 0) : d = {}
      OBVIOUS
    <2>3. Iterates(F, a, s, 0, h)
      BY <2>2 DEF Iterates
    <2> QED BY <2>1, <2>3, <1>0
  <1>2. ASSUME NEW m \in 0 .. Len(s) - 1, m \in T PROVE m + 1 \in T
    <2>1. PICK g \in [SUBSET (1 .. m) -> A] : Iterates(F, a, s, m, g)
      BY <1>2
    <2> DEFINE n == m + 1
               v(d) == F[<<g[d \ {n}], s[n]>>]
               h == [d \in SUBSET (1 .. n) |-> IF n \in d THEN v(d) ELSE g[d]]
    <2>2. n \in 1 .. Len(s) /\ s[n] \in B
      BY <1>0, <1>2
    <2>3. \A d \in SUBSET (1 .. n) : d \ {n} \in SUBSET (1 .. m) /\ (n \notin d => d \in SUBSET (1 .. m))
      BY <1>2
    <2>4. h \in [SUBSET (1 .. n) -> A]
      BY <2>2, <2>3
    <2>5. ASSUME NEW d \in SUBSET (1 .. n)
          PROVE  h[d] = IF d = {} THEN a ELSE F[<<h[d \ {Max(d)}], s[Max(d)]>>]
      <3>1. CASE n \in d
        <4>1. Max(d) = n
          BY <3>1, <1>2, MaxOf
        <4>2. d \ {n} \in SUBSET (1 .. n) /\ n \notin d \ {n}
          BY <2>3
        <4>3. h[d \ {n}] = g[d \ {n}]
          BY <4>2
        <4> QED BY <3>1, <4>1, <4>3
      <3>2. CASE n \notin d
        <4>1. d \in SUBSET (1 .. m)
          BY <2>3, <3>2
        <4>2. h[d] = g[d]
          BY <3>2
        <4>3. g[d] = IF d = {} THEN a ELSE F[<<g[d \ {Max(d)}], s[Max(d)]>>]
          BY <2>1, <4>1 DEF Iterates
        <4>4. CASE d # {}
          <5>1. d \ {Max(d)} \in SUBSET (1 .. n) /\ n \notin d \ {Max(d)}
            BY <3>2
          <5>2. h[d \ {Max(d)}] = g[d \ {Max(d)}]
            BY <5>1
          <5> QED BY <4>2, <4>3, <4>4, <5>2
        <4> QED BY <4>2, <4>3, <4>4
      <3> QED BY <3>1, <3>2
    <2> HIDE DEF h
    <2>6. Iterates(F, a, s, n, h)
      <3> DEFINE H == [d \in SUBSET (1 .. n) |-> IF d = {} THEN a ELSE F[<<h[d \ {Max(d)}], s[Max(d)]>>]]
      <3>1. h = H
        BY <2>4, <2>5
      <3> QED BY <3>1 DEF Iterates
    <2> QED BY <2>4, <2>6, <1>0, <1>2
  <1> HIDE DEF T
  <1>3. \A m \in 0 .. Len(s) : m \in T
    BY <1>0, <1>1, <1>2, Induction
  <1>4. Len(s) \in T
    BY <1>0, <1>3
  <1> QED BY <1>4 DEF T

\* f[i] is what folding F over the first i elements of s makes of a.
Goes(A, F, a, s, f) ==
    /\ f \in [0 .. Len(s) -> A]
    /\ f[0] = a
    /\ \A i \in 1 .. Len(s) : f[i] = F[<<f[i - 1], s[i]>>]

\* h solves the recursion as far as its values are in A.
Solves(A, F, a, s, h) ==
    /\ h[{}] = a
    /\ \A d \in SUBSET (1 .. Len(s)) :
           d # {} /\ h[d \ {Max(d)}] \in A => h[d] = F[<<h[d \ {Max(d)}], s[Max(d)]>>]

\* A solution of the recursion, seen along the prefixes of the sequence.
LEMMA Unroll ==
  ASSUME NEW A, NEW B, NEW F, NEW a, NEW s, NEW h,
         Typed(A, B, F, a, s), Solves(A, F, a, s, h)
  PROVE  \E f : Goes(A, F, a, s, f) /\ f[Len(s)] = h[1 .. Len(s)]
  <1> USE DEF Typed
  <1> DEFINE T == {m \in 0 .. Len(s) : h[1 .. m] \in A}
             f == [m \in 0 .. Len(s) |-> h[1 .. m]]
  <1>0. Len(s) \in Nat
    OBVIOUS
  <1>1. 0 \in T
    <2>1. 1 .. 0 = {}
      OBVIOUS
    <2> QED BY <2>1, <1>0 DEF Solves
  <1>2. ASSUME NEW m \in 1 .. Len(s)
        PROVE  /\ s[m] \in B
               /\ m - 1 \in T => h[1 .. m] = F[<<h[1 .. m - 1], s[m]>>]
    <2>1. Max(1 .. m) = m
      BY <1>2, MaxOf
    <2>2. (1 .. m) \ {m} = 1 .. m - 1
      OBVIOUS
    <2>3. (1 .. m) \in SUBSET (1 .. Len(s)) /\ (1 .. m) # {}
      <3>1. m \in 1 .. m
        BY <1>2
      <3>2. \A i \in 1 .. m : i \in 1 .. Len(s)
        BY <1>0
      <3> QED BY <3>1, <3>2
    <2>4. s[m] \in B
      BY <1>0
    <2>5. m - 1 \in T => h[1 .. m - 1] \in A
      OBVIOUS
    <2> HIDE DEF T
    <2>6. ASSUME h[1 .. m - 1] \in A PROVE h[1 .. m] = F[<<h[1 .. m - 1], s[m]>>]
      <3>1. h[(1 .. m) \ {Max(1 .. m)}] \in A
        BY <2>1, <2>2, <2>6
      <3>2. h[1 .. m] = F[<<h[(1 .. m) \ {Max(1 .. m)}], s[Max(1 .. m)]>>]
        BY <2>3, <3>1 DEF Solves
      <3> QED BY <3>2, <2>1, <2>2
    <2> QED BY <2>4, <2>5, <2>6
  <1>3. ASSUME NEW m \in 0 .. Len(s) - 1, m \in T PROVE m + 1 \in T
    <2>1. m + 1 \in 1 .. Len(s) /\ (m + 1) - 1 = m
      BY <1>0
    <2>2. h[1 .. m + 1] = F[<<h[1 .. m], s[m + 1]>>] /\ s[m + 1] \in B
      BY <2>1, <1>2, <1>3
    <2>3. h[1 .. m] \in A
      BY <1>3
    <2> QED BY <2>1, <2>2, <2>3
  <1> HIDE DEF T
  <1>4. \A m \in 0 .. Len(s) : m \in T
    BY <1>0, <1>1, <1>3, Induction
  <1>5. f \in [0 .. Len(s) -> A]
    BY <1>4 DEF T
  <1>6. Goes(A, F, a, s, f)
    <2>1. f[0] = a
      <3>1. 1 .. 0 = {}
        OBVIOUS
      <3> QED BY <3>1, <1>0 DEF Solves
    <2>2. ASSUME NEW m \in 1 .. Len(s) PROVE f[m] = F[<<f[m - 1], s[m]>>]
      <3>1. m - 1 \in 0 .. Len(s)
        BY <1>0
      <3> QED BY <3>1, <1>2, <1>4
    <2> QED BY <1>5, <2>1, <2>2 DEF Goes
  <1>7. f[Len(s)] = h[1 .. Len(s)]
    BY <1>0
  <1> QED BY <1>5, <1>6, <1>7

\* f[i] is what Without keeps of the first i elements.
Kept(B, s, gone, f) ==
    /\ f \in [0 .. Len(s) -> Seq(B)]
    /\ f[0] = <<>>
    /\ \A i \in 1 .. Len(s) : f[i] = IF s[i] \in gone THEN f[i - 1] ELSE Append(f[i - 1], s[i])

\* Without, position by position.
LEMMA WithoutSteps ==
  ASSUME NEW B, NEW s \in Seq(B), NEW gone
  PROVE  \E f : Kept(B, s, gone, f) /\ f[Len(s)] = Without(s, gone)
  <1> DEFINE Op(x, e) == IF e \in gone THEN x ELSE Append(x, e)
             F == [w \in Seq(B) \X B |-> Op(w[1], w[2])]
             G(g) == [d \in SUBSET (1 .. Len(s)) |->
                         IF d = {} THEN <<>> ELSE Op(g[d \ {Max(d)}], s[Max(d)])]
             h == CHOOSE g : g = G(g)
  <1>0. DOMAIN s = 1 .. Len(s) /\ Len(s) \in Nat
    OBVIOUS
  <1>1. Typed(Seq(B), B, F, <<>>, s)
    BY DEF Typed
  <1>2. Without(s, gone) = h[1 .. Len(s)]
    BY <1>0 DEF Without, FoldLeft, MapThenFoldSet
  <1>4. \E g : g = G(g)
    <2>1. PICK g \in [SUBSET (1 .. Len(s)) -> Seq(B)] : Iterates(F, <<>>, s, Len(s), g)
      BY <1>1, IterExists
    <2>2. ASSUME NEW d \in SUBSET (1 .. Len(s)), d # {} PROVE g[d \ {Max(d)}] \in Seq(B) /\ s[Max(d)] \in B
      <3>1. Max(d) \in 1 .. Len(s)
        BY <2>2, <1>0, MaxIn
      <3>2. d \ {Max(d)} \in SUBSET (1 .. Len(s))
        OBVIOUS
      <3>3. g[d \ {Max(d)}] \in Seq(B)
        BY <3>2, Zenon
      <3> QED BY <3>1, <3>3
    <2>3. g = G(g)
      <3> HIDE DEF Op
      <3> QED BY <2>1, <2>2 DEF Iterates
    <2> QED BY <2>3
  <1>5. h = G(h)
    BY <1>4
  <1>6. h[{}] = <<>> /\ \A d \in SUBSET (1 .. Len(s)) :
             d # {} => h[d] = Op(h[d \ {Max(d)}], s[Max(d)])
    <2> HIDE DEF Op, h
    <2> QED BY <1>5
  <1> HIDE DEF h
  <1>7. \A d \in SUBSET (1 .. Len(s)) :
             d # {} /\ h[d \ {Max(d)}] \in Seq(B) => h[d] = F[<<h[d \ {Max(d)}], s[Max(d)]>>]
    <2> SUFFICES ASSUME NEW d \in SUBSET (1 .. Len(s)), d # {}, h[d \ {Max(d)}] \in Seq(B)
                 PROVE  h[d] = F[<<h[d \ {Max(d)}], s[Max(d)]>>]
      OBVIOUS
    <2>1. s[Max(d)] \in B
      <3>1. Max(d) \in 1 .. Len(s)
        BY <1>0, MaxIn
      <3> QED BY <3>1
    <2> HIDE DEF Op
    <2> QED BY <1>6, <2>1
  <1>8. PICK f : Goes(Seq(B), F, <<>>, s, f) /\ f[Len(s)] = h[1 .. Len(s)]
    <2>1. Solves(Seq(B), F, <<>>, s, h)
      <3>1. h[{}] = <<>>
        BY <1>6
      <3> HIDE DEF F, Op, G
      <3> QED BY <3>1, <1>7 DEF Solves
    <2> HIDE DEF F, Op, G
    <2> QED BY <1>1, <2>1, Unroll
  <1>9. ASSUME NEW i \in 1 .. Len(s) PROVE f[i] = Op(f[i - 1], s[i])
    <2>1. f[i - 1] \in Seq(B) /\ s[i] \in B
      BY <1>0, <1>8 DEF Goes
    <2> HIDE DEF Op
    <2> QED BY <2>1, <1>8 DEF Goes
  <1> QED BY <1>2, <1>8, <1>9 DEF Goes, Kept

\* One more element.
LEMMA AppendSet ==
  ASSUME NEW B, NEW s \in Seq(B), NEW x \in B
  PROVE  ToSet(Append(s, x)) = ToSet(s) \cup {x}
  <1> DEFINE t == Append(s, x)
  <1>1. DOMAIN s = 1 .. Len(s) /\ DOMAIN t = 1 .. Len(s) + 1 /\ Len(s) \in Nat
    OBVIOUS
  <1>2. t[Len(s) + 1] = x /\ \A i \in 1 .. Len(s) : t[i] = s[i]
    OBVIOUS
  <1> HIDE DEF t
  <1>3. \A i \in 1 .. Len(s) + 1 : i = Len(s) + 1 \/ i \in 1 .. Len(s)
    BY <1>1
  <1>4. Len(s) + 1 \in DOMAIN t /\ \A i \in DOMAIN s : i \in DOMAIN t
    BY <1>1
  <1>5. ToSet(t) \subseteq ToSet(s) \cup {x}
    BY <1>1, <1>2, <1>3 DEF ToSet
  <1>6. ToSet(s) \cup {x} \subseteq ToSet(t)
    BY <1>1, <1>2, <1>4 DEF ToSet
  <1> QED BY <1>5, <1>6 DEF t

\* What Without keeps.
LEMMA WithoutFacts ==
  ASSUME NEW B, NEW s \in Seq(B), NEW gone
  PROVE  Without(s, gone) \in Seq(B) /\ ToSet(Without(s, gone)) = ToSet(s) \ gone
  <1>0. PICK f : Kept(B, s, gone, f) /\ f[Len(s)] = Without(s, gone)
    BY WithoutSteps
  <1>1. /\ f \in [0 .. Len(s) -> Seq(B)] /\ f[0] = <<>>
        /\ \A i \in 1 .. Len(s) : f[i] = IF s[i] \in gone THEN f[i - 1] ELSE Append(f[i - 1], s[i])
        /\ f[Len(s)] = Without(s, gone)
    BY <1>0 DEF Kept
  <1> DEFINE P(i) == {s[j] : j \in 1 .. i}
             T == {i \in 0 .. Len(s) : ToSet(f[i]) = P(i) \ gone}
  <1>2. Len(s) \in Nat /\ DOMAIN s = 1 .. Len(s)
    OBVIOUS
  <1>3. 0 \in T
    <2>1. ToSet(<<>>) = {}
      BY DEF ToSet
    <2>2. P(0) = {}
      OBVIOUS
    <2> QED BY <2>1, <2>2, <1>1, <1>2
  <1>4. ASSUME NEW i \in 0 .. Len(s) - 1, i \in T PROVE i + 1 \in T
    <2>1. i + 1 \in 1 .. Len(s) /\ (i + 1) - 1 = i /\ i \in 0 .. Len(s)
      BY <1>2
    <2>2. f[i] \in Seq(B) /\ s[i + 1] \in B
      BY <1>1, <2>1
    <2>3. f[i + 1] = IF s[i + 1] \in gone THEN f[i] ELSE Append(f[i], s[i + 1])
      BY <1>1, <2>1
    <2>4. P(i + 1) = P(i) \cup {s[i + 1]}
      <3>1. \A j \in 1 .. i + 1 : j = i + 1 \/ j \in 1 .. i
        BY <2>1
      <3>2. i + 1 \in 1 .. i + 1 /\ \A j \in 1 .. i : j \in 1 .. i + 1
        BY <2>1
      <3> QED BY <3>1, <3>2, Zenon
    <2>5. ToSet(Append(f[i], s[i + 1])) = ToSet(f[i]) \cup {s[i + 1]}
      BY <2>2, AppendSet
    <2>6. ToSet(f[i]) = P(i) \ gone
      BY <1>4
    <2> HIDE DEF P
    <2>7. ToSet(f[i + 1]) = P(i + 1) \ gone
      BY <2>6, <2>3, <2>4, <2>5
    <2> QED BY <2>1, <2>7
  <1> HIDE DEF T
  <1>5. \A m \in 0 .. Len(s) : m \in T
    BY <1>2, <1>3, <1>4, Induction
  <1>6. Len(s) \in T
    BY <1>2, <1>5
  <1>7. ToSet(s) = P(Len(s))
    BY <1>2 DEF ToSet
  <1> HIDE DEF P
  <1> QED BY <1>1, <1>2, <1>6, <1>7 DEF T
-----------------------------------------------------------------------------
(* RuntimeBundle: the layout of a record; segment i ends at End(i).        *)

N == Len(SegSeq)
SumOf(s) == FoldLeft(LAMBDA n, t : n + Size[t], 0, s)

\* The sum of a list of sizes, position by position.
LEMMA SumSteps ==
  ASSUME NEW s \in Seq(Segs)
  PROVE  \E f : /\ f \in [0 .. Len(s) -> Nat] /\ f[0] = 0
                /\ \A i \in 1 .. Len(s) : f[i] = f[i - 1] + Size[s[i]]
                /\ f[Len(s)] = SumOf(s)
  <1> DEFINE Op(n, t) == n + Size[t]
             F == [w \in Nat \X Segs |-> Op(w[1], w[2])]
             G(g) == [d \in SUBSET (1 .. Len(s)) |->
                         IF d = {} THEN 0 ELSE Op(g[d \ {Max(d)}], s[Max(d)])]
             h == CHOOSE g : g = G(g)
  <1>0. DOMAIN s = 1 .. Len(s) /\ Len(s) \in Nat
    OBVIOUS
  <1>1. Typed(Nat, Segs, F, 0, s)
    BY BundleAssumption DEF Typed
  <1>2. SumOf(s) = h[1 .. Len(s)]
    BY <1>0 DEF SumOf, FoldLeft, MapThenFoldSet
  <1>3. \E g : g = G(g)
    <2>1. PICK g \in [SUBSET (1 .. Len(s)) -> Nat] : Iterates(F, 0, s, Len(s), g)
      BY <1>1, IterExists
    <2>2. ASSUME NEW d \in SUBSET (1 .. Len(s)), d # {} PROVE g[d \ {Max(d)}] \in Nat /\ s[Max(d)] \in Segs
      <3>1. Max(d) \in 1 .. Len(s)
        BY <2>2, <1>0, MaxIn
      <3>2. d \ {Max(d)} \in SUBSET (1 .. Len(s))
        OBVIOUS
      <3>3. g[d \ {Max(d)}] \in Nat
        BY <3>2, Zenon
      <3> QED BY <3>1, <3>3
    <2>3. g = G(g)
      <3> HIDE DEF Op
      <3> QED BY <2>1, <2>2 DEF Iterates
    <2> QED BY <2>3
  <1>4. h = G(h)
    BY <1>3
  <1>5. Solves(Nat, F, 0, s, h)
    <2> HIDE DEF h
    <2>1. h[{}] = 0
      BY <1>4
    <2> SUFFICES ASSUME NEW d \in SUBSET (1 .. Len(s)), d # {}, h[d \ {Max(d)}] \in Nat
                 PROVE  h[d] = F[<<h[d \ {Max(d)}], s[Max(d)]>>]
      BY <2>1 DEF Solves
    <2>2. s[Max(d)] \in Segs
      <3>1. Max(d) \in 1 .. Len(s)
        BY <1>0, MaxIn
      <3> QED BY <3>1
    <2>3. h[d] = Op(h[d \ {Max(d)}], s[Max(d)])
      <3> HIDE DEF Op
      <3> QED BY <1>4
    <2> HIDE DEF Op
    <2> QED BY <2>2, <2>3
  <1>6. PICK f : Goes(Nat, F, 0, s, f) /\ f[Len(s)] = h[1 .. Len(s)]
    <2> HIDE DEF F, Op, G, h
    <2> QED BY <1>1, <1>5, Unroll
  <1>7. ASSUME NEW i \in 1 .. Len(s) PROVE f[i] = Op(f[i - 1], s[i])
    <2>1. f[i - 1] \in Nat /\ s[i] \in Segs
      BY <1>0, <1>6 DEF Goes
    <2> HIDE DEF Op
    <2> QED BY <2>1, <1>6 DEF Goes
  <1> QED BY <1>2, <1>6, <1>7 DEF Goes

\* Where segment i ends in a record.
End(i) == SumOf(SubSeq(SegSeq, 1, i))

\* Offset and Stride are such sums.
LEMMA Ends ==
  /\ N \in Nat /\ DOMAIN SegSeq = 1 .. N
  /\ End(0) = 0 /\ End(N) = Stride
  /\ \A i \in 0 .. N : End(i) \in Nat
  /\ \A i \in 1 .. N : SegSeq[i] \in Segs /\ End(i) = End(i - 1) + Size[SegSeq[i]]
  /\ \A i \in 1 .. N : Offset(SegSeq[i]) = End(i - 1)
  <1>0. SegSeq \in Seq(Segs) /\ N \in Nat /\ DOMAIN SegSeq = 1 .. N
    BY BundleAssumption DEF N
  <1>1. PICK f : /\ f \in [0 .. N -> Nat] /\ f[0] = 0
                 /\ \A i \in 1 .. N : f[i] = f[i - 1] + Size[SegSeq[i]]
                 /\ f[N] = SumOf(SegSeq)
    BY <1>0, SumSteps DEF N
  <1>2. ASSUME NEW i \in 0 .. N PROVE End(i) = f[i]
    <2> DEFINE s == SubSeq(SegSeq, 1, i)
    <2>1. s \in Seq(Segs) /\ Len(s) = i /\ \A j \in 1 .. i : s[j] = SegSeq[j]
      BY <1>0 DEF N
    <2>2. PICK g : /\ g \in [0 .. i -> Nat] /\ g[0] = 0
                   /\ \A j \in 1 .. i : g[j] = g[j - 1] + Size[s[j]]
                   /\ g[i] = SumOf(s)
      BY <2>1, SumSteps
    <2> DEFINE T == {j \in 0 .. i : g[j] = f[j]}
    <2>3. 0 \in T
      BY <1>0, <1>1, <2>2
    <2>4. ASSUME NEW j \in 0 .. i - 1, j \in T PROVE j + 1 \in T
      <3>1. j + 1 \in 1 .. i /\ j + 1 \in 1 .. N /\ (j + 1) - 1 = j
        BY <1>0
      <3>2. g[j + 1] = g[j] + Size[s[j + 1]] /\ f[j + 1] = f[j] + Size[SegSeq[j + 1]]
        BY <3>1, <1>1, <2>2
      <3> QED BY <3>1, <3>2, <2>1, <2>4
    <2> HIDE DEF T, s
    <2>5. \A j \in 0 .. i : j \in T
      BY <1>0, <2>3, <2>4, Induction
    <2>6. i \in T
      BY <1>0, <2>5
    <2> QED BY <2>6, <2>2 DEF T, End, s
  <1>3. End(0) = 0 /\ \A i \in 0 .. N : End(i) \in Nat
    BY <1>0, <1>1, <1>2, SMTT(20)
  <1>4. End(N) = Stride
    <2>1. End(N) = f[N]
      BY <1>0, <1>2
    <2>2. Stride = SumOf(SegSeq)
      BY DEF Stride, SumOf
    <2> QED BY <2>1, <2>2, <1>1
  <1>5. ASSUME NEW i \in 1 .. N
        PROVE  SegSeq[i] \in Segs /\ End(i) = End(i - 1) + Size[SegSeq[i]]
    <2>1. i \in 0 .. N /\ i - 1 \in 0 .. N
      BY <1>0
    <2> QED BY <2>1, <1>0, <1>1, <1>2 DEF Segs
  <1>6. ASSUME NEW i \in 1 .. N PROVE Offset(SegSeq[i]) = End(i - 1)
    <2>1. (CHOOSE j \in DOMAIN SegSeq : SegSeq[j] = SegSeq[i]) = i
      BY <1>0, BundleAssumption DEF IsInjective
    <2> QED BY <2>1 DEF Offset, End, SumOf
  <1> QED BY <1>0, <1>3, <1>4, <1>5, <1>6

\* Later segments end later.
LEMMA EndsGrow ==
  ASSUME NEW i \in 0 .. N, NEW j \in i .. N
  PROVE  End(i) <= End(j)
  <1> DEFINE T == {k \in 0 .. N - i : End(i) <= End(i + k)}
  <1>0. N \in Nat /\ (\A k \in 0 .. N : End(k) \in Nat)
        /\ (\A k \in 1 .. N : End(k) = End(k - 1) + Size[SegSeq[k]] /\ Size[SegSeq[k]] \in Nat)
    BY Ends, BundleAssumption
  <1>1. 0 \in T
    BY <1>0
  <1>2. ASSUME NEW k \in 0 .. (N - i) - 1, k \in T PROVE k + 1 \in T
    <2>1. i + k + 1 \in 1 .. N /\ (i + k + 1) - 1 = i + k /\ i + k \in 0 .. N
      BY <1>0
    <2>2. End(i + k + 1) = End(i + k) + Size[SegSeq[i + k + 1]]
      BY <2>1, <1>0
    <2>3. i + (k + 1) = i + k + 1 /\ k + 1 \in 0 .. N - i
      BY <1>0
    <2>4. Size[SegSeq[i + k + 1]] \in Nat /\ End(i + k) \in Nat /\ End(i) \in Nat
      BY <1>0, <2>1
    <2>5. End(i) <= End(i + k + 1)
      BY <1>2, <2>2, <2>4
    <2> QED BY <2>3, <2>5
  <1> HIDE DEF T
  <1>3. N - i \in Nat
    BY <1>0
  <1>4. \A k \in 0 .. N - i : k \in T
    BY <1>1, <1>2, <1>3, Induction
  <1>5. j - i \in T
    BY <1>0, <1>4
  <1>6. i + (j - i) = j
    BY <1>0
  <1> QED BY <1>5, <1>6 DEF T

\* Every byte of a record is in a segment.
LEMMA Covered ==
  ASSUME NEW q \in 1 .. Stride
  PROVE  \E i \in 1 .. N : \E j \in 1 .. Size[SegSeq[i]] : q = End(i - 1) + j
  <1> DEFINE T == {i \in 0 .. N : q <= End(i)}
  <1>0. N \in Nat /\ Stride \in Nat /\ Stride = End(N) /\ End(0) = 0
    BY Ends
  <1>1. T \in SUBSET Nat /\ N \in T
    BY <1>0
  <1>2. PICK i \in T : \A y \in T : i <= y
    BY <1>1, LeastElement
  <1>3. i \in 1 .. N
    BY <1>0, <1>2
  <1>4. i - 1 \in 0 .. N /\ i - 1 \notin T
    BY <1>0, <1>2, <1>3
  <1>5. End(i) = End(i - 1) + Size[SegSeq[i]] /\ End(i) \in Nat /\ End(i - 1) \in Nat
        /\ Size[SegSeq[i]] \in Nat
    <2>1. i \in 0 .. N /\ SegSeq[i] \in Segs /\ End(i) = End(i - 1) + Size[SegSeq[i]]
      BY <1>0, <1>3, Ends
    <2> QED BY <2>1, <1>4, Ends, BundleAssumption
  <1>6. q - End(i - 1) \in 1 .. Size[SegSeq[i]]
    <2>1. q <= End(i) /\ ~(q <= End(i - 1))
      BY <1>2, <1>4
    <2> QED BY <2>1, <1>5
  <1> QED BY <1>3, <1>5, <1>6

\* Where segment i of expert e begins.
Pos(e, i) == (e - 1) * Stride + End(i - 1)

\* Records do not reach into the next.
LEMMA Monotone ==
  ASSUME NEW a \in Nat, NEW b \in Nat, NEW c \in Nat, a <= b
  PROVE  a * c <= b * c /\ a * c \in Nat
  <1> DEFINE d == b - a
  <1>1. d \in Nat /\ b = a + d
    OBVIOUS
  <1> HIDE DEF d
  <1>2. b * c = a * c + d * c
    BY <1>1
  <1>3. d * c \in Nat /\ a * c \in Nat
    BY <1>1
  <1> QED BY <1>2, <1>3

\* A byte of a segment is inside the blob.
LEMMA Inside ==
  ASSUME NEW e \in 1 .. NE, NEW i \in 1 .. N, NEW j \in 1 .. Size[SegSeq[i]]
  PROVE  /\ End(i - 1) + j \in 1 .. Stride
         /\ Pos(e, i) + j \in 1 .. Stride * NE
         /\ Pos(e, i) \in Nat
  <1>0. /\ N \in Nat /\ NE \in Nat \ {0} /\ End(N) = Stride /\ Stride \in Nat
        /\ i - 1 \in 0 .. N /\ i \in 0 .. N
        /\ Size[SegSeq[i]] \in Nat /\ End(i) = End(i - 1) + Size[SegSeq[i]]
        /\ End(i) \in Nat /\ End(i - 1) \in Nat
    <2>1. N \in Nat /\ NE \in Nat \ {0}
      BY Ends, BundleAssumption
    <2>2. i - 1 \in 0 .. N /\ i \in 0 .. N /\ N \in 0 .. N
      BY <2>1
    <2> QED BY <2>1, <2>2, Ends, BundleAssumption
  <1>1. End(i) <= Stride
    <2>1. N \in i .. N
      BY <1>0
    <2> QED BY <2>1, <1>0, EndsGrow
  <1>2. End(i - 1) + j \in 1 .. Stride
    BY <1>0, <1>1
  <1>3. (e - 1) * Stride \in Nat /\ (e - 1) * Stride <= (NE - 1) * Stride
    BY <1>0, Monotone
  <1>4. (NE - 1) * Stride + Stride = Stride * NE /\ (NE - 1) * Stride \in Nat
    BY <1>0
  <1>5. Pos(e, i) + j = (e - 1) * Stride + (End(i - 1) + j)
    BY <1>0, <1>3 DEF Pos
  <1> QED
    <2> DEFINE x == (e - 1) * Stride
               y == (NE - 1) * Stride
               z == Stride * NE
    <2>1. x \in Nat /\ y \in Nat /\ x <= y /\ y + Stride = z
      BY <1>3, <1>4
    <2> HIDE DEF x, y, z
    <2>2. x + (End(i - 1) + j) \in 1 .. z
      BY <2>1, <1>2, <1>0
    <2>3. x + End(i - 1) \in Nat
      BY <2>1, <1>0
    <2> QED BY <2>2, <2>3, <1>2, <1>5 DEF x, z, Pos

\* Two segments of two experts have no byte in common.
LEMMA Disjoint ==
  ASSUME NEW e \in 1 .. NE, NEW i \in 1 .. N, NEW j \in 1 .. Size[SegSeq[i]],
         NEW d \in 1 .. NE, NEW k \in 1 .. N,
         (Pos(e, i) + j) - Pos(d, k) \in 1 .. Size[SegSeq[k]]
  PROVE  e = d /\ i = k
  <1> DEFINE q == End(i - 1) + j
             m == (Pos(e, i) + j) - Pos(d, k)
             t == End(k - 1) + m
  <1>0. /\ N \in Nat /\ NE \in Nat \ {0} /\ Stride \in Nat
        /\ End(i - 1) \in Nat /\ End(k - 1) \in Nat /\ Size[SegSeq[i]] \in Nat /\ Size[SegSeq[k]] \in Nat
        /\ End(i) = End(i - 1) + Size[SegSeq[i]] /\ End(k) = End(k - 1) + Size[SegSeq[k]]
    <2>1. N \in Nat /\ NE \in Nat \ {0}
      BY Ends, BundleAssumption
    <2>2. i - 1 \in 0 .. N /\ k - 1 \in 0 .. N /\ N \in 0 .. N
      BY <2>1
    <2> QED BY <2>1, <2>2, Ends, BundleAssumption
  <1>1. q \in 1 .. Stride /\ t \in 1 .. Stride
    BY Inside, m \in 1 .. Size[SegSeq[k]]
  <1>2. Pos(e, i) \in Nat /\ Pos(d, k) \in Nat
    BY Inside, m \in 1 .. Size[SegSeq[k]]
  <1>3. (e - 1) * Stride + q = (d - 1) * Stride + t
    <2> DEFINE x == (e - 1) * Stride
               y == (d - 1) * Stride
    <2>1. x \in Nat /\ y \in Nat
      BY <1>0, Monotone
    <2> HIDE DEF x, y
    <2> QED BY <2>1, <1>0 DEF Pos, x, y
  <1> HIDE DEF q, t
  <1>4. ASSUME NEW a \in 1 .. NE, NEW b \in 1 .. NE, NEW u \in 1 .. Stride, NEW v \in 1 .. Stride,
               (a - 1) * Stride + u = (b - 1) * Stride + v
        PROVE  ~(a < b)
    <2> SUFFICES ASSUME a < b PROVE FALSE
      OBVIOUS
    <2>1. a * Stride <= (b - 1) * Stride
      BY <1>0, Monotone
    <2>2. (a - 1) * Stride + Stride = a * Stride
      BY <1>0
    <2> DEFINE x == (a - 1) * Stride
               y == (b - 1) * Stride
               z == a * Stride
    <2>3. x \in Nat /\ y \in Nat /\ z \in Nat
      BY <1>0, Monotone
    <2> HIDE DEF x, y, z
    <2>4. z <= y /\ x + Stride = z /\ x + u = y + v
      BY <2>1, <2>2, <1>4 DEF x, y, z
    <2> QED BY <2>3, <2>4, <1>0
  <1>5. e = d
    <2>1. ~(e < d)
      BY <1>1, <1>3, <1>4
    <2>2. ~(d < e)
      BY <1>1, <1>3, <1>4
    <2> QED BY <2>1, <2>2, <1>0
  <1>6. q = t
    <2> DEFINE x == (e - 1) * Stride
    <2>1. x \in Nat
      BY <1>0, Monotone
    <2>2. x + q = x + t
      BY <1>3, <1>5
    <2> HIDE DEF x
    <2> QED BY <2>1, <2>2, <1>1, <1>0
  <1>7. ASSUME NEW a \in 1 .. N, NEW b \in 1 .. N, a < b PROVE End(a) <= End(b - 1)
    <2>1. a \in 0 .. N /\ b - 1 \in a .. N
      BY <1>0, <1>7
    <2> QED BY <2>1, EndsGrow
  <1>8. ~(i < k)
    BY <1>0, <1>6, <1>7 DEF q, t
  <1>9. ~(k < i)
    BY <1>0, <1>6, <1>7 DEF q, t
  <1> QED BY <1>0, <1>5, <1>8, <1>9
-----------------------------------------------------------------------------
(* RuntimeBundle: what a blob holds once a tensor is written.              *)

\* The bytes of blobs.
Layer == Nat \cup {MTP}
Byte == {Nothing} \cup (Layer \X (1 .. NE) \X Segs \X Nat)
Blob == [1 .. Stride * NE -> Byte]

\* Segment i of every expert is at its place.
Written(b, l, i) ==
    \A e \in 1 .. NE, j \in 1 .. Size[SegSeq[i]] : b[Pos(e, i) + j] = <<l, e, SegSeq[i], j>>

\* A segment has a size.
LEMMA SizeIsNat == \A i \in 1 .. N : SegSeq[i] \in Segs /\ Size[SegSeq[i]] \in Nat \ {0}
  BY Ends, BundleAssumption

\* One tensor.
LEMMA OneTensor ==
  ASSUME NEW b \in Blob, NEW l \in Layer, NEW i \in 1 .. N
  PROVE  /\ WriteTensor(b, l, SegSeq[i]) \in Blob
         /\ Written(WriteTensor(b, l, SegSeq[i]), l, i)
         /\ \A k \in 1 .. N : Written(b, l, k) => Written(WriteTensor(b, l, SegSeq[i]), l, k)
  <1> DEFINE s == SegSeq[i]
             W == WriteTensor(b, l, s)
             At0(e) == (e - 1) * Stride + Offset(s)
             In(p, e) == p - At0(e) \in 1 .. Size[s]
             E(p) == CHOOSE x \in 1 .. NE : In(p, x)
             V(p) == IF \E e \in 1 .. NE : In(p, e) THEN <<l, E(p), s, p - At0(E(p))>> ELSE b[p]
  <1>0. s \in Segs /\ Size[s] \in Nat /\ \A e \in 1 .. NE : At0(e) = Pos(e, i)
    BY SizeIsNat, Ends DEF Pos
  <1>1. W = [p \in 1 .. Stride * NE |-> V(p)]
    <2>1. DOMAIN b = 1 .. Stride * NE
      BY DEF Blob
    <2> QED BY <2>1 DEF WriteTensor
  <1>2. ASSUME NEW e \in 1 .. NE, NEW k \in 1 .. N, NEW j \in 1 .. Size[SegSeq[k]]
        PROVE  LET p == Pos(e, k) + j IN
               /\ p \in 1 .. Stride * NE
               /\ k # i => W[p] = b[p]
               /\ k = i => W[p] = <<l, e, s, j>>
    <2> DEFINE p == Pos(e, k) + j
    <2>1. p \in 1 .. Stride * NE /\ Pos(e, k) \in Nat
      BY Inside
    <2>2. \A d \in 1 .. NE : In(p, d) => d = e /\ k = i
      BY Disjoint, <1>0
    <2>3. k = i => In(p, e) /\ p - At0(e) = j
      BY <2>1, SizeIsNat, <1>0
    <2>4. W[p] = V(p)
      <3> HIDE DEF V, W, p
      <3> QED BY <1>1, <2>1
    <2>5. k # i => W[p] = b[p]
      <3> HIDE DEF In, E, p, W
      <3> QED BY <2>2, <2>4
    <2>6. k = i => W[p] = <<l, e, s, j>>
      <3>1. SUFFICES ASSUME k = i PROVE V(p) = <<l, e, s, j>>
        BY <2>4
      <3>2. In(p, e)
        BY <2>3, <3>1
      <3>3. E(p) \in 1 .. NE /\ In(p, E(p))
        BY <3>2
      <3>4. E(p) = e
        <4> HIDE DEF E, In, p
        <4> QED BY <3>3, <2>2
      <3>5. p - At0(E(p)) = j
        BY <3>4, <2>3, <3>1
      <3> HIDE DEF E, In, p
      <3> QED BY <3>2, <3>4, <3>5
    <2> HIDE DEF W, s
    <2> QED BY <2>1, <2>5, <2>6
  <1>3. W \in Blob
    <2>1. ASSUME NEW p \in 1 .. Stride * NE PROVE V(p) \in Byte
      <3>1. b[p] \in Byte
        BY DEF Blob
      <3>2. ASSUME NEW e \in 1 .. NE, In(p, e) PROVE V(p) \in Byte
        <4>1. E(p) \in 1 .. NE /\ In(p, E(p))
          BY <3>2
        <4>2. p - At0(E(p)) \in Nat
          <5> HIDE DEF E
          <5> QED BY <4>1, <1>0
        <4> HIDE DEF In, E
        <4>3. V(p) = <<l, E(p), s, p - At0(E(p))>>
          BY <3>2
        <4> HIDE DEF V, s
        <4> QED BY <4>1, <4>2, <4>3, <1>0 DEF Byte
      <3> HIDE DEF In, E
      <3> QED BY <3>1, <3>2
    <2> HIDE DEF V, W
    <2> QED BY <1>1, <2>1 DEF Blob
  <1>4. Written(W, l, i)
    BY <1>2 DEF Written
  <1>5. ASSUME NEW k \in 1 .. N, Written(b, l, k) PROVE Written(W, l, k)
    <2> HIDE DEF W
    <2>1. CASE k = i
      BY <2>1, <1>4
    <2>2. CASE k # i
      BY <2>2, <1>2, <1>5 DEF Written
    <2> QED BY <2>1, <2>2
  <1> QED BY <1>3, <1>4, <1>5

\* Fill, tensor by tensor.
LEMMA FillSteps ==
  ASSUME NEW b \in Blob, NEW l \in Layer, NEW w \in Seq(Segs)
  PROVE  \E f : /\ f \in [0 .. Len(w) -> Blob] /\ f[0] = b
                /\ \A i \in 1 .. Len(w) : f[i] = WriteTensor(f[i - 1], l, w[i])
                /\ f[Len(w)] = Fill(b, l, w)
  <1> DEFINE Op(x, s) == WriteTensor(x, l, s)
             F == [z \in Blob \X Segs |-> Op(z[1], z[2])]
             G(g) == [d \in SUBSET (1 .. Len(w)) |->
                         IF d = {} THEN b ELSE Op(g[d \ {Max(d)}], w[Max(d)])]
             h == CHOOSE g : g = G(g)
  <1>0. DOMAIN w = 1 .. Len(w) /\ Len(w) \in Nat
    OBVIOUS
  <1>1. Typed(Blob, Segs, F, b, w)
    <2>1. ASSUME NEW x \in Blob, NEW s \in Segs PROVE Op(x, s) \in Blob
      <3>1. PICK i \in 1 .. N : s = SegSeq[i]
        BY Ends DEF Segs
      <3> QED BY <3>1, OneTensor
    <2> HIDE DEF Op
    <2>2. F \in [Blob \X Segs -> Blob]
      BY <2>1
    <2> QED BY <2>2 DEF Typed
  <1>2. Fill(b, l, w) = h[1 .. Len(w)]
    BY <1>0 DEF Fill, FoldLeft, MapThenFoldSet
  <1>3. \E g : g = G(g)
    <2>1. PICK g \in [SUBSET (1 .. Len(w)) -> Blob] : Iterates(F, b, w, Len(w), g)
      BY <1>1, IterExists
    <2>2. ASSUME NEW d \in SUBSET (1 .. Len(w)), d # {} PROVE g[d \ {Max(d)}] \in Blob /\ w[Max(d)] \in Segs
      <3>1. Max(d) \in 1 .. Len(w)
        BY <2>2, <1>0, MaxIn
      <3>2. d \ {Max(d)} \in SUBSET (1 .. Len(w))
        OBVIOUS
      <3>3. g[d \ {Max(d)}] \in Blob
        BY <3>2, Zenon
      <3> QED BY <3>1, <3>3
    <2>3. g = G(g)
      <3> HIDE DEF Op
      <3> QED BY <2>1, <2>2 DEF Iterates
    <2> QED BY <2>3
  <1>4. h = G(h)
    BY <1>3
  <1>5. Solves(Blob, F, b, w, h)
    <2> HIDE DEF h, Op
    <2>1. h[{}] = b
      BY <1>4
    <2> SUFFICES ASSUME NEW d \in SUBSET (1 .. Len(w)), d # {}, h[d \ {Max(d)}] \in Blob
                 PROVE  h[d] = F[<<h[d \ {Max(d)}], w[Max(d)]>>]
      BY <2>1 DEF Solves
    <2>2. w[Max(d)] \in Segs
      <3>1. Max(d) \in 1 .. Len(w)
        BY <1>0, MaxIn
      <3> QED BY <3>1
    <2>3. h[d] = Op(h[d \ {Max(d)}], w[Max(d)])
      BY <1>4
    <2> QED BY <2>2, <2>3
  <1>6. PICK f : Goes(Blob, F, b, w, f) /\ f[Len(w)] = h[1 .. Len(w)]
    <2> HIDE DEF F, Op, G, h
    <2> QED BY <1>1, <1>5, Unroll
  <1>7. ASSUME NEW i \in 1 .. Len(w) PROVE f[i] = Op(f[i - 1], w[i])
    <2>1. f[i - 1] \in Blob /\ w[i] \in Segs
      BY <1>0, <1>6 DEF Goes
    <2> HIDE DEF Op
    <2> QED BY <2>1, <1>6 DEF Goes
  <1> HIDE DEF h
  <1> QED BY <1>2, <1>6, <1>7 DEF Goes

\* Fill writes the tensors of its list and keeps those written before.
LEMMA FillWrites ==
  ASSUME NEW b \in Blob, NEW l \in Layer, NEW w \in Seq(Segs)
  PROVE  /\ Fill(b, l, w) \in Blob
         /\ \A k \in 1 .. N : Written(b, l, k) \/ SegSeq[k] \in ToSet(w) => Written(Fill(b, l, w), l, k)
  <1>1. PICK f : /\ f \in [0 .. Len(w) -> Blob] /\ f[0] = b
                 /\ \A i \in 1 .. Len(w) : f[i] = WriteTensor(f[i - 1], l, w[i])
                 /\ f[Len(w)] = Fill(b, l, w)
    BY FillSteps
  <1>2. Len(w) \in Nat /\ DOMAIN w = 1 .. Len(w) /\ \A i \in 1 .. Len(w) : w[i] \in Segs
    OBVIOUS
  <1> SUFFICES ASSUME NEW k \in 1 .. N, Written(b, l, k) \/ SegSeq[k] \in ToSet(w)
               PROVE  Written(Fill(b, l, w), l, k)
    BY <1>1, <1>2
  <1> DEFINE T == {i \in 0 .. Len(w) : Written(b, l, k) \/ (\E j \in 1 .. i : w[j] = SegSeq[k]) => Written(f[i], l, k)}
  <1>3. 0 \in T
    BY <1>1, <1>2
  <1>4. ASSUME NEW i \in 0 .. Len(w) - 1, i \in T PROVE i + 1 \in T
    <2>1. i + 1 \in 1 .. Len(w) /\ (i + 1) - 1 = i /\ i \in 0 .. Len(w) /\ i + 1 \in 0 .. Len(w)
      BY <1>2
    <2>2. f[i + 1] = WriteTensor(f[i], l, w[i + 1]) /\ f[i] \in Blob /\ w[i + 1] \in Segs
      BY <2>1, <1>1, <1>2
    <2>3. PICK m \in 1 .. N : w[i + 1] = SegSeq[m]
      BY <2>2, Ends DEF Segs
    <2>4. Written(f[i + 1], l, m) /\ (Written(f[i], l, k) => Written(f[i + 1], l, k))
      BY <2>2, <2>3, OneTensor
    <2>5. SegSeq[k] = w[i + 1] => k = m
      BY <2>3, Ends, BundleAssumption DEF IsInjective
    <2>6. \A j \in 1 .. i + 1 : j = i + 1 \/ j \in 1 .. i
      BY <2>1
    <2> QED BY <1>4, <2>1, <2>4, <2>5, <2>6
  <1> HIDE DEF T
  <1>5. \A m \in 0 .. Len(w) : m \in T
    BY <1>2, <1>3, <1>4, Induction
  <1>6. Len(w) \in T
    BY <1>2, <1>5
  <1> QED BY <1>1, <1>2, <1>6 DEF T, ToSet
-----------------------------------------------------------------------------
(* RuntimeBundle: records one after the other.                             *)

\* f[i] is the first i lists of ss, one after the other.
Joined(B, ss, f) ==
    /\ f \in [0 .. Len(ss) -> Seq(B)]
    /\ f[0] = <<>>
    /\ \A i \in 1 .. Len(ss) : f[i] = f[i - 1] \o ss[i]

\* FlattenSeq of the library is such a concatenation.
LEMMA FlattenSteps ==
  ASSUME NEW B, NEW ss \in Seq(Seq(B))
  PROVE  \E f : Joined(B, ss, f) /\ f[Len(ss)] = FlattenSeq(ss)
  <1> DEFINE n == Len(ss)
             G(m, g) == [i \in 1 .. m |-> IF i = 1 THEN ss[i] ELSE g[i - 1] \o ss[i]]
             T == {m \in 0 .. n : \E g \in [1 .. m -> Seq(B)] : g = G(m, g)}
             h == CHOOSE g : g = G(n, g)
  <1>0. n \in Nat /\ \A i \in 1 .. n : ss[i] \in Seq(B)
    OBVIOUS
  <1>1. 0 \in T
    <2> DEFINE g == [i \in 1 .. 0 |-> <<>>]
    <2>1. g = G(0, g) /\ g \in [1 .. 0 -> Seq(B)]
      OBVIOUS
    <2>2. 0 \in 0 .. n
      BY <1>0
    <2> HIDE DEF g, G, n
    <2> QED BY <2>1, <2>2
  <1>2. ASSUME NEW m \in 0 .. n - 1, m \in T PROVE m + 1 \in T
    <2>1. PICK g \in [1 .. m -> Seq(B)] : g = G(m, g)
      BY <1>2
    <2> DEFINE v == IF m = 0 THEN ss[1] ELSE g[m] \o ss[m + 1]
               k == [i \in 1 .. m + 1 |-> IF i = m + 1 THEN v ELSE g[i]]
    <2>2. v \in Seq(B)
      <3>1. CASE m = 0
        BY <3>1, <1>0, <1>2
      <3>2. CASE m # 0
        <4>1. g[m] \in Seq(B) /\ ss[m + 1] \in Seq(B)
          BY <3>2, <1>0, <1>2
        <4> QED BY <4>1, <3>2
      <3> QED BY <3>1, <3>2
    <2> HIDE DEF v
    <2>3. \A i \in 1 .. m + 1 : i = m + 1 \/ i \in 1 .. m
      BY <1>2
    <2>4. k \in [1 .. m + 1 -> Seq(B)]
      BY <2>2, <2>3
    <2>5. ASSUME NEW i \in 1 .. m + 1
          PROVE  k[i] = IF i = 1 THEN ss[i] ELSE k[i - 1] \o ss[i]
      <3>1. CASE i = m + 1
        <4>1. CASE m = 0
          BY <3>1, <4>1 DEF v
        <4>2. CASE m # 0
          <5>1. m \in 1 .. m + 1 /\ m # m + 1 /\ i - 1 = m
            BY <1>2, <3>1, <4>2
          <5>2. k[m] = g[m]
            BY <5>1
          <5> QED BY <3>1, <4>2, <5>1, <5>2 DEF v
        <4> QED BY <4>1, <4>2
      <3>2. CASE i # m + 1
        <4>1. i \in 1 .. m
          BY <3>2, <2>3
        <4>2. g[i] = IF i = 1 THEN ss[i] ELSE g[i - 1] \o ss[i]
          BY <2>1, <4>1
        <4>3. i # 1 => i - 1 \in 1 .. m + 1 /\ i - 1 # m + 1
          BY <4>1, <1>2
        <4>4. i # 1 => k[i - 1] = g[i - 1]
          BY <4>3
        <4> QED BY <3>2, <4>2, <4>4
      <3> QED BY <3>1, <3>2
    <2> HIDE DEF k
    <2>6. k = G(m + 1, k)
      BY <2>4, <2>5
    <2>7. m + 1 \in 0 .. n
      BY <1>0
    <2> HIDE DEF G
    <2> QED BY <2>4, <2>6, <2>7
  <1> HIDE DEF T
  <1>3. \A m \in 0 .. n : m \in T
    <2> HIDE DEF n
    <2> QED BY <1>0, <1>1, <1>2, Induction
  <1>4. n \in T
    BY <1>0, <1>3
  <1>5. h = G(n, h) /\ \E g \in [1 .. n -> Seq(B)] : g = G(n, g)
    BY <1>4 DEF T
  <1>6. \A i \in 1 .. n : h[i] = IF i = 1 THEN ss[i] ELSE h[i - 1] \o ss[i]
    <2> HIDE DEF h
    <2> QED BY <1>5
  <1> DEFINE f == [i \in 0 .. n |-> IF i = 0 THEN <<>> ELSE h[i]]
             S == {m \in 0 .. n : f[m] \in Seq(B)}
  <1> HIDE DEF h
  <1>7. 0 \in S
    BY <1>0
  <1>8. ASSUME NEW i \in 1 .. n, f[i - 1] \in Seq(B) PROVE f[i] = f[i - 1] \o ss[i] /\ f[i] \in Seq(B)
    <2>0. i - 1 \in 0 .. n /\ i \in 0 .. n /\ ss[i] \in Seq(B)
      BY <1>0
    <2>1. CASE i = 1
      BY <1>6, <2>0, <2>1
    <2>2. CASE i # 1
      <3>1. f[i - 1] = h[i - 1] /\ f[i] = h[i]
        BY <2>0, <2>2
      <3>2. f[i] = f[i - 1] \o ss[i]
        BY <3>1, <1>6, <2>2
      <3> HIDE DEF f
      <3> QED BY <3>2, <2>0, <1>8
    <2> QED BY <2>1, <2>2
  <1>9. ASSUME NEW m \in 0 .. n - 1, m \in S PROVE m + 1 \in S
    <2>1. m + 1 \in 1 .. n /\ (m + 1) - 1 = m /\ m + 1 \in 0 .. n
      BY <1>0
    <2> HIDE DEF f
    <2> QED BY <1>8, <1>9, <2>1
  <1>10. \A m \in 0 .. n : m \in S
    <2> HIDE DEF S, n
    <2> QED BY <1>0, <1>7, <1>9, Induction
  <1>11. Joined(B, ss, f)
    <2>1. f \in [0 .. n -> Seq(B)]
      BY <1>10
    <2>2. ASSUME NEW i \in 1 .. n PROVE f[i] = f[i - 1] \o ss[i]
      <3>1. i - 1 \in 0 .. n
        BY <1>0
      <3>2. f[i - 1] \in Seq(B)
        BY <3>1, <1>10
      <3> HIDE DEF f
      <3> QED BY <3>2, <1>8
    <2>3. f[0] = <<>>
      BY <1>0
    <2> HIDE DEF f
    <2> QED BY <2>1, <2>2, <2>3 DEF Joined
  <1>12. f[n] = FlattenSeq(ss)
    <2>1. CASE n = 0
      <3>1. ss = <<>>
        BY <2>1
      <3> QED BY <2>1, <3>1 DEF FlattenSeq
    <2>2. CASE n # 0
      <3>1. f[n] = h[n]
        BY <2>2, <1>0
      <3>2. Len(ss) # 0
        BY <2>2
      <3>3. FlattenSeq(ss) = h[Len(ss)]
        BY <3>2, Zenon DEF FlattenSeq, h
      <3> HIDE DEF f, h
      <3> QED BY <3>1, <3>3
    <2> QED BY <2>1, <2>2
  <1> HIDE DEF f
  <1> QED BY <1>11, <1>12

\* Where each of the lists ends when they are put one after the other.
Marks(ss, E) ==
    /\ E \in [0 .. Len(ss) -> Nat]
    /\ E[0] = 0
    /\ \A i \in 1 .. Len(ss) : E[i] = E[i - 1] + Len(ss[i])

\* Every element of the lists at the place the marks give it.
Placed(B, ss, E) ==
    /\ FlattenSeq(ss) \in Seq(B)
    /\ Len(FlattenSeq(ss)) = E[Len(ss)]
    /\ \A i \in 1 .. Len(ss) : \A j \in 1 .. Len(ss[i]) :
         E[i - 1] + j \in 1 .. E[Len(ss)] /\ FlattenSeq(ss)[E[i - 1] + j] = ss[i][j]

\* Lists of known lengths, one after the other: the byte at every place.
LEMMA FlattenPlaces ==
  ASSUME NEW B, NEW ss \in Seq(Seq(B)), NEW E, Marks(ss, E)
  PROVE  Placed(B, ss, E)
  <1> DEFINE n == Len(ss)
  <1>0. n \in Nat /\ \A i \in 1 .. n : ss[i] \in Seq(B) /\ Len(ss[i]) \in Nat
    OBVIOUS
  <1>1. PICK f : Joined(B, ss, f) /\ f[n] = FlattenSeq(ss)
    BY FlattenSteps
  <1>2. /\ f \in [0 .. n -> Seq(B)] /\ f[0] = <<>>
        /\ \A i \in 1 .. n : f[i] = f[i - 1] \o ss[i]
    BY <1>1 DEF Joined
  <1>3. /\ E \in [0 .. n -> Nat] /\ E[0] = 0
        /\ \A i \in 1 .. n : E[i] = E[i - 1] + Len(ss[i])
    BY DEF Marks
  <1> DEFINE In(m) == \A i \in 1 .. m : \A j \in 1 .. Len(ss[i]) :
                         E[i - 1] + j \in 1 .. E[m] /\ f[m][E[i - 1] + j] = ss[i][j]
             T == {m \in 0 .. n : Len(f[m]) = E[m] /\ In(m)}
  <1> HIDE DEF n
  <1>4. 0 \in T
    BY <1>0, <1>2, <1>3
  <1>5. ASSUME NEW m \in 0 .. n - 1, m \in T PROVE m + 1 \in T
    <2>1. m + 1 \in 1 .. n /\ (m + 1) - 1 = m /\ m \in 0 .. n /\ m + 1 \in 0 .. n
      BY <1>0
    <2> DEFINE a == f[m]
               b == ss[m + 1]
               c == f[m + 1]
    <2>2. a \in Seq(B) /\ b \in Seq(B) /\ c = a \o b /\ Len(a) = E[m] /\ E[m + 1] = E[m] + Len(b)
          /\ Len(b) \in Nat /\ E[m] \in Nat
      BY <1>0, <1>2, <1>3, <1>5, <2>1
    <2> HIDE DEF a, b, c
    <2>0. /\ Len(c) = Len(a) + Len(b)
          /\ \A p \in 1 .. Len(a) + Len(b) : c[p] = IF p <= Len(a) THEN a[p] ELSE b[p - Len(a)]
      BY <2>2, ConcatProperties
    <2>3. Len(c) = E[m + 1]
      BY <2>0, <2>2
    <2>4. \A p \in 1 .. Len(a) : c[p] = a[p]
      BY <2>0, <2>2
    <2>5. ASSUME NEW j \in 1 .. Len(b) PROVE c[Len(a) + j] = b[j]
      <3>1. Len(a) + j \in 1 .. Len(a) + Len(b) /\ ~(Len(a) + j <= Len(a)) /\ (Len(a) + j) - Len(a) = j
        BY <2>2
      <3> QED BY <3>1, <2>0
    <2>6. ASSUME NEW i \in 1 .. m + 1, NEW j \in 1 .. Len(ss[i])
          PROVE  E[i - 1] + j \in 1 .. E[m + 1] /\ c[E[i - 1] + j] = ss[i][j]
      <3>1. CASE i = m + 1
        <4>1. E[i - 1] = Len(a) /\ j \in 1 .. Len(b) /\ ss[i] = b
          BY <3>1, <2>1, <2>2 DEF b
        <4>2. c[Len(a) + j] = b[j]
          BY <4>1, <2>5
        <4>3. Len(a) + j \in 1 .. E[m + 1]
          BY <4>1, <2>2, SMTT(20)
        <4> QED BY <4>1, <4>2, <4>3
      <3>2. CASE i # m + 1
        <4>1. i \in 1 .. m
          BY <3>2, <2>1
        <4>2. E[i - 1] + j \in 1 .. E[m] /\ a[E[i - 1] + j] = ss[i][j]
          BY <4>1, <1>5 DEF a
        <4>3. E[i - 1] + j \in 1 .. E[m + 1]
          BY <4>2, <2>2, SMTT(20)
        <4>4. E[i - 1] + j \in 1 .. Len(a)
          BY <4>2, <2>2
        <4> QED BY <4>2, <4>3, <4>4, <2>4
      <3> QED BY <3>1, <3>2
    <2> QED BY <2>1, <2>3, <2>6 DEF c
  <1> HIDE DEF T
  <1>6. \A m \in 0 .. n : m \in T
    BY <1>0, <1>4, <1>5, Induction
  <1>7. n \in T
    BY <1>0, <1>6
  <1>8. f[n] \in Seq(B)
    BY <1>0, <1>2
  <1> QED BY <1>1, <1>7, <1>8 DEF T, n, Placed

\* A record is its segments, each where Offset says.
LEMMA RecordPlaces ==
  ASSUME NEW l \in Layer, NEW e \in 1 .. NE
  PROVE  /\ ExpertRecord(l, e) \in Seq(Byte) /\ Len(ExpertRecord(l, e)) = Stride
         /\ \A i \in 1 .. N : \A j \in 1 .. Size[SegSeq[i]] :
              ExpertRecord(l, e)[End(i - 1) + j] = <<l, e, SegSeq[i], j>>
  <1> DEFINE part(i) == [j \in 1 .. Size[SegSeq[i]] |-> <<l, e, SegSeq[i], j>>]
             ss == [i \in DOMAIN SegSeq |-> part(i)]
             E == [i \in 0 .. N |-> End(i)]
  <1>0. N \in Nat /\ DOMAIN SegSeq = 1 .. N
    BY Ends
  <1>1. ASSUME NEW i \in 1 .. N
        PROVE  part(i) \in Seq(Byte) /\ Len(part(i)) = Size[SegSeq[i]]
    <2>1. SegSeq[i] \in Segs /\ Size[SegSeq[i]] \in Nat
      BY SizeIsNat
    <2>2. \A j \in 1 .. Size[SegSeq[i]] : <<l, e, SegSeq[i], j>> \in Byte
      BY <2>1 DEF Byte
    <2>3. part(i) \in [1 .. Size[SegSeq[i]] -> Byte]
      BY <2>2
    <2> QED BY <2>1, <2>3
  <1> HIDE DEF part
  <1>2. ss \in Seq(Seq(Byte)) /\ Len(ss) = N
    <2>1. ss \in [1 .. N -> Seq(Byte)]
      BY <1>0, <1>1
    <2> QED BY <2>1, <1>0
  <1>3. Marks(ss, E)
    <2>1. E \in [0 .. N -> Nat] /\ E[0] = 0
      BY Ends, <1>0
    <2>2. ASSUME NEW i \in 1 .. N PROVE E[i] = E[i - 1] + Len(ss[i])
      <3>1. i \in 0 .. N /\ i - 1 \in 0 .. N /\ ss[i] = part(i)
        BY <1>0
      <3>2. End(i) = End(i - 1) + Size[SegSeq[i]]
        BY Ends
      <3> QED BY <3>1, <3>2, <1>1
    <2> HIDE DEF ss, E
    <2> QED BY <1>2, <2>1, <2>2 DEF Marks
  <1>4. ExpertRecord(l, e) = FlattenSeq(ss)
    BY DEF ExpertRecord, part
  <1> DEFINE r == FlattenSeq(ss)
  <1>5. /\ r \in Seq(Byte) /\ Len(r) = E[Len(ss)]
        /\ \A i \in 1 .. Len(ss) : \A j \in 1 .. Len(ss[i]) :
              E[i - 1] + j \in 1 .. E[Len(ss)] /\ r[E[i - 1] + j] = ss[i][j]
    <2> HIDE DEF ss, E, r
    <2>1. ss \in Seq(Seq(Byte)) /\ Marks(ss, E)
      BY <1>2, <1>3
    <2>2. Placed(Byte, ss, E)
      BY <2>1, FlattenPlaces
    <2> QED BY <2>2 DEF r, Placed
  <1>6. E[N] = Stride
    BY Ends, <1>0
  <1>7. ASSUME NEW i \in 1 .. N, NEW j \in 1 .. Size[SegSeq[i]]
        PROVE  r[End(i - 1) + j] = <<l, e, SegSeq[i], j>>
    <2>1. E[i - 1] = End(i - 1) /\ ss[i] = part(i)
      BY <1>0
    <2>2. j \in 1 .. Len(ss[i]) /\ ss[i][j] = <<l, e, SegSeq[i], j>>
      BY <2>1, <1>1 DEF part
    <2> HIDE DEF r, ss, E
    <2> QED BY <2>1, <2>2, <1>2, <1>5
  <1> HIDE DEF r, ss, E
  <1> QED BY <1>2, <1>4, <1>5, <1>6, <1>7 DEF r

\* The e-th stretch of Stride bytes.
LEMMA Slice ==
  ASSUME NEW b, NEW e \in 1 .. NE, NEW R \in Seq(Byte), Len(R) = Stride,
         \A q \in 1 .. Stride : b[(e - 1) * Stride + q] = R[q]
  PROVE  SubSeq(b, (e - 1) * Stride + 1, e * Stride) = R
  <1> DEFINE x == (e - 1) * Stride
             y == e * Stride
             r == SubSeq(b, x + 1, y)
  <1>0. x \in Nat /\ y = x + Stride /\ Stride \in Nat
    <2>1. Stride \in Nat /\ e \in Nat /\ e - 1 \in Nat
      BY Ends, BundleAssumption
    <2> QED BY <2>1, Monotone
  <1>1. \A q \in 1 .. Stride : b[x + q] = R[q]
    OBVIOUS
  <1> HIDE DEF x, y
  <1>2. \A i \in x + 1 .. y : b[i] \in Byte
    <2> SUFFICES ASSUME NEW i \in x + 1 .. y PROVE b[i] \in Byte
      OBVIOUS
    <2>1. i - x \in 1 .. Stride /\ x + (i - x) = i
      BY <1>0
    <2>2. b[i] = R[i - x]
      BY <2>1, <1>1
    <2>3. R[i - x] \in Byte
      BY <2>1
    <2> QED BY <2>2, <2>3
  <1>3. /\ r \in Seq(Byte)
        /\ Len(r) = IF x + 1 <= y THEN y - (x + 1) + 1 ELSE 0
        /\ \A i \in 1 .. y - (x + 1) + 1 : r[i] = b[(x + 1) + i - 1]
    BY <1>0, <1>2, SubSeqProperties
  <1>4. Len(r) = Stride
    BY <1>0, <1>3
  <1>5. ASSUME NEW i \in 1 .. Stride PROVE r[i] = R[i]
    <2>1. i \in 1 .. y - (x + 1) + 1 /\ (x + 1) + i - 1 = x + i
      BY <1>0
    <2> HIDE DEF r
    <2> QED BY <2>1, <1>1, <1>3
  <1>6. r = R
    <2> HIDE DEF r
    <2> QED BY <1>3, <1>4, <1>5
  <1> QED BY <1>6 DEF x, y

\* A blob with every tensor written holds the records of the experts.
LEMMA BlobSlices ==
  ASSUME NEW b \in Blob, NEW l \in Layer, \A i \in 1 .. N : Written(b, l, i), NEW e \in 1 .. NE
  PROVE  SubSeq(b, (e - 1) * Stride + 1, e * Stride) = ExpertRecord(l, e)
  <1> DEFINE R == ExpertRecord(l, e)
  <1>1. /\ R \in Seq(Byte) /\ Len(R) = Stride
        /\ \A i \in 1 .. N : \A j \in 1 .. Size[SegSeq[i]] : R[End(i - 1) + j] = <<l, e, SegSeq[i], j>>
    BY RecordPlaces
  <1>2. ASSUME NEW q \in 1 .. Stride PROVE b[(e - 1) * Stride + q] = R[q]
    <2>1. PICK i \in 1 .. N : \E j \in 1 .. Size[SegSeq[i]] : q = End(i - 1) + j
      BY Covered
    <2>2. PICK j \in 1 .. Size[SegSeq[i]] : q = End(i - 1) + j
      BY <2>1
    <2>3. (e - 1) * Stride + q = Pos(e, i) + j
      <3>1. (e - 1) * Stride \in Nat
        <4>1. e - 1 \in Nat /\ Stride \in Nat
          BY Ends, BundleAssumption
        <4> QED BY <4>1, Monotone
      <3>2. End(i - 1) \in Nat /\ j \in Nat
        BY Ends, SizeIsNat
      <3> DEFINE x == (e - 1) * Stride
      <3>3. x \in Nat
        BY <3>1
      <3> HIDE DEF x
      <3> QED BY <3>2, <3>3, <2>2 DEF Pos, x
    <2>4. b[Pos(e, i) + j] = <<l, e, SegSeq[i], j>>
      BY DEF Written
    <2> HIDE DEF R
    <2> QED BY <2>2, <2>3, <2>4, <1>1
  <1> HIDE DEF R
  <1>3. SubSeq(b, (e - 1) * Stride + 1, e * Stride) = R
    BY <1>1, <1>2, Slice
  <1> QED BY <1>3 DEF R

MtpBlob == FlattenSeq([e \in 1 .. NE |-> ExpertRecord(MTP, e)])

\* The blob of the MTP experts holds their records.
LEMMA MtpSlices ==
  ASSUME NEW e \in 1 .. NE
  PROVE  SubSeq(MtpBlob, (e - 1) * Stride + 1, e * Stride) = ExpertRecord(MTP, e)
  <1> DEFINE ss == [d \in 1 .. NE |-> ExpertRecord(MTP, d)]
             E == [d \in 0 .. NE |-> d * Stride]
  <1>0. NE \in Nat \ {0} /\ Stride \in Nat /\ MTP \in Layer
    BY Ends, BundleAssumption DEF Layer
  <1>1. ASSUME NEW d \in 1 .. NE PROVE ss[d] \in Seq(Byte) /\ Len(ss[d]) = Stride
    BY <1>0, RecordPlaces
  <1>2. ss \in Seq(Seq(Byte)) /\ Len(ss) = NE
    <2> HIDE DEF Byte
    <2>1. ss \in [1 .. NE -> Seq(Byte)]
      BY <1>1
    <2> QED BY <2>1, <1>0
  <1>3. Marks(ss, E)
    <2>1. E \in [0 .. NE -> Nat]
      BY <1>0, Monotone
    <2>2. E[0] = 0
      BY <1>0
    <2>3. ASSUME NEW d \in 1 .. NE PROVE E[d] = E[d - 1] + Len(ss[d])
      <3>1. d - 1 \in 0 .. NE /\ d \in 0 .. NE
        BY <1>0
      <3>2. d * Stride = (d - 1) * Stride + Stride
        BY <1>0
      <3> QED BY <3>1, <3>2, <1>1
    <2> HIDE DEF ss, E
    <2> QED BY <1>2, <2>1, <2>2, <2>3 DEF Marks
  <1> DEFINE b == FlattenSeq(ss)
  <1>4. \A d \in 1 .. NE : \A q \in 1 .. Len(ss[d]) : b[E[d - 1] + q] = ss[d][q]
    <2> HIDE DEF ss, E
    <2>0. Placed(Byte, ss, E)
      BY <1>2, <1>3, FlattenPlaces
    <2>1. \A d \in 1 .. Len(ss) : \A q \in 1 .. Len(ss[d]) :
             E[d - 1] + q \in 1 .. E[Len(ss)] /\ b[E[d - 1] + q] = ss[d][q]
      BY <2>0 DEF Placed
    <2> HIDE DEF b
    <2> QED BY <1>2, <2>1
  <1>5. ASSUME NEW q \in 1 .. Stride PROVE b[(e - 1) * Stride + q] = ss[e][q]
    <2>1. E[e - 1] = (e - 1) * Stride /\ q \in 1 .. Len(ss[e])
      BY <1>0, <1>1
    <2> HIDE DEF ss, b, E
    <2> QED BY <2>1, <1>4
  <1>6. ss[e] \in Seq(Byte) /\ Len(ss[e]) = Stride /\ ss[e] = ExpertRecord(MTP, e)
    BY <1>1
  <1>7. SubSeq(b, (e - 1) * Stride + 1, e * Stride) = ss[e]
    <2> HIDE DEF ss, b, E
    <2> QED BY <1>5, <1>6, Slice
  <1> QED BY <1>6, <1>7 DEF MtpBlob

\* ... and every byte of them.
LEMMA BlobBytes ==
  ASSUME NEW b \in Blob, NEW l \in Layer, NEW i \in 1 .. N, Written(b, l, i),
         NEW e \in 1 .. NE, NEW j \in 1 .. Size[SegSeq[i]]
  PROVE  <<l, e, SegSeq[i], j>> \in ToSet(b)
  <1>1. Pos(e, i) + j \in DOMAIN b
    BY Inside DEF Blob
  <1>2. b[Pos(e, i) + j] = <<l, e, SegSeq[i], j>>
    BY DEF Written
  <1> QED BY <1>1, <1>2 DEF ToSet
-----------------------------------------------------------------------------
(* RuntimeBundle: the inductive invariant and its steps.                   *)

\* The values of the variables.
Dirs == Outputs \cup (Outputs \X Pids)
Keys == UNION {UNION {s.has[f] : f \in Shards} : s \in Sources}
Blobs == UNION {[D -> Blob] : D \in SUBSET Nat}
BundleRec == [core : SUBSET Core, blobs : Blobs, mtpCore : BOOLEAN, mtpBlob : {<<>>, MtpBlob},
              marker : SUBSET Shards, status : {Nothing, "ready_for_verification", "verified"},
              created : Runs \cup {Nothing}]
Live == {"build", "shards", "mtp", "verify", "publish"}
RunRec == [pc : {"new", "download", "stage", "clean", "done", "failed", "refused"} \cup Live,
           out : Outputs \cup {Nothing}, pid : Pids \cup {Nothing}, keep : BOOLEAN,
           shards : SUBSET Shards, todo : SUBSET (Shards \cup {MTP}), seen : SUBSET Keys]

NothingIsNoBundle == Nothing \notin BundleRec

TypesOK ==
    /\ source \in Sources
    /\ files \subseteq Shards \cup {MTP}
    /\ dirs \in [Dirs -> {Nothing} \cup BundleRec]
    /\ run \in [Runs -> RunRec]

\* While the shards are read: what has been read is in the bundle.
Filling(u, b) ==
    /\ u.shards # {} /\ u.todo \subseteq u.shards
    /\ \A f \in u.shards \ u.todo :
         source.has[f] \cap Core \subseteq b.core /\ source.has[f] \ Core \subseteq u.seen
    /\ \A l \in DOMAIN b.blobs, i \in 1 .. N :
         <<l, SegSeq[i]>> \in u.seen => Written(b.blobs[l], l, i)

\* Every tensor of the shards that the marker names.
Full(b) ==
    /\ b.marker # {}
    /\ \A f \in b.marker :
         source.has[f] \cap Core \subseteq b.core /\ source.has[f] \ Core \subseteq (DOMAIN b.blobs) \X Segs
    /\ \A l \in DOMAIN b.blobs, i \in 1 .. N : Written(b.blobs[l], l, i)

Whole(b) == Full(b) /\ b.status = "verified" /\ b.mtpCore /\ b.mtpBlob = MtpBlob

PhaseOK(u, b) ==
    /\ u.pc \in Live => u.out \in Outputs /\ u.pid \in Pids /\ b \in BundleRec
    /\ u.pc = "shards" => Filling(u, b)
    /\ u.pc \in {"mtp", "verify", "publish"} => b.marker = u.shards /\ Full(b)
    /\ u.pc \in {"verify", "publish"} => b.mtpCore /\ b.mtpBlob = MtpBlob
    /\ u.pc = "publish" => b.status = "verified"

CleanOK(u) == u.pc = "clean" =>
    u.out \in Outputs /\ dirs[u.out] # Nothing /\ u.todo \subseteq dirs[u.out].marker \cup {MTP}

RunOK(r) ==
    /\ PhaseOK(run[r], Bundle(r))
    /\ CleanOK(run[r])
    /\ run[r].pc \in {"download", "stage"} => run[r].out \in Outputs

\* Two runs at work have different process ids.
Alone == \A r, q \in Runs : run[r].pc \in Live /\ run[q].pc \in Live /\ r # q => run[r].pid # run[q].pid

RemovedKept == \A f \in source.files \ files : \E o \in Outputs : dirs[o] # Nothing /\ f \in dirs[o].marker

AllWhole == \A o \in Outputs : dirs[o] # Nothing => Whole(dirs[o])

RunsOK == \A r \in Runs : RunOK(r)

BundleInv == TypesOK /\ RunsOK /\ Alone /\ AllWhole /\ RemovedKept

\* What BundleAssumption says of the source that was chosen.
LEMMA SourceFacts ==
  ASSUME source \in Sources
  PROVE  /\ DOMAIN source.has = Shards
         /\ source.files \subseteq Shards /\ source.remote \subseteq Shards
         /\ source.index # Nothing => {source.index[k] : k \in DOMAIN source.index} \subseteq Shards
         /\ \A f \in Shards : source.has[f] \subseteq Keys
         /\ \A f \in Shards : \A k \in source.has[f] \ Core : k[1] \in Nat /\ k[2] \in Segs
  <1>1. /\ DOMAIN source.has = Shards
        /\ source.files \cup source.remote \subseteq Shards
        /\ source.index = Nothing \/ {source.index[k] : k \in DOMAIN source.index} \subseteq Shards
        /\ \A k \in UNION {source.has[f] : f \in Shards} : k \in Core \/ (k[1] \in Nat /\ k[2] \in Segs)
    BY BundleAssumption, Zenon
  <1>2. \A f \in Shards : source.has[f] \subseteq Keys
    <2> SUFFICES ASSUME NEW f \in Shards, NEW k \in source.has[f] PROVE k \in Keys
      OBVIOUS
    <2>1. k \in UNION {source.has[g] : g \in Shards}
      OBVIOUS
    <2> QED BY <2>1 DEF Keys
  <1>3. \A f \in Shards : \A k \in source.has[f] \ Core : k[1] \in Nat /\ k[2] \in Segs
    BY <1>1
  <1> QED BY <1>1, <1>2, <1>3

\* The listed files, and the tensors they are listed for.
LEMMA ListedFacts ==
  ASSUME source \in Sources, files \subseteq Shards \cup {MTP}, Expected # {}
  PROVE  Listed \subseteq Shards /\ Listed # {}
  <1>1. CASE source.index = Nothing
    <2>1. Listed = files \ {MTP} /\ KeysListed = UNION {source.has[f] : f \in files \ {MTP}}
      BY <1>1 DEF Listed, KeysListed
    <2>2. Listed = {} => KeysListed = {}
      BY <2>1
    <2> QED BY <2>1, <2>2 DEF Expected
  <1>2. CASE source.index # Nothing
    <2>1. Listed = {source.index[k] : k \in DOMAIN source.index} /\ KeysListed = DOMAIN source.index
      BY <1>2 DEF Listed, KeysListed
    <2>2. Listed \subseteq Shards
      BY <1>2, <2>1, SourceFacts
    <2>3. PICK k \in DOMAIN source.index : TRUE
      BY <2>1 DEF Expected
    <2> QED BY <2>1, <2>2, <2>3
  <1> QED BY <1>1, <1>2

\* A run that does nothing, while another changes its own staging directory
\* or publishes it.
LEMMA Others ==
  ASSUME NEW q \in Runs, run[q] \in RunRec, RunOK(q), run'[q] = run[q], source' = source,
         \A d \in Dirs : (run[q].pc \in Live /\ d = Staging(q)) \/ (d \in Outputs /\ dirs[d] # Nothing)
                         => dirs'[d] = dirs[d]
  PROVE  RunOK(q)'
  <1>1. ASSUME run[q].pc \in Live PROVE Bundle(q)' = Bundle(q)
    <2>1. Staging(q) \in Dirs
      BY <1>1 DEF RunOK, PhaseOK, Staging, Dirs
    <2>2. Staging(q)' = Staging(q)
      BY DEF Staging
    <2> QED BY <1>1, <2>1, <2>2 DEF Bundle
  <1>2. CleanOK(run[q])'
    <2> SUFFICES ASSUME run[q].pc = "clean"
                 PROVE  run[q].out \in Outputs /\ dirs'[run[q].out] = dirs[run[q].out] /\ dirs[run[q].out] # Nothing
                        /\ run[q].todo \subseteq dirs[run[q].out].marker \cup {MTP}
      BY DEF CleanOK
    <2>1. run[q].out \in Outputs /\ dirs[run[q].out] # Nothing /\ run[q].todo \subseteq dirs[run[q].out].marker \cup {MTP}
      BY DEF RunOK, CleanOK
    <2> QED BY <2>1 DEF Dirs
  <1>3. ASSUME run[q].pc \notin Live PROVE PhaseOK(run[q], Bundle(q))'
    BY <1>3 DEF PhaseOK, Live
  <1>4. ASSUME run[q].pc \in Live PROVE PhaseOK(run[q], Bundle(q))'
    <2>1. PhaseOK(run[q], Bundle(q)) /\ Bundle(q)' = Bundle(q)
      BY <1>1, <1>4 DEF RunOK
    <2> HIDE DEF Bundle
    <2> DEFINE b == Bundle(q)
    <2>2. /\ Filling(run[q], b)' = Filling(run[q], b)
          /\ Full(b)' = Full(b)
      BY <2>1 DEF Filling, Full
    <2> QED BY <2>1, <2>2 DEF PhaseOK
  <1> QED BY <1>2, <1>3, <1>4 DEF RunOK

\* What every step has to show.
LEMMA Step ==
  ASSUME BundleInv, NEW r \in Runs, source' = source, NEW u \in RunRec, run' = [run EXCEPT ![r] = u],
         dirs' \in [Dirs -> {Nothing} \cup BundleRec],
         files' \subseteq Shards \cup {MTP},
         \A d \in Dirs : dirs'[d] = dirs[d] \/ (run[r].pc \in Live /\ d = Staging(r))
                         \/ (u.pc = "build" /\ d = <<u.out, u.pid>>) \/ (d \in Outputs /\ dirs[d] = Nothing),
         RunOK(r)',
         u.pc \in Live => /\ u.pid \in Pids
                          /\ \A q \in Runs : q # r /\ run[q].pc \in Live => u.pid # run[q].pid,
         AllWhole', RemovedKept'
  PROVE  BundleInv'
  <1>1. TypesOK'
    BY DEF BundleInv, TypesOK
  <1>2. ASSUME NEW q \in Runs, q # r PROVE RunOK(q)'
    <2>1. run'[q] = run[q] /\ run[q] \in RunRec /\ RunOK(q)
      BY <1>2 DEF BundleInv, TypesOK, RunsOK
    <2>2. ASSUME NEW d \in Dirs, (run[q].pc \in Live /\ d = Staging(q)) \/ (d \in Outputs /\ dirs[d] # Nothing)
          PROVE  dirs'[d] = dirs[d]
      <3>1. CASE d \in Outputs /\ dirs[d] # Nothing
        <4>1. d \notin Outputs \X Pids
          BY <3>1, BundleAssumption
        <4>2. run[r].pc \in Live => Staging(r) \in Outputs \X Pids
          BY DEF BundleInv, RunsOK, RunOK, PhaseOK, Staging
        <4>3. u.pc = "build" => <<u.out, u.pid>> \in Outputs \X Pids
          <5>1. run'[r] = u
            BY DEF BundleInv, TypesOK
          <5> QED BY <5>1 DEF RunOK, PhaseOK, Live
        <4> QED BY <3>1, <4>1, <4>2, <4>3
      <3>2. CASE run[q].pc \in Live /\ d = Staging(q)
        <4>1. d \in Outputs \X Pids /\ d \notin Outputs
          BY <3>2, <2>1, BundleAssumption DEF RunOK, PhaseOK, Staging
        <4>2. run[r].pc \in Live => d # Staging(r)
          BY <3>2, <1>2 DEF BundleInv, Alone, Staging
        <4>3. u.pc = "build" => d # <<u.out, u.pid>>
          BY <3>2, <1>2 DEF Staging, Live
        <4> QED BY <4>1, <4>2, <4>3
      <3> QED BY <2>2, <3>1, <3>2
    <2> QED BY <2>1, <2>2, Others
  <1>3. RunsOK'
    BY <1>2 DEF RunsOK
  <1>4. Alone'
    <2>1. run \in [Runs -> RunRec] /\ Alone
      BY DEF BundleInv, TypesOK
    <2>2. \A q \in Runs : run'[q] = IF q = r THEN u ELSE run[q]
      BY <2>1
    <2> QED BY <2>1, <2>2 DEF Alone
  <1> QED BY <1>1, <1>3, <1>4 DEF BundleInv

\* A step after which the run has no staging directory.
LEMMA Quiet ==
  ASSUME BundleInv, NEW r \in Runs, source' = source, dirs' = dirs, files \subseteq files',
         files' \subseteq Shards \cup {MTP}, NEW u \in RunRec, run' = [run EXCEPT ![r] = u],
         u.pc \in {"download", "stage", "refused", "failed", "done"},
         u.pc \in {"download", "stage"} => u.out \in Outputs
  PROVE  BundleInv'
  <1>1. dirs \in [Dirs -> {Nothing} \cup BundleRec] /\ run'[r] = u
    BY DEF BundleInv, TypesOK
  <1>2. RunOK(r)'
    BY <1>1 DEF RunOK, PhaseOK, CleanOK, Live
  <1>3. AllWhole'
    <2>1. AllWhole
      BY DEF BundleInv
    <2> QED BY <2>1 DEF AllWhole, Whole, Full
  <1>4. RemovedKept'
    <2>1. RemovedKept
      BY DEF BundleInv
    <2> QED BY <2>1 DEF RemovedKept
  <1>5. u.pc \notin Live /\ u.pc # "build"
    BY DEF Live
  <1> QED BY <1>1, <1>2, <1>3, <1>4, <1>5, Step

\* Steps that only move the program counter.
LEMMA GotoQuiet ==
  ASSUME BundleInv, NEW r \in Runs, NEW pc \in {"stage", "refused", "failed", "done"}, Goto(r, pc),
         pc = "stage" => At(r, "download"), UNCHANGED <<source, files, dirs>>
  PROVE  BundleInv'
  <1> DEFINE u == [run[r] EXCEPT !.pc = pc]
  <1>1. run \in [Runs -> RunRec] /\ files \subseteq Shards \cup {MTP}
    BY DEF BundleInv, TypesOK
  <1>2. run' = [run EXCEPT ![r] = u] /\ u \in RunRec /\ u.pc = pc /\ u.out = run[r].out
    BY <1>1 DEF Goto, RunRec
  <1>3. pc = "stage" => run[r].out \in Outputs
    BY DEF At, BundleInv, RunsOK, RunOK
  <1> HIDE DEF u
  <1> QED BY <1>1, <1>2, <1>3, Quiet

\* Begin.
LEMMA BeginStep ==
  ASSUME BundleInv, NEW r \in Runs, NEW out \in Outputs, NEW keep \in BOOLEAN, NEW download \in BOOLEAN,
         Begin(r, out, keep, download)
  PROVE  BundleInv'
  <1>1. CASE dirs[out] # Nothing
    BY <1>1, GotoQuiet DEF Begin, Refuse
  <1>2. CASE dirs[out] = Nothing
    <2> DEFINE u == [run[r] EXCEPT !.pc = IF download THEN "download" ELSE "stage", !.out = out, !.keep = keep]
    <2>1. run \in [Runs -> RunRec] /\ files \subseteq Shards \cup {MTP}
      BY DEF BundleInv, TypesOK
    <2>2. run' = [run EXCEPT ![r] = u] /\ UNCHANGED <<source, files, dirs>>
      BY <1>2, <2>1 DEF Begin
    <2>3. u \in RunRec /\ u.pc \in {"download", "stage"} /\ u.out \in Outputs
      BY <2>1 DEF RunRec
    <2> HIDE DEF u
    <2> QED BY <2>1, <2>2, <2>3, Quiet
  <1> QED BY <1>1, <1>2

\* Fetch.
LEMMA FetchStep ==
  ASSUME BundleInv, NEW r \in Runs, NEW f \in source.remote \cup {MTP}, Fetch(r, f)
  PROVE  BundleInv'
  <1>1. run \in [Runs -> RunRec] /\ files \subseteq Shards \cup {MTP} /\ source \in Sources
    BY DEF BundleInv, TypesOK
  <1>2. f \in Shards \cup {MTP}
    BY <1>1, SourceFacts
  <1>3. run' = [run EXCEPT ![r] = run[r]] /\ UNCHANGED <<source, dirs>> /\ files' = files \cup {f}
    BY <1>1 DEF Fetch
  <1>4. run[r].pc = "download" /\ run[r].out \in Outputs /\ run[r] \in RunRec
    BY <1>1 DEF Fetch, At, BundleInv, RunsOK, RunOK
  <1> QED BY <1>1, <1>2, <1>3, <1>4, Quiet

\* Stage.
LEMMA StageStep ==
  ASSUME BundleInv, NEW r \in Runs, NEW pid \in Pids, Stage(r, pid)
  PROVE  BundleInv'
  <1> DEFINE refuse == \/ MTP \notin files \/ Listed = {} \/ ~(Listed \subseteq files)
                       \/ dirs[<<run[r].out, pid>>] # Nothing
                       \/ Cardinality({d \in DOMAIN dirs : dirs[d] # Nothing}) >= source.space
  <1>1. CASE refuse
    BY <1>1, GotoQuiet DEF Stage, Refuse
  <1>2. CASE ~refuse
    <2> DEFINE u == [run[r] EXCEPT !.pc = "build", !.pid = pid]
               b == [core |-> {}, blobs |-> <<>>, mtpCore |-> FALSE, mtpBlob |-> <<>>,
                    marker |-> {}, status |-> Nothing, created |-> Nothing]
               st == <<run[r].out, pid>>
    <2>1. /\ run \in [Runs -> RunRec] /\ files \subseteq Shards \cup {MTP}
          /\ dirs \in [Dirs -> {Nothing} \cup BundleRec]
      BY DEF BundleInv, TypesOK
    <2>2. run' = [run EXCEPT ![r] = u] /\ UNCHANGED <<source, files>> /\ dirs' = [dirs EXCEPT ![st] = b]
      BY <1>2, <2>1 DEF Stage
    <2>3. run[r].out \in Outputs
      BY DEF Stage, At, BundleInv, RunsOK, RunOK
    <2>4. u \in RunRec /\ u.pc = "build" /\ u.out = run[r].out /\ u.pid = pid
      BY <2>1 DEF RunRec, Live
    <2>5. b \in BundleRec
      <3>1. <<>> \in Blobs
        <4>1. <<>> \in [{} -> Blob]
          OBVIOUS
        <4> QED BY <4>1 DEF Blobs
      <3> QED BY <3>1 DEF BundleRec
    <2>6. \A q \in Runs : q # r /\ run[q].pc \in Live => pid # run[q].pid
      BY DEF Stage, Live
    <2>7. st \in Dirs /\ st \notin Outputs
      BY <2>3, BundleAssumption DEF Dirs
    <2> HIDE DEF b, u
    <2>8. RunOK(r)'
      <3>1. run'[r] = u
        BY <2>1, <2>2
      <3>2. Bundle(r)' = b
        BY <3>1, <2>1, <2>2, <2>4, <2>7 DEF Bundle, Staging
      <3> HIDE DEF Bundle
      <3> QED BY <3>1, <3>2, <2>3, <2>4, <2>5 DEF RunOK, PhaseOK, CleanOK
    <2>9. dirs' \in [Dirs -> {Nothing} \cup BundleRec] /\ \A d \in Dirs : d # st => dirs'[d] = dirs[d]
      BY <2>1, <2>2, <2>5
    <2>10. AllWhole' /\ RemovedKept'
      <3>1. AllWhole /\ RemovedKept /\ \A o \in Outputs : dirs'[o] = dirs[o]
        BY <2>7, <2>9 DEF BundleInv, Dirs
      <3> QED BY <3>1, <2>2 DEF AllWhole, RemovedKept, Whole, Full
    <2> QED BY <2>1, <2>2, <2>4, <2>6, <2>8, <2>9, <2>10, Step
  <1> QED BY <1>1, <1>2

\* A step of a run on its own staging directory.
LEMMA Work ==
  ASSUME BundleInv, NEW r \in Runs, run[r].pc \in Live, NEW u \in RunRec, NEW b \in BundleRec,
         u.pc \in Live, u.out = run[r].out, u.pid = run[r].pid,
         run' = [run EXCEPT ![r] = u], dirs' = [dirs EXCEPT ![Staging(r)] = b],
         source' = source, files' = files, PhaseOK(u, b)
  PROVE  BundleInv'
  <1>1. /\ run \in [Runs -> RunRec] /\ files \subseteq Shards \cup {MTP}
        /\ dirs \in [Dirs -> {Nothing} \cup BundleRec]
    BY DEF BundleInv, TypesOK
  <1>2. run[r].out \in Outputs /\ run[r].pid \in Pids
    BY DEF BundleInv, RunsOK, RunOK, PhaseOK
  <1>3. Staging(r) \in Dirs /\ Staging(r) \notin Outputs
    BY <1>2, BundleAssumption DEF Dirs, Staging
  <1>4. run'[r] = u /\ Staging(r)' = Staging(r)
    BY <1>1 DEF Staging
  <1>5. Bundle(r)' = b
    BY <1>1, <1>3, <1>4 DEF Bundle
  <1>6. RunOK(r)'
    <2>1. PhaseOK(u, b)'
      BY DEF PhaseOK, Filling, Full
    <2> HIDE DEF Bundle
    <2>2. u.pc \notin {"clean", "download", "stage"}
      BY DEF Live
    <2> HIDE DEF PhaseOK
    <2> QED BY <1>4, <1>5, <2>1, <2>2 DEF RunOK, CleanOK
  <1>7. dirs' \in [Dirs -> {Nothing} \cup BundleRec] /\ \A d \in Dirs : d # Staging(r) => dirs'[d] = dirs[d]
    BY <1>1
  <1>8. AllWhole' /\ RemovedKept'
    <2>1. AllWhole /\ RemovedKept /\ \A o \in Outputs : dirs'[o] = dirs[o]
      BY <1>3, <1>7 DEF BundleInv, Dirs
    <2> QED BY <2>1 DEF AllWhole, RemovedKept, Whole, Full
  <1>9. \A q \in Runs : q # r /\ run[q].pc \in Live => u.pid # run[q].pid
    BY DEF BundleInv, Alone
  <1> QED BY <1>1, <1>2, <1>6, <1>7, <1>8, <1>9, Step

\* A run at work has its own staging directory.
LEMMA AtWork ==
  ASSUME BundleInv, NEW r \in Runs, run[r].pc \in Live
  PROVE  /\ run \in [Runs -> RunRec] /\ run[r] \in RunRec /\ source \in Sources
         /\ files \subseteq Shards \cup {MTP}
         /\ Bundle(r) \in BundleRec /\ PhaseOK(run[r], Bundle(r))
  BY DEF BundleInv, TypesOK, RunsOK, RunOK, PhaseOK

\* BuildStart.
LEMMA BuildStartStep ==
  ASSUME BundleInv, NEW r \in Runs, BuildStart(r)
  PROVE  BundleInv'
  <1> DEFINE fail == \/ ~(Listed \subseteq files) \/ Expected = {}
                     \/ LayersOf(Expected) # 0 .. source.nlayers - 1
                     \/ Expected # Required(Expected)
  <1>1. CASE fail
    BY <1>1, GotoQuiet DEF BuildStart, Fail
  <1>2. CASE ~fail
    <2> DEFINE D == LayersOf(Expected)
               b == [Bundle(r) EXCEPT !.blobs = [l \in D |-> Blank]]
               u == [run[r] EXCEPT !.pc = "shards", !.shards = Listed, !.todo = Listed, !.seen = {}]
    <2>1. run[r].pc = "build" /\ run[r].pc \in Live
      BY DEF BuildStart, At, Live
    <2>2. /\ run \in [Runs -> RunRec] /\ run[r] \in RunRec /\ source \in Sources
          /\ files \subseteq Shards \cup {MTP}
          /\ Bundle(r) \in BundleRec
      BY <2>1, AtWork
    <2>3. Listed \subseteq Shards /\ Listed # {} /\ D \subseteq Nat
      <3>1. D = 0 .. source.nlayers - 1 /\ source.nlayers \in Nat
        BY <1>2, <2>2, BundleAssumption
      <3> HIDE DEF D
      <3> QED BY <1>2, <2>2, <3>1, ListedFacts
    <2>4. [l \in D |-> Blank] \in Blobs
      <3>1. Blank \in Blob
        BY DEF Blank, Blob, Byte
      <3> HIDE DEF D
      <3>2. [l \in D |-> Blank] \in [D -> Blob]
        BY <3>1
      <3> QED BY <3>2, <2>3 DEF Blobs
    <2>5. b \in BundleRec
      <3> HIDE DEF D
      <3> QED BY <2>2, <2>4 DEF BundleRec
    <2>6. /\ u \in RunRec /\ u.pc = "shards" /\ u.out = run[r].out /\ u.pid = run[r].pid
          /\ u.shards = Listed /\ u.todo = Listed /\ u.seen = {}
      BY <2>2, <2>3 DEF RunRec, Live
    <2>7. /\ run' = [run EXCEPT ![r] = u] /\ dirs' = [dirs EXCEPT ![Staging(r)] = b]
          /\ UNCHANGED <<source, files>>
      BY <1>2, <2>2 DEF BuildStart, Update
    <2> HIDE DEF u, b
    <2>8. PhaseOK(u, b)
      <3>1. run[r].out \in Outputs /\ run[r].pid \in Pids
        BY <2>1 DEF BundleInv, RunsOK, RunOK, PhaseOK
      <3> QED BY <2>3, <2>5, <2>6, <3>1 DEF PhaseOK, Filling
    <2>9. u.pc \in Live
      BY <2>6 DEF Live
    <2> QED BY <2>1, <2>5, <2>6, <2>7, <2>8, <2>9, Work
  <1> QED BY <1>1, <1>2

\* The tensors of a shard that are written are those the shard has.
LEMMA TensorsOf ==
  ASSUME NEW experts, NEW l, NEW i \in 1 .. N
  PROVE  LET w == Without(SegSeq, Segs \ {s \in Segs : <<l, s>> \in experts})
         IN  w \in Seq(Segs) /\ (<<l, SegSeq[i]>> \in experts => SegSeq[i] \in ToSet(w))
  <1> DEFINE gone == Segs \ {s \in Segs : <<l, s>> \in experts}
             w == Without(SegSeq, gone)
  <1>1. w \in Seq(Segs) /\ ToSet(w) = ToSet(SegSeq) \ gone
    <2>1. SegSeq \in Seq(Segs)
      BY BundleAssumption
    <2> HIDE DEF gone
    <2> QED BY <2>1, WithoutFacts
  <1>2. SegSeq[i] \in Segs /\ SegSeq[i] \in ToSet(SegSeq)
    BY Ends DEF ToSet
  <1> QED BY <1>1, <1>2

\* BuildShard: what was read from the shard is in the bundle.
LEMMA BuildShardStep ==
  ASSUME BundleInv, NEW r \in Runs, NEW f \in Shards, BuildShard(r, f)
  PROVE  BundleInv'
  <1> DEFINE experts == source.has[f] \ Core
             old == Bundle(r)
             D == DOMAIN old.blobs
             w(l) == Without(SegSeq, Segs \ {s \in Segs : <<l, s>> \in experts})
             new(l) == Fill(old.blobs[l], l, w(l))
             fail == f \notin files \/ ~(LayersOf(experts) \subseteq D)
  <1>1. CASE fail
    BY <1>1, GotoQuiet DEF BuildShard, Fail
  <1>2. CASE ~fail
    <2> DEFINE b == [old EXCEPT !.core = @ \cup (source.has[f] \cap Core), !.blobs = [l \in D |-> new(l)]]
               u == [run[r] EXCEPT !.todo = @ \ {f}, !.seen = @ \cup experts]
    <2>1. run[r].pc = "shards" /\ run[r].pc \in Live /\ f \in run[r].todo
      BY DEF BuildShard, At, Live
    <2>2. /\ run \in [Runs -> RunRec] /\ run[r] \in RunRec /\ source \in Sources
          /\ old \in BundleRec /\ PhaseOK(run[r], old)
      BY <2>1, AtWork
    <2>3. Filling(run[r], old) /\ run[r].out \in Outputs /\ run[r].pid \in Pids
      BY <2>1, <2>2 DEF PhaseOK
    <2>4. source.has[f] \subseteq Keys
      BY <2>2, SourceFacts
    <2>5. /\ run' = [run EXCEPT ![r] = u] /\ UNCHANGED <<source, files>>
          /\ dirs' = [dirs EXCEPT ![Staging(r)] = b]
      <3>1. /\ run' = [run EXCEPT ![r].todo = @ \ {f}, ![r].seen = @ \cup experts]
            /\ UNCHANGED <<source, files>> /\ dirs' = [dirs EXCEPT ![Staging(r)] = b]
        BY <1>2 DEF BuildShard, Update
      <3>2. run' = [run EXCEPT ![r] = u]
        BY <2>2, <3>1
      <3> QED BY <3>1, <3>2
    <2>6. old.blobs \in [D -> Blob] /\ D \subseteq Nat
      <3>1. old.blobs \in Blobs
        BY <2>2 DEF BundleRec
      <3> QED BY <3>1 DEF Blobs
    <2>7. ASSUME NEW l \in D
          PROVE  /\ new(l) \in Blob
                 /\ \A i \in 1 .. N : Written(old.blobs[l], l, i) \/ <<l, SegSeq[i]>> \in experts
                                       => Written(new(l), l, i)
      <3>1. l \in Layer /\ old.blobs[l] \in Blob
        BY <2>6 DEF Layer
      <3>2. w(l) \in Seq(Segs)
        BY WithoutFacts, BundleAssumption
      <3>3. \A i \in 1 .. N : <<l, SegSeq[i]>> \in experts => SegSeq[i] \in ToSet(w(l))
        BY TensorsOf
      <3> HIDE DEF w, old, experts
      <3> QED BY <3>1, <3>2, <3>3, FillWrites
    <2> HIDE DEF new
    <2>8. [l \in D |-> new(l)] \in Blobs
      <3>1. [l \in D |-> new(l)] \in [D -> Blob]
        BY <2>7
      <3> QED BY <3>1, <2>6 DEF Blobs
    <2> HIDE DEF experts, old
    <2>9. /\ b \in BundleRec /\ b.core = old.core \cup (source.has[f] \cap Core)
          /\ b.blobs = [l \in D |-> new(l)]
      BY <2>2, <2>8 DEF BundleRec
    <2>10. /\ u \in RunRec /\ u.pc = "shards" /\ u.out = run[r].out /\ u.pid = run[r].pid
           /\ u.shards = run[r].shards /\ u.todo = run[r].todo \ {f} /\ u.seen = run[r].seen \cup experts
      BY <2>1, <2>2, <2>4 DEF RunRec, Live, experts
    <2> HIDE DEF u, b
    <2>11. Filling(u, b)
      <3>1. u.shards # {} /\ u.todo \subseteq u.shards
        BY <2>3, <2>10 DEF Filling
      <3>2. \A g \in u.shards \ u.todo :
              source.has[g] \cap Core \subseteq b.core /\ source.has[g] \ Core \subseteq u.seen
        BY <2>3, <2>9, <2>10 DEF Filling, experts
      <3>3. ASSUME NEW l \in DOMAIN b.blobs, NEW i \in 1 .. N, <<l, SegSeq[i]>> \in u.seen
            PROVE  Written(b.blobs[l], l, i)
        <4>1. l \in D /\ b.blobs[l] = new(l)
          BY <2>9
        <4>2. Written(old.blobs[l], l, i) \/ <<l, SegSeq[i]>> \in experts
          BY <2>3, <2>10, <3>3, <4>1 DEF Filling
        <4> QED BY <4>1, <4>2, <2>7
      <3> QED BY <3>1, <3>2, <3>3 DEF Filling
    <2>12. PhaseOK(u, b) /\ u.pc \in Live
      BY <2>3, <2>9, <2>10, <2>11 DEF PhaseOK, Live
    <2> QED BY <2>1, <2>5, <2>9, <2>10, <2>12, Work
  <1> QED BY <1>1, <1>2

\* BuildEnd: all that was promised has been written.
LEMMA BuildEndStep ==
  ASSUME BundleInv, NEW r \in Runs, BuildEnd(r)
  PROVE  BundleInv'
  <1> DEFINE old == Bundle(r)
             D == DOMAIN old.blobs
  <1>1. CASE run[r].seen # D \X Segs
    BY <1>1, GotoQuiet DEF BuildEnd, Fail
  <1>2. CASE run[r].seen = D \X Segs
    <2> DEFINE b == [old EXCEPT !.marker = run[r].shards]
               u == [run[r] EXCEPT !.pc = "mtp"]
    <2>1. run[r].pc = "shards" /\ run[r].pc \in Live /\ run[r].todo = {}
      BY DEF BuildEnd, At, Live
    <2>2. /\ run \in [Runs -> RunRec] /\ run[r] \in RunRec /\ source \in Sources
          /\ old \in BundleRec /\ PhaseOK(run[r], old)
      BY <2>1, AtWork
    <2>3. Filling(run[r], old) /\ run[r].out \in Outputs /\ run[r].pid \in Pids
      BY <2>1, <2>2 DEF PhaseOK
    <2>4. /\ run' = [run EXCEPT ![r] = u] /\ UNCHANGED <<source, files>>
          /\ dirs' = [dirs EXCEPT ![Staging(r)] = b]
      BY <1>2, <2>2 DEF BuildEnd, Update, Goto
    <2> HIDE DEF old
    <2>5. b \in BundleRec /\ b.core = old.core /\ b.blobs = old.blobs /\ b.marker = run[r].shards
      BY <2>2 DEF BundleRec, RunRec
    <2>6. /\ u \in RunRec /\ u.pc = "mtp" /\ u.out = run[r].out /\ u.pid = run[r].pid
          /\ u.shards = run[r].shards
      BY <2>2 DEF RunRec, Live
    <2> HIDE DEF u, b
    <2>7. Full(b)
      <3>1. ASSUME NEW l \in D, NEW i \in 1 .. N PROVE Written(b.blobs[l], l, i)
        <4>1. <<l, SegSeq[i]>> \in run[r].seen
          BY <1>2, Ends
        <4> QED BY <4>1, <2>3, <2>5 DEF Filling
      <3> QED BY <1>2, <2>1, <2>3, <2>5, <3>1 DEF Filling, Full
    <2>8. PhaseOK(u, b) /\ u.pc \in Live
      BY <2>3, <2>5, <2>6, <2>7 DEF PhaseOK, Live
    <2> QED BY <2>1, <2>4, <2>5, <2>6, <2>8, Work
  <1> QED BY <1>1, <1>2

\* BuildMtp.
LEMMA BuildMtpStep ==
  ASSUME BundleInv, NEW r \in Runs, BuildMtp(r)
  PROVE  BundleInv'
  <1> DEFINE old == Bundle(r)
             fail == MTP \notin files \/ source.mtp # 1 .. NE
  <1>1. CASE fail
    BY <1>1, GotoQuiet DEF BuildMtp, Fail
  <1>2. CASE ~fail
    <2> DEFINE b == [old EXCEPT !.mtpCore = TRUE, !.mtpBlob = MtpBlob,
                                !.status = "ready_for_verification", !.created = r]
               u == [run[r] EXCEPT !.pc = "verify"]
    <2>1. run[r].pc = "mtp" /\ run[r].pc \in Live
      BY DEF BuildMtp, At, Live
    <2>2. /\ run \in [Runs -> RunRec] /\ run[r] \in RunRec /\ source \in Sources
          /\ old \in BundleRec /\ PhaseOK(run[r], old)
      BY <2>1, AtWork
    <2>3. old.marker = run[r].shards /\ Full(old) /\ run[r].out \in Outputs /\ run[r].pid \in Pids
      BY <2>1, <2>2 DEF PhaseOK
    <2>4. /\ run' = [run EXCEPT ![r] = u] /\ UNCHANGED <<source, files>>
          /\ dirs' = [dirs EXCEPT ![Staging(r)] = b]
      BY <1>2, <2>2 DEF BuildMtp, Update, Goto, MtpBlob
    <2> HIDE DEF old
    <2>5. /\ b \in BundleRec /\ b.core = old.core /\ b.blobs = old.blobs /\ b.marker = old.marker
          /\ b.mtpCore /\ b.mtpBlob = MtpBlob
      BY <2>2 DEF BundleRec
    <2>6. /\ u \in RunRec /\ u.pc = "verify" /\ u.out = run[r].out /\ u.pid = run[r].pid
          /\ u.shards = run[r].shards
      BY <2>2 DEF RunRec, Live
    <2> HIDE DEF u, b
    <2>7. Full(b)
      BY <2>3, <2>5 DEF Full
    <2>8. PhaseOK(u, b) /\ u.pc \in Live
      BY <2>3, <2>5, <2>6, <2>7 DEF PhaseOK, Live
    <2> QED BY <2>1, <2>4, <2>5, <2>6, <2>8, Work
  <1> QED BY <1>1, <1>2

\* Verify.
LEMMA VerifyStep ==
  ASSUME BundleInv, NEW r \in Runs, Verify(r)
  PROVE  BundleInv'
  <1> DEFINE old == Bundle(r)
             fail == \/ old.core = {} \/ Len(old.mtpBlob) # Stride * NE
                     \/ \E l \in DOMAIN old.blobs : Len(old.blobs[l]) # Stride * NE
  <1>1. CASE fail
    BY <1>1, GotoQuiet DEF Verify, Fail
  <1>2. CASE ~fail
    <2> DEFINE b == [old EXCEPT !.status = "verified"]
               u == [run[r] EXCEPT !.pc = "publish"]
    <2>1. run[r].pc = "verify" /\ run[r].pc \in Live
      BY DEF Verify, At, Live
    <2>2. /\ run \in [Runs -> RunRec] /\ run[r] \in RunRec /\ source \in Sources
          /\ old \in BundleRec /\ PhaseOK(run[r], old)
      BY <2>1, AtWork
    <2>3. /\ old.marker = run[r].shards /\ Full(old) /\ run[r].out \in Outputs /\ run[r].pid \in Pids
          /\ old.mtpCore /\ old.mtpBlob = MtpBlob
      BY <2>1, <2>2 DEF PhaseOK
    <2>4. /\ run' = [run EXCEPT ![r] = u] /\ UNCHANGED <<source, files>>
          /\ dirs' = [dirs EXCEPT ![Staging(r)] = b]
      BY <1>2, <2>2 DEF Verify, Update, Goto
    <2> HIDE DEF old
    <2>5. /\ b \in BundleRec /\ b.core = old.core /\ b.blobs = old.blobs /\ b.marker = old.marker
          /\ b.mtpCore = old.mtpCore /\ b.mtpBlob = old.mtpBlob /\ b.status = "verified"
      BY <2>2 DEF BundleRec
    <2>6. /\ u \in RunRec /\ u.pc = "publish" /\ u.out = run[r].out /\ u.pid = run[r].pid
          /\ u.shards = run[r].shards
      BY <2>2 DEF RunRec, Live
    <2> HIDE DEF u, b
    <2>7. Full(b)
      BY <2>3, <2>5 DEF Full
    <2>8. PhaseOK(u, b) /\ u.pc \in Live
      BY <2>3, <2>5, <2>6, <2>7 DEF PhaseOK, Live
    <2> QED BY <2>1, <2>4, <2>5, <2>6, <2>8, Work
  <1> QED BY <1>1, <1>2

\* Publish: a name that was free gets a whole bundle.
LEMMA PublishStep ==
  ASSUME BundleInv, NothingIsNoBundle, NEW r \in Runs, Publish(r)
  PROVE  BundleInv'
  <1> DEFINE out == run[r].out
             b == Bundle(r)
  <1>1. CASE dirs[out] # Nothing
    BY <1>1, GotoQuiet DEF Publish, Fail
  <1>2. CASE dirs[out] = Nothing
    <2> DEFINE u == [run[r] EXCEPT !.pc = "clean", !.todo = ToRemove(r)]
    <2>1. run[r].pc = "publish" /\ run[r].pc \in Live
      BY DEF Publish, At, Live
    <2>2. /\ run \in [Runs -> RunRec] /\ run[r] \in RunRec /\ source \in Sources
          /\ b \in BundleRec /\ PhaseOK(run[r], b) /\ files \subseteq Shards \cup {MTP}
      BY <2>1, AtWork
    <2>3. /\ b.marker = run[r].shards /\ Whole(b) /\ out \in Outputs /\ run[r].pid \in Pids
      BY <2>1, <2>2 DEF PhaseOK, Whole
    <2>4. /\ run' = [run EXCEPT ![r] = u] /\ UNCHANGED <<source, files>>
          /\ dirs' = [dirs EXCEPT ![out] = b, ![Staging(r)] = Nothing]
      <3>1. run' = [run EXCEPT ![r].pc = "clean", ![r].todo = ToRemove(r)]
        BY <1>2 DEF Publish
      <3> QED BY <1>2, <2>2, <3>1 DEF Publish, Published
    <2>5. /\ dirs \in [Dirs -> {Nothing} \cup BundleRec] /\ AllWhole /\ RemovedKept
      BY DEF BundleInv, TypesOK
    <2>6. /\ out \in Dirs /\ out \in Outputs /\ Staging(r) \in Dirs /\ Staging(r) \notin Outputs
      BY <2>3, BundleAssumption DEF Dirs, Staging
    <2> HIDE DEF b
    <2>7. /\ dirs' \in [Dirs -> {Nothing} \cup BundleRec] /\ dirs'[out] = b /\ b # Nothing
          /\ \A d \in Dirs : d # out /\ d # Staging(r) => dirs'[d] = dirs[d]
      BY <2>2, <2>4, <2>5, <2>6 DEF NothingIsNoBundle
    <2>8. /\ u \in RunRec /\ u.pc = "clean" /\ u.out = out
          /\ u.todo \subseteq run[r].shards \cup {MTP}
      BY <2>2 DEF RunRec, Live, ToRemove
    <2> HIDE DEF u
    <2>9. RunOK(r)'
      <3>1. run'[r] = u
        BY <2>2, <2>4
      <3> QED BY <3>1, <2>3, <2>6, <2>7, <2>8 DEF RunOK, PhaseOK, CleanOK, Live
    <2>10. \A o \in Outputs : o # out => dirs'[o] = dirs[o]
      BY <2>6, <2>7 DEF Dirs
    <2>11. AllWhole'
      <3> SUFFICES ASSUME NEW o \in Outputs, dirs'[o] # Nothing PROVE Whole(dirs[o])'
        BY DEF AllWhole
      <3>1. CASE o = out
        BY <3>1, <2>3, <2>4, <2>7 DEF Whole, Full
      <3>2. CASE o # out
        <4>1. dirs'[o] = dirs[o] /\ Whole(dirs[o])
          BY <3>2, <2>5, <2>10 DEF AllWhole
        <4> QED BY <4>1, <2>4 DEF Whole, Full
      <3> QED BY <3>1, <3>2
    <2>12. RemovedKept'
      <3>1. \A f \in source.files \ files : \E o \in Outputs : o # out /\ dirs[o] # Nothing /\ f \in dirs[o].marker
        BY <1>2, <2>5 DEF RemovedKept
      <3>2. \A f \in source.files \ files : \E o \in Outputs : dirs'[o] # Nothing /\ f \in dirs'[o].marker
        BY <3>1, <2>10
      <3> QED BY <3>2, <2>4 DEF RemovedKept
    <2>13. u.pc \notin Live /\ u.pc # "build"
      BY <2>8 DEF Live
    <2>14. \A d \in Dirs : dirs'[d] = dirs[d] \/ (run[r].pc \in Live /\ d = Staging(r))
                           \/ (u.pc = "build" /\ d = <<u.out, u.pid>>) \/ (d \in Outputs /\ dirs[d] = Nothing)
      BY <1>2, <2>1, <2>6, <2>7
    <2> QED BY <2>2, <2>4, <2>7, <2>8, <2>9, <2>11, <2>12, <2>13, <2>14, Step
  <1> QED BY <1>1, <1>2

\* RemoveShard: the file is one the published bundle names.
LEMMA RemoveShardStep ==
  ASSUME BundleInv, NEW r \in Runs, NEW f \in Shards \cup {MTP}, RemoveShard(r, f)
  PROVE  BundleInv'
  <1> DEFINE u == [run[r] EXCEPT !.todo = @ \ {f}]
             out == run[r].out
  <1>1. /\ run \in [Runs -> RunRec] /\ run[r] \in RunRec /\ source \in Sources
        /\ files \subseteq Shards \cup {MTP} /\ dirs \in [Dirs -> {Nothing} \cup BundleRec]
        /\ AllWhole /\ RemovedKept
    BY DEF BundleInv, TypesOK
  <1>2. run[r].pc = "clean" /\ f \in run[r].todo
    BY DEF RemoveShard, At
  <1>3. out \in Outputs /\ dirs[out] # Nothing /\ run[r].todo \subseteq dirs[out].marker \cup {MTP}
    BY <1>2 DEF BundleInv, RunsOK, RunOK, CleanOK
  <1>4. run' = [run EXCEPT ![r] = u] /\ UNCHANGED <<source, dirs>> /\ files' = files \ {f}
    BY <1>1 DEF RemoveShard
  <1>5. u \in RunRec /\ u.pc = "clean" /\ u.out = out /\ u.todo \subseteq run[r].todo
    BY <1>1, <1>2 DEF RunRec
  <1> HIDE DEF u
  <1>6. RunOK(r)'
    <2>1. run'[r] = u
      BY <1>1, <1>4
    <2> QED BY <2>1, <1>3, <1>4, <1>5 DEF RunOK, PhaseOK, CleanOK, Live
  <1>7. AllWhole'
    BY <1>1, <1>4 DEF AllWhole, Whole, Full
  <1>8. RemovedKept'
    <2> SUFFICES ASSUME NEW g \in source.files, g \notin files'
                 PROVE  \E o \in Outputs : dirs[o] # Nothing /\ g \in dirs[o].marker
      BY <1>4 DEF RemovedKept
    <2>1. CASE g \notin files
      BY <2>1, <1>1 DEF RemovedKept
    <2>2. CASE g \in files
      <3>1. g = f
        BY <2>2, <1>4
      <3>2. g \in Shards /\ g # MTP
        BY <1>1, SourceFacts, BundleAssumption
      <3> QED BY <3>1, <3>2, <1>2, <1>3
    <2> QED BY <2>1, <2>2
  <1>9. u.pc \notin Live /\ u.pc # "build"
    BY <1>5 DEF Live
  <1> QED BY <1>1, <1>4, <1>5, <1>6, <1>7, <1>8, <1>9, Step

\* The invariant holds at first ...
LEMMA BundleInitInv == BundleInit => BundleInv
  <1> SUFFICES ASSUME BundleInit PROVE BundleInv
    OBVIOUS
  <1>1. source \in Sources /\ files = source.files \cup {MTP} /\ source.files \subseteq Shards
    BY SourceFacts DEF BundleInit
  <1>2. dirs = [d \in Dirs |-> Nothing]
    BY DEF BundleInit, Dirs
  <1> DEFINE u == [pc |-> "new", out |-> Nothing, pid |-> Nothing, keep |-> FALSE,
                   shards |-> {}, todo |-> {}, seen |-> {}]
  <1>3. run = [r \in Runs |-> u]
    BY DEF BundleInit
  <1>4. u \in RunRec /\ u.pc = "new"
    BY DEF RunRec
  <1> HIDE DEF u
  <1>5. TypesOK
    BY <1>1, <1>2, <1>3, <1>4 DEF TypesOK
  <1>6. RunsOK
    <2> SUFFICES ASSUME NEW r \in Runs PROVE RunOK(r)
      BY DEF RunsOK
    <2>1. run[r] = u
      BY <1>3
    <2> QED BY <2>1, <1>4 DEF RunOK, PhaseOK, CleanOK, Live
  <1>7. Alone
    BY <1>3, <1>4 DEF Alone, Live
  <1>8. AllWhole
    BY <1>2 DEF AllWhole, Dirs
  <1>9. RemovedKept
    BY <1>1 DEF RemovedKept
  <1> QED BY <1>5, <1>6, <1>7, <1>8, <1>9 DEF BundleInv

\* ... and is kept by every step of every run.
LEMMA BundleNextInv ==
  ASSUME BundleInv, NothingIsNoBundle, [BundleNext]_bundleVars
  PROVE  BundleInv'
  <1>1. CASE UNCHANGED bundleVars
    <2>1. source' = source /\ files' = files /\ dirs' = dirs /\ run' = run
      BY <1>1 DEF bundleVars
    <2>2. \A r \in Runs : RunOK(r)' = RunOK(r)
      BY <2>1 DEF RunOK, PhaseOK, CleanOK, Filling, Full, Bundle, Staging
    <2> QED BY <2>1, <2>2 DEF BundleInv, TypesOK, RunsOK, Alone, AllWhole, Whole, Full, RemovedKept
  <1>2. ASSUME NEW r \in Runs,
               \/ \E out \in Outputs, keep, download \in BOOLEAN : Begin(r, out, keep, download)
               \/ \E f \in source.remote \cup {MTP} : Fetch(r, f)
               \/ \E pid \in Pids : Stage(r, pid)
               \/ \E f \in Shards : BuildShard(r, f)
               \/ \E f \in Shards \cup {MTP} : RemoveShard(r, f)
               \/ Fetched(r) \/ BuildStart(r) \/ BuildEnd(r) \/ BuildMtp(r) \/ Verify(r)
               \/ Publish(r) \/ Done(r) \/ Stop(r)
        PROVE  BundleInv'
    <2>1. CASE Fetched(r)
      BY <2>1, GotoQuiet DEF Fetched
    <2>2. CASE Done(r)
      BY <2>2, GotoQuiet DEF Done
    <2>3. CASE Stop(r)
      BY <2>3, GotoQuiet DEF Stop
    <2>4. ASSUME NEW out \in Outputs, NEW keep \in BOOLEAN, NEW download \in BOOLEAN,
                 Begin(r, out, keep, download)
          PROVE  BundleInv'
      BY <2>4, BeginStep
    <2>5. CASE \E out \in Outputs, keep, download \in BOOLEAN : Begin(r, out, keep, download)
      BY <2>4, <2>5
    <2> QED BY <1>2, <2>1, <2>2, <2>3, <2>5, FetchStep, StageStep, BuildStartStep, BuildShardStep,
               BuildEndStep, BuildMtpStep, VerifyStep, PublishStep, RemoveShardStep
  <1> QED BY <1>1, <1>2 DEF BundleNext

\* What a full bundle holds.
LEMMA FullHolds ==
  ASSUME source \in Sources, NEW b \in BundleRec, Full(b), NEW f \in b.marker, NEW k \in source.has[f]
  PROVE  Holds(b, k)
  <1>1. b.blobs \in [DOMAIN b.blobs -> Blob] /\ DOMAIN b.blobs \subseteq Nat
    <2>1. b.blobs \in Blobs
      BY DEF BundleRec
    <2> QED BY <2>1 DEF Blobs
  <1>2. CASE k \in Core
    BY <1>2 DEF Full, Holds
  <1>3. CASE k \notin Core
    <2>1. k \in (DOMAIN b.blobs) \X Segs
      BY <1>3 DEF Full
    <2>2. PICK l \in DOMAIN b.blobs, s \in Segs : k = <<l, s>>
      BY <2>1
    <2>3. PICK i \in 1 .. N : s = SegSeq[i]
      BY Ends DEF Segs
    <2>4. Written(b.blobs[l], l, i) /\ b.blobs[l] \in Blob /\ l \in Layer
      BY <1>1 DEF Full, Layer
    <2>5. ASSUME NEW e \in 1 .. NE, NEW j \in 1 .. Size[s]
          PROVE  <<l, e, s, j>> \in ToSet(b.blobs[l])
      BY <2>3, <2>4, BlobBytes
    <2>6. k[1] = l /\ k[2] = s
      BY <2>2
    <2> QED BY <1>3, <2>5, <2>6 DEF Holds
  <1> QED BY <1>2, <1>3

\* The invariant implies the properties.
LEMMA OutputWholeHolds == BundleInv => OutputWhole
  <1> SUFFICES ASSUME BundleInv, NEW o \in Outputs, dirs[o] # Nothing
               PROVE  LET b == dirs[o] IN
                      /\ b.status = "verified" /\ b.marker # {} /\ b.mtpCore
                      /\ \A f \in b.marker : \A k \in source.has[f] : Holds(b, k)
                      /\ \A l \in DOMAIN b.blobs, e \in 1 .. NE :
                           SubSeq(b.blobs[l], (e - 1) * Stride + 1, e * Stride) = ExpertRecord(l, e)
                      /\ \A e \in 1 .. NE :
                           SubSeq(b.mtpBlob, (e - 1) * Stride + 1, e * Stride) = ExpertRecord(MTP, e)
    BY DEF OutputWhole
  <1> DEFINE b == dirs[o]
  <1>1. b \in BundleRec /\ Whole(b) /\ source \in Sources
    BY DEF BundleInv, TypesOK, AllWhole, Dirs
  <1> HIDE DEF b
  <1>2. \A f \in b.marker : \A k \in source.has[f] : Holds(b, k)
    BY <1>1, FullHolds DEF Whole
  <1>3. b.blobs \in [DOMAIN b.blobs -> Blob] /\ DOMAIN b.blobs \subseteq Nat
    <2>1. b.blobs \in Blobs
      BY <1>1 DEF BundleRec
    <2> QED BY <2>1 DEF Blobs
  <1>4. ASSUME NEW l \in DOMAIN b.blobs, NEW e \in 1 .. NE
        PROVE  SubSeq(b.blobs[l], (e - 1) * Stride + 1, e * Stride) = ExpertRecord(l, e)
    <2>1. b.blobs[l] \in Blob /\ l \in Layer /\ \A i \in 1 .. N : Written(b.blobs[l], l, i)
      BY <1>1, <1>3 DEF Whole, Full, Layer
    <2> QED BY <2>1, BlobSlices
  <1>5. ASSUME NEW e \in 1 .. NE
        PROVE  SubSeq(b.mtpBlob, (e - 1) * Stride + 1, e * Stride) = ExpertRecord(MTP, e)
    BY <1>1, MtpSlices DEF Whole
  <1> QED BY <1>1, <1>2, <1>4, <1>5 DEF Whole, Full, b

\* A removed file is named by a bundle that has all its tensors.
LEMMA NothingLostHolds == BundleInv => NothingLost
  <1> SUFFICES ASSUME BundleInv, NEW f \in source.files \ files, NEW k \in source.has[f]
               PROVE  \E o \in Outputs : dirs[o] # Nothing /\ Holds(dirs[o], k)
    BY DEF NothingLost
  <1>1. PICK o \in Outputs : dirs[o] # Nothing /\ f \in dirs[o].marker
    BY DEF BundleInv, RemovedKept
  <1>2. dirs[o] \in BundleRec /\ Full(dirs[o]) /\ source \in Sources
    BY <1>1 DEF BundleInv, TypesOK, AllWhole, Whole, Dirs
  <1> QED BY <1>1, <1>2, FullHolds

\* What stands under a final name is a whole bundle, whichever runs were
\* killed and whatever became of the sources (OutputWhole).
THEOREM OutputsAreWhole == ASSUME NothingIsNoBundle PROVE BundleSpec => []OutputWhole
  <1>1. BundleInit => BundleInv
    BY BundleInitInv
  <1>2. BundleInv /\ [BundleNext]_bundleVars => BundleInv'
    BY BundleNextInv
  <1>3. BundleInv => OutputWhole
    BY OutputWholeHolds
  <1> QED BY <1>1, <1>2, <1>3, PTL DEF BundleSpec

\* A tensor of a file the source held at first is in a published bundle once
\* that file was removed (NothingLost).
THEOREM RemovedIsHeld == ASSUME NothingIsNoBundle PROVE BundleSpec => []NothingLost
  <1>1. BundleInit => BundleInv
    BY BundleInitInv
  <1>2. BundleInv /\ [BundleNext]_bundleVars => BundleInv'
    BY BundleNextInv
  <1>3. BundleInv => NothingLost
    BY NothingLostHolds
  <1> QED BY <1>1, <1>2, <1>3, PTL DEF BundleSpec
-----------------------------------------------------------------------------
(* ResidentPool: the books of a pool, row by row.                          *)

\* The values of the variables.
PoolT == [alloc : 0 .. Cap, free : Seq(Rows), lru : Seq(Experts), slot : [Experts -> Rows \cup {None}],
          table : {None} \cup [Experts -> Rows \cup {-1}], pinned : SUBSET Experts,
          freq : [Experts -> Nat], count : Nat, bytes : [Rows -> Experts \cup {None}], ok : BOOLEAN]

\* The books of a pool agree: every allocated row is free or one expert's.
Book(p) ==
    /\ ToSet(p.lru) = {e \in Experts : p.slot[e] # None}
    /\ \A e, x \in Experts : p.slot[e] # None /\ p.slot[e] = p.slot[x] => e = x
    /\ \A e \in Experts : p.slot[e] # None => p.slot[e] < p.alloc /\ p.slot[e] \notin ToSet(p.free)
    /\ \A r \in Rows : r < p.alloc => r \in ToSet(p.free) \/ \E e \in Experts : p.slot[e] = r
    /\ \A r \in ToSet(p.free) : r < p.alloc
    /\ IsInjective(p.free)
    /\ p.table # None => \A e \in Experts : p.table[e] = IF p.slot[e] = None THEN -1 ELSE p.slot[e]

\* The rows of all experts but those of X hold their bytes.
Right(p, X) == \A e \in Experts \ X : p.slot[e] # None => p.bytes[p.slot[e]] = e

\* Every row belongs to an expert of P, and an expert of ids has none.
Over(p, P, ids) ==
    /\ p.alloc = Cap /\ p.free = <<>> /\ ToSet(p.lru) \subseteq P
    /\ \E e \in ids : p.slot[e] = None

\* The elements of a list.
LEMMA SeqSet ==
  ASSUME NEW B, NEW s \in Seq(B)
  PROVE  /\ ToSet(s) \subseteq B /\ \A i \in 1 .. Len(s) : s[i] \in ToSet(s)
         /\ (ToSet(s) = {}) <=> (s = <<>>)
         /\ \A x \in ToSet(s) : \E i \in 1 .. Len(s) : s[i] = x
  <1>1. DOMAIN s = 1 .. Len(s) /\ Len(s) \in Nat
    OBVIOUS
  <1>2. ToSet(s) \subseteq B /\ \A i \in 1 .. Len(s) : s[i] \in ToSet(s)
    BY <1>1 DEF ToSet
  <1>3. \A x \in ToSet(s) : \E i \in 1 .. Len(s) : s[i] = x
    BY <1>1 DEF ToSet
  <1>4. ToSet(s) = {} => s = <<>>
    <2>1. SUFFICES ASSUME s # <<>> PROVE s[1] \in ToSet(s)
      OBVIOUS
    <2>2. 1 \in 1 .. Len(s)
      BY <2>1
    <2> QED BY <2>2, <1>2
  <1>5. s = <<>> => ToSet(s) = {}
    BY <1>1, <1>3
  <1> QED BY <1>2, <1>3, <1>4, <1>5

\* Taking the first of a list without repetitions.
LEMMA TakeHead ==
  ASSUME NEW B, NEW s \in Seq(B), s # <<>>, IsInjective(s)
  PROVE  /\ Head(s) \in B /\ Head(s) \in ToSet(s)
         /\ Tail(s) \in Seq(B) /\ IsInjective(Tail(s)) /\ ToSet(Tail(s)) = ToSet(s) \ {Head(s)}
  <1> DEFINE t == Tail(s)
  <1>1. DOMAIN s = 1 .. Len(s) /\ Len(s) \in Nat \ {0}
    OBVIOUS
  <1>2. t \in Seq(B) /\ Len(t) = Len(s) - 1 /\ \A i \in 1 .. Len(s) - 1 : t[i] = s[i + 1]
    OBVIOUS
  <1>3. Head(s) = s[1] /\ 1 \in 1 .. Len(s)
    BY <1>1
  <1>4. DOMAIN t = 1 .. Len(s) - 1
    BY <1>2
  <1>5. \A a, b \in 1 .. Len(s) : s[a] = s[b] => a = b
    BY <1>1 DEF IsInjective
  <1> HIDE DEF t
  <1>6. IsInjective(t)
    <2> SUFFICES ASSUME NEW a \in 1 .. Len(s) - 1, NEW b \in 1 .. Len(s) - 1, t[a] = t[b] PROVE a = b
      BY <1>4 DEF IsInjective
    <2>1. a + 1 \in 1 .. Len(s) /\ b + 1 \in 1 .. Len(s)
      BY <1>1
    <2>2. s[a + 1] = s[b + 1]
      BY <1>2
    <2> QED BY <2>1, <2>2, <1>5
  <1>7. ToSet(t) = ToSet(s) \ {s[1]}
    <2>1. ASSUME NEW x \in ToSet(t) PROVE x \in ToSet(s) /\ x # s[1]
      <3>1. PICK i \in 1 .. Len(s) - 1 : t[i] = x
        BY <1>4 DEF ToSet
      <3>2. i + 1 \in 1 .. Len(s) /\ i + 1 # 1
        BY <1>1
      <3> QED BY <3>1, <3>2, <1>1, <1>2, <1>3, <1>5 DEF ToSet
    <2>2. ASSUME NEW x \in ToSet(s), x # s[1] PROVE x \in ToSet(t)
      <3>1. PICK i \in 1 .. Len(s) : s[i] = x
        BY <1>1 DEF ToSet
      <3>2. i - 1 \in 1 .. Len(s) - 1 /\ (i - 1) + 1 = i
        BY <2>2, <3>1, <1>1
      <3>3. t[i - 1] = x
        BY <3>1, <3>2, <1>2
      <3> QED BY <3>2, <3>3, <1>4 DEF ToSet
    <2> QED BY <2>1, <2>2
  <1> QED BY <1>1, <1>2, <1>3, <1>6, <1>7, SeqSet DEF t

\* Touch changes the order only.
LEMMA TouchFacts ==
  ASSUME NEW p \in PoolT, NEW e \in Experts
  PROVE  LET q == Touch(p, e) IN
         /\ q \in PoolT /\ ToSet(q.lru) = ToSet(p.lru) \cup {e}
         /\ q.alloc = p.alloc /\ q.free = p.free /\ q.slot = p.slot /\ q.table = p.table
         /\ q.pinned = p.pinned /\ q.bytes = p.bytes /\ q.ok = p.ok
  <1> DEFINE w == Without(p.lru, {e})
             l == Append(w, e)
  <1>1. p.lru \in Seq(Experts)
    BY DEF PoolT
  <1>2. w \in Seq(Experts) /\ ToSet(w) = ToSet(p.lru) \ {e}
    BY <1>1, WithoutFacts
  <1> HIDE DEF w
  <1>3. l \in Seq(Experts) /\ ToSet(l) = ToSet(p.lru) \cup {e}
    BY <1>2, AppendSet
  <1>4. Touch(p, e) = [p EXCEPT !.lru = l]
    BY DEF Touch, w
  <1> HIDE DEF l
  <1> QED BY <1>3, <1>4 DEF PoolT

\* Seat writes the slot book and the table alike.
LEMMA SeatFacts ==
  ASSUME NEW p \in PoolT, NEW e \in Experts, NEW row \in Rows
  PROVE  LET q == Seat(p, e, row) IN
         /\ q \in PoolT /\ ToSet(q.lru) = ToSet(p.lru) \cup {e}
         /\ q.alloc = p.alloc /\ q.free = p.free /\ q.slot = [p.slot EXCEPT ![e] = row]
         /\ q.table = IF p.table = None THEN None ELSE [p.table EXCEPT ![e] = row]
         /\ q.pinned = p.pinned /\ q.bytes = p.bytes /\ q.ok = p.ok
  <1> DEFINE s == [p EXCEPT !.slot[e] = row]
             t == SetTable(s, e, row)
  <1>1. s \in PoolT /\ s.slot = [p.slot EXCEPT ![e] = row] /\ s.table = p.table
        /\ s.alloc = p.alloc /\ s.free = p.free /\ s.lru = p.lru
        /\ s.pinned = p.pinned /\ s.bytes = p.bytes /\ s.ok = p.ok
    BY DEF PoolT
  <1> HIDE DEF s
  <1>2. t \in PoolT /\ t.slot = s.slot /\ t.alloc = s.alloc /\ t.free = s.free /\ t.lru = s.lru
        /\ t.pinned = s.pinned /\ t.bytes = s.bytes /\ t.ok = s.ok
        /\ t.table = IF s.table = None THEN None ELSE [s.table EXCEPT ![e] = row]
    <2>1. CASE s.table = None
      BY <1>1, <2>1 DEF SetTable
    <2>2. CASE s.table # None
      <3>1. s.table \in [Experts -> Rows \cup {-1}]
        BY <1>1, <2>2 DEF PoolT
      <3>2. t = [s EXCEPT !.table[e] = row]
        BY <2>2 DEF SetTable
      <3> HIDE DEF t
      <3> QED BY <1>1, <2>2, <3>1, <3>2 DEF PoolT
    <2> QED BY <2>1, <2>2
  <1>3. Seat(p, e, row) = Touch(t, e)
    BY DEF Seat, s
  <1> HIDE DEF t
  <1> DEFINE q == Touch(t, e)
  <1>4. /\ q \in PoolT /\ ToSet(q.lru) = ToSet(t.lru) \cup {e}
        /\ q.alloc = t.alloc /\ q.free = t.free /\ q.slot = t.slot /\ q.table = t.table
        /\ q.pinned = t.pinned /\ q.bytes = t.bytes /\ q.ok = t.ok
    BY <1>2, TouchFacts
  <1> HIDE DEF q
  <1>5. Seat(p, e, row) = q
    BY <1>3 DEF q
  <1> QED BY <1>1, <1>2, <1>4, <1>5

\* Evict clears both.
LEMMA EvictFacts ==
  ASSUME NEW p \in PoolT, NEW e \in Experts
  PROVE  LET q == Evict(p, e) IN
         /\ q \in PoolT /\ ToSet(q.lru) = ToSet(p.lru) \ {e}
         /\ q.alloc = p.alloc /\ q.free = p.free /\ q.slot = [p.slot EXCEPT ![e] = None]
         /\ q.table = IF p.table = None THEN None ELSE [p.table EXCEPT ![e] = -1]
         /\ q.pinned = p.pinned /\ q.bytes = p.bytes /\ q.ok = p.ok
  <1> DEFINE w == Without(p.lru, {e})
             s == [p EXCEPT !.lru = w, !.slot[e] = None]
             t == SetTable(s, e, -1)
  <1>0. w \in Seq(Experts) /\ ToSet(w) = ToSet(p.lru) \ {e}
    <2>1. p.lru \in Seq(Experts)
      BY DEF PoolT
    <2> QED BY <2>1, WithoutFacts
  <1> HIDE DEF w
  <1>1. s \in PoolT /\ s.slot = [p.slot EXCEPT ![e] = None] /\ s.table = p.table
        /\ s.alloc = p.alloc /\ s.free = p.free /\ s.lru = w
        /\ s.pinned = p.pinned /\ s.bytes = p.bytes /\ s.ok = p.ok
    BY <1>0 DEF PoolT
  <1> HIDE DEF s
  <1>2. t \in PoolT /\ t.slot = s.slot /\ t.alloc = s.alloc /\ t.free = s.free /\ t.lru = s.lru
        /\ t.pinned = s.pinned /\ t.bytes = s.bytes /\ t.ok = s.ok
        /\ t.table = IF s.table = None THEN None ELSE [s.table EXCEPT ![e] = -1]
    <2>1. CASE s.table = None
      BY <1>1, <2>1 DEF SetTable
    <2>2. CASE s.table # None
      <3>1. s.table \in [Experts -> Rows \cup {-1}]
        BY <1>1, <2>2 DEF PoolT
      <3>2. t = [s EXCEPT !.table[e] = -1]
        BY <2>2 DEF SetTable
      <3> HIDE DEF t
      <3> QED BY <1>1, <2>2, <3>1, <3>2 DEF PoolT
    <2> QED BY <2>1, <2>2
  <1>3. Evict(p, e) = t
    BY DEF Evict, s, w
  <1> HIDE DEF t
  <1> QED BY <1>0, <1>1, <1>2, <1>3

\* The same with one row in nobody's hands.
Hole(p, row) ==
    /\ ToSet(p.lru) = {e \in Experts : p.slot[e] # None}
    /\ \A e, x \in Experts : p.slot[e] # None /\ p.slot[e] = p.slot[x] => e = x
    /\ \A e \in Experts : p.slot[e] # None => p.slot[e] < p.alloc /\ p.slot[e] \notin ToSet(p.free)
    /\ row < p.alloc /\ row \notin ToSet(p.free) /\ \A e \in Experts : p.slot[e] # row
    /\ \A r \in Rows : r < p.alloc => r = row \/ r \in ToSet(p.free) \/ \E e \in Experts : p.slot[e] = r
    /\ \A r \in ToSet(p.free) : r < p.alloc
    /\ IsInjective(p.free)
    /\ p.table # None => \A e \in Experts : p.table[e] = IF p.slot[e] = None THEN -1 ELSE p.slot[e]

\* Seating an expert in a hole closes the books.
LEMMA SeatInHole ==
  ASSUME NEW p \in PoolT, NEW e \in Experts, NEW row \in Rows, Hole(p, row), p.slot[e] = None
  PROVE  LET q == Seat(p, e, row) IN
         /\ q \in PoolT /\ Book(q) /\ ToSet(q.lru) = ToSet(p.lru) \cup {e}
         /\ q.alloc = p.alloc /\ q.free = p.free /\ q.slot = [p.slot EXCEPT ![e] = row]
         /\ q.pinned = p.pinned /\ q.bytes = p.bytes /\ q.ok = p.ok
  <1> DEFINE q == Seat(p, e, row)
  <1>1. /\ q \in PoolT /\ ToSet(q.lru) = ToSet(p.lru) \cup {e}
        /\ q.alloc = p.alloc /\ q.free = p.free /\ q.slot = [p.slot EXCEPT ![e] = row]
        /\ q.table = IF p.table = None THEN None ELSE [p.table EXCEPT ![e] = row]
        /\ q.pinned = p.pinned /\ q.bytes = p.bytes /\ q.ok = p.ok
    BY SeatFacts
  <1> HIDE DEF q
  <1>2. p.slot \in [Experts -> Rows \cup {None}] /\ row # None
    BY PoolAssumption DEF PoolT
  <1>3. \A x \in Experts : q.slot[x] = IF x = e THEN row ELSE p.slot[x]
    BY <1>1, <1>2
  <1>4. ToSet(q.lru) = {x \in Experts : q.slot[x] # None}
    BY <1>1, <1>2, <1>3 DEF Hole
  <1>5. \A a, x \in Experts : q.slot[a] # None /\ q.slot[a] = q.slot[x] => a = x
    BY <1>3 DEF Hole
  <1>6. \A x \in Experts : q.slot[x] # None => q.slot[x] < q.alloc /\ q.slot[x] \notin ToSet(q.free)
    BY <1>1, <1>3 DEF Hole
  <1>7. ASSUME NEW r \in Rows, r < q.alloc PROVE r \in ToSet(q.free) \/ \E x \in Experts : q.slot[x] = r
    <2>1. r = row \/ r \in ToSet(p.free) \/ \E x \in Experts : p.slot[x] = r
      BY <1>1, <1>7 DEF Hole
    <2>2. \A x \in Experts : p.slot[x] = r => x # e
      BY <1>2, PoolAssumption
    <2> QED BY <2>1, <2>2, <1>1, <1>3
  <1>8. q.table # None => \A x \in Experts : q.table[x] = IF q.slot[x] = None THEN -1 ELSE q.slot[x]
    <2> SUFFICES ASSUME q.table # None, NEW x \in Experts
                 PROVE  q.table[x] = IF q.slot[x] = None THEN -1 ELSE q.slot[x]
      OBVIOUS
    <2>1. p.table # None /\ q.table = [p.table EXCEPT ![e] = row]
      BY <1>1
    <2>2. p.table \in [Experts -> Rows \cup {-1}]
      BY <2>1 DEF PoolT
    <2>3. p.table[x] = IF p.slot[x] = None THEN -1 ELSE p.slot[x]
      BY <2>1 DEF Hole
    <2> QED BY <2>1, <2>2, <2>3, <1>2, <1>3
  <1>9. (\A r \in ToSet(q.free) : r < q.alloc) /\ IsInjective(q.free)
    BY <1>1 DEF Hole
  <1>10. Book(q)
    BY <1>4, <1>5, <1>6, <1>7, <1>8, <1>9 DEF Book
  <1> QED BY <1>1, <1>10 DEF q

\* A free row leaves a hole, and so does an expert that is evicted.
LEMMA FreeHole ==
  ASSUME NEW p \in PoolT, Book(p), p.free # <<>>
  PROVE  LET q == [p EXCEPT !.free = Tail(@)] IN
         /\ q \in PoolT /\ Head(p.free) \in Rows /\ Hole(q, Head(p.free)) /\ q.lru = p.lru
         /\ q.alloc = p.alloc /\ q.slot = p.slot /\ q.pinned = p.pinned /\ q.bytes = p.bytes /\ q.ok = p.ok
  <1> DEFINE q == [p EXCEPT !.free = Tail(@)]
             h == Head(p.free)
  <1>1. p.free \in Seq(Rows) /\ IsInjective(p.free)
    BY DEF PoolT, Book
  <1>2. /\ h \in Rows /\ h \in ToSet(p.free)
        /\ Tail(p.free) \in Seq(Rows) /\ IsInjective(Tail(p.free)) /\ ToSet(Tail(p.free)) = ToSet(p.free) \ {h}
    BY <1>1, TakeHead
  <1>3. q \in PoolT /\ q.free = Tail(p.free) /\ q.lru = p.lru /\ q.alloc = p.alloc /\ q.slot = p.slot
        /\ q.pinned = p.pinned /\ q.bytes = p.bytes /\ q.ok = p.ok /\ q.table = p.table
    BY <1>2 DEF PoolT
  <1> HIDE DEF q, h
  <1>4. \A e \in Experts : p.slot[e] # h
    <2> SUFFICES ASSUME NEW e \in Experts, p.slot[e] = h PROVE FALSE
      OBVIOUS
    <2>1. p.slot[e] # None
      BY <1>2, PoolAssumption
    <2> QED BY <2>1, <1>2 DEF Book
  <1>5. Hole(q, h)
    BY <1>2, <1>3, <1>4 DEF Book, Hole
  <1> QED BY <1>2, <1>3, <1>5 DEF q, h

\* The row of an expert that is evicted is a hole.
LEMMA EvictHole ==
  ASSUME NEW p \in PoolT, Book(p), NEW v \in ToSet(p.lru)
  PROVE  LET q == Evict(p, v) IN
         /\ v \in Experts /\ p.slot[v] \in Rows
         /\ q \in PoolT /\ Hole(q, p.slot[v]) /\ ToSet(q.lru) = ToSet(p.lru) \ {v}
         /\ q.alloc = p.alloc /\ q.free = p.free /\ q.slot = [p.slot EXCEPT ![v] = None]
         /\ q.pinned = p.pinned /\ q.bytes = p.bytes /\ q.ok = p.ok
  <1> DEFINE q == Evict(p, v)
  <1>0. v \in Experts /\ p.slot[v] # None /\ p.slot \in [Experts -> Rows \cup {None}] /\ p.slot[v] \in Rows
    BY DEF Book, PoolT
  <1>1. /\ q \in PoolT /\ ToSet(q.lru) = ToSet(p.lru) \ {v}
        /\ q.alloc = p.alloc /\ q.free = p.free /\ q.slot = [p.slot EXCEPT ![v] = None]
        /\ q.table = IF p.table = None THEN None ELSE [p.table EXCEPT ![v] = -1]
        /\ q.pinned = p.pinned /\ q.bytes = p.bytes /\ q.ok = p.ok
    BY <1>0, EvictFacts
  <1> HIDE DEF q
  <1>2. \A x \in Experts : q.slot[x] = IF x = v THEN None ELSE p.slot[x]
    BY <1>0, <1>1
  <1>3. ToSet(q.lru) = {x \in Experts : q.slot[x] # None}
    BY <1>1, <1>2 DEF Book
  <1>4. \A a, x \in Experts : q.slot[a] # None /\ q.slot[a] = q.slot[x] => a = x
    BY <1>2 DEF Book
  <1>5. \A x \in Experts : q.slot[x] # None => q.slot[x] < q.alloc /\ q.slot[x] \notin ToSet(q.free)
    BY <1>1, <1>2 DEF Book
  <1>6. \A x \in Experts : q.slot[x] # p.slot[v]
    BY <1>0, <1>2 DEF Book
  <1>7. ASSUME NEW r \in Rows, r < q.alloc
        PROVE  r = p.slot[v] \/ r \in ToSet(q.free) \/ \E x \in Experts : q.slot[x] = r
    <2>1. r \in ToSet(p.free) \/ \E x \in Experts : p.slot[x] = r
      BY <1>1, <1>7 DEF Book
    <2> QED BY <2>1, <1>1, <1>2
  <1>8. q.table # None => \A x \in Experts : q.table[x] = IF q.slot[x] = None THEN -1 ELSE q.slot[x]
    <2> SUFFICES ASSUME q.table # None, NEW x \in Experts
                 PROVE  q.table[x] = IF q.slot[x] = None THEN -1 ELSE q.slot[x]
      OBVIOUS
    <2>1. p.table # None /\ q.table = [p.table EXCEPT ![v] = -1]
      BY <1>1
    <2>2. p.table \in [Experts -> Rows \cup {-1}]
      BY <2>1 DEF PoolT
    <2>3. p.table[x] = IF p.slot[x] = None THEN -1 ELSE p.slot[x]
      BY <2>1 DEF Book
    <2> QED BY <2>1, <2>2, <2>3, <1>0, <1>2
  <1>9. (\A r \in ToSet(q.free) : r < q.alloc) /\ IsInjective(q.free)
    BY <1>1 DEF Book
  <1>10. p.slot[v] < q.alloc /\ p.slot[v] \notin ToSet(q.free)
    BY <1>0, <1>1 DEF Book
  <1>11. Hole(q, p.slot[v])
    BY <1>3, <1>4, <1>5, <1>6, <1>7, <1>8, <1>9, <1>10 DEF Hole
  <1> QED BY <1>0, <1>1, <1>11 DEF q

\* The rows from a to b - 1, in order.
LEMMA Span ==
  ASSUME NEW a \in 0 .. Cap, NEW b \in a .. Cap
  PROVE  LET s == [i \in 1 .. b - a |-> a + i - 1] IN
         s \in Seq(Rows) /\ IsInjective(s) /\ ToSet(s) = {r \in Rows : a <= r /\ r < b} /\ Len(s) = b - a
  <1> DEFINE s == [i \in 1 .. b - a |-> a + i - 1]
  <1>0. Cap \in Nat /\ a \in Nat /\ b \in Nat /\ b - a \in Nat
    BY PoolAssumption
  <1>1. \A i \in 1 .. b - a : a + i - 1 \in Rows
    BY <1>0 DEF Rows
  <1>2. s \in [1 .. b - a -> Rows]
    BY <1>1
  <1>3. s \in Seq(Rows) /\ Len(s) = b - a
    BY <1>2, <1>0
  <1>4. IsInjective(s)
    BY <1>0 DEF IsInjective
  <1>5. ToSet(s) = {r \in Rows : a <= r /\ r < b}
    <2>1. ASSUME NEW r \in Rows, a <= r, r < b PROVE r \in ToSet(s)
      <3>1. (r - a) + 1 \in 1 .. b - a /\ a + ((r - a) + 1) - 1 = r
        BY <2>1, <1>0 DEF Rows
      <3> QED BY <3>1 DEF ToSet
    <2>2. ASSUME NEW r \in ToSet(s) PROVE r \in Rows /\ a <= r /\ r < b
      <3>1. PICK i \in 1 .. b - a : r = a + i - 1
        BY DEF ToSet
      <3> QED BY <3>1, <1>0, <1>1
    <2> QED BY <2>1, <2>2
  <1> QED BY <1>3, <1>4, <1>5

\* Growing adds free rows.
LEMMA GrowFacts ==
  ASSUME NEW p \in PoolT, Book(p), p.free = <<>>, p.alloc < Cap
  PROVE  LET q == Grow(p) IN
         /\ q \in PoolT /\ Book(q) /\ q.free # <<>> /\ q.lru = p.lru /\ q.slot = p.slot
         /\ q.pinned = p.pinned /\ q.bytes = p.bytes /\ q.ok = p.ok
  <1> DEFINE half == p.alloc \div 2
             n == Smaller(p.alloc + (IF half = 0 THEN 1 ELSE half), Cap)
             s == [i \in 1 .. n - p.alloc |-> p.alloc + i - 1]
             q == Grow(p)
  <1>0. p.alloc \in 0 .. Cap /\ Cap \in Nat /\ half \in Nat
    BY PoolAssumption DEF PoolT
  <1>1. n \in p.alloc .. Cap /\ p.alloc < n
    BY <1>0 DEF Smaller
  <1>2. q = [p EXCEPT !.alloc = n, !.free = @ \o s]
    BY DEF Grow
  <1> HIDE DEF n, q
  <1>3. s \in Seq(Rows) /\ IsInjective(s) /\ ToSet(s) = {r \in Rows : p.alloc <= r /\ r < n} /\ Len(s) = n - p.alloc
    BY <1>0, <1>1, Span
  <1> HIDE DEF s
  <1>4. p.free \o s = s
    BY <1>3, ConcatEmptySeq
  <1>5. s # <<>>
    BY <1>0, <1>1, <1>3
  <1>6. n \in 0 .. Cap
    BY <1>0, <1>1
  <1>7. /\ q \in PoolT /\ q.alloc = n /\ q.free = s /\ q.lru = p.lru /\ q.slot = p.slot /\ q.table = p.table
        /\ q.pinned = p.pinned /\ q.bytes = p.bytes /\ q.ok = p.ok
    BY <1>2, <1>3, <1>4, <1>6 DEF PoolT
  <1>8. p.slot \in [Experts -> Rows \cup {None}] /\ \A r \in Rows : r \in Nat
    BY <1>0 DEF PoolT, Rows
  <1>9. ToSet(p.free) = {}
    BY DEF ToSet
  <1>10. ASSUME NEW e \in Experts, q.slot[e] # None PROVE q.slot[e] < q.alloc /\ q.slot[e] \notin ToSet(q.free)
    <2>1. p.slot[e] \in Rows /\ p.slot[e] < p.alloc
      BY <1>7, <1>8, <1>10 DEF Book
    <2> QED BY <2>1, <1>0, <1>1, <1>3, <1>7, <1>8
  <1>11. ASSUME NEW r \in Rows, r < q.alloc PROVE r \in ToSet(q.free) \/ \E e \in Experts : q.slot[e] = r
    <2>1. CASE r < p.alloc
      BY <2>1, <1>7, <1>9 DEF Book
    <2>2. CASE ~(r < p.alloc)
      <3>1. p.alloc <= r
        BY <2>2, <1>0, <1>8
      <3> QED BY <3>1, <1>3, <1>7, <1>11
    <2> QED BY <2>1, <2>2
  <1>12. Book(q)
    BY <1>3, <1>7, <1>10, <1>11 DEF Book
  <1> QED BY <1>5, <1>7, <1>12 DEF q

\* So does the first allocation.
LEMMA AllocPoolFacts ==
  ASSUME NEW p \in PoolT, Book(p), mode # "dual"
  PROVE  LET q == AllocPool(p) IN
         /\ q \in PoolT /\ Book(q) /\ q.lru = p.lru /\ q.slot = p.slot
         /\ q.pinned = p.pinned /\ q.bytes = p.bytes /\ q.ok = p.ok
  <1>1. CASE p.alloc # 0
    BY <1>1 DEF AllocPool
  <1>2. CASE p.alloc = 0
    <2> DEFINE n == Smaller(InitSlots, Cap)
               s == [i \in 1 .. n |-> i - 1]
               q == AllocPool(p)
    <2>0. n \in 0 .. Cap /\ Cap \in Nat /\ n \in Nat
      BY PoolAssumption DEF Smaller
    <2>1. q = [p EXCEPT !.alloc = n, !.free = s]
      BY <1>2 DEF AllocPool
    <2> HIDE DEF n, q
    <2>2. s \in Seq(Rows) /\ IsInjective(s) /\ ToSet(s) = {r \in Rows : 0 <= r /\ r < n}
      <3> DEFINE z == [i \in 1 .. n - 0 |-> 0 + i - 1]
      <3>1. z \in Seq(Rows) /\ IsInjective(z) /\ ToSet(z) = {r \in Rows : 0 <= r /\ r < n}
        <4>1. 0 \in 0 .. Cap /\ n \in 0 .. Cap
          BY <2>0
        <4> QED BY <4>1, Span
      <3>2. z = s
        BY <2>0
      <3> QED BY <3>1, <3>2
    <2> HIDE DEF s
    <2>3. /\ q \in PoolT /\ q.alloc = n /\ q.free = s /\ q.lru = p.lru /\ q.slot = p.slot /\ q.table = p.table
          /\ q.pinned = p.pinned /\ q.bytes = p.bytes /\ q.ok = p.ok
      BY <2>0, <2>1, <2>2 DEF PoolT
    <2>4. \A e \in Experts : p.slot[e] = None
      <3> SUFFICES ASSUME NEW e \in Experts, p.slot[e] # None PROVE FALSE
        OBVIOUS
      <3>1. p.slot[e] \in Rows /\ p.slot[e] < 0
        BY <1>2 DEF Book, PoolT
      <3> QED BY <3>1, <2>0 DEF Rows
    <2>5. \A r \in Rows : r < n => r \in ToSet(s)
      BY <2>0, <2>2 DEF Rows
    <2>6. Book(q)
      BY <2>2, <2>3, <2>4, <2>5 DEF Book
    <2> QED BY <2>3, <2>6 DEF q
  <1> QED BY <1>1, <1>2

\* The victim is resident, and neither pinned nor of the batch.
LEMMA VictimIn ==
  ASSUME NEW p \in PoolT, NEW current, Candidates(p, current) # <<>>
  PROVE  Victim(p, current) \in ToSet(p.lru) \ (p.pinned \cup current)
  <1> DEFINE c == Candidates(p, current)
  <1>1. c \in Seq(Experts) /\ ToSet(c) = ToSet(p.lru) \ (p.pinned \cup current)
    <2>1. p.lru \in Seq(Experts)
      BY DEF PoolT
    <2> QED BY <2>1, WithoutFacts DEF Candidates
  <1> HIDE DEF c
  <1>2. c # <<>> /\ DOMAIN c = 1 .. Len(c) /\ Len(c) \in Nat \ {0} /\ \A i \in 1 .. Len(c) : c[i] \in Experts
    BY <1>1 DEF c
  <1>3. \A i \in 1 .. Len(c) : c[i] \in ToSet(c)
    BY <1>1, SeqSet
  <1>4. CASE policy = "lru"
    <2>1. Victim(p, current) = c[1] /\ 1 \in 1 .. Len(c)
      BY <1>2, <1>4 DEF Victim, c
    <2> QED BY <2>1, <1>1, <1>3
  <1>5. CASE policy # "lru"
    <2> DEFINE f(i) == p.freq[c[i]]
               Best(i) == \A j \in DOMAIN c : f(i) < f(j) \/ (f(i) = f(j) /\ i <= j)
               V == {f(i) : i \in 1 .. Len(c)}
    <2>0. \A i \in 1 .. Len(c) : f(i) \in Nat
      BY <1>2 DEF PoolT
    <2>1. V \in SUBSET Nat /\ V # {}
      <3>1. 1 \in 1 .. Len(c)
        BY <1>2
      <3> QED BY <2>0, <3>1
    <2> HIDE DEF f
    <2>2. PICK a \in V : \A y \in V : a <= y
      <3> HIDE DEF V
      <3> QED BY <2>1, LeastElement, Zenon
    <2> DEFINE I == {i \in 1 .. Len(c) : f(i) = a}
    <2>3. I \in SUBSET Nat /\ I # {}
      <3>1. PICK i \in 1 .. Len(c) : f(i) = a
        BY <2>2
      <3> QED BY <3>1
    <2>4. PICK m \in I : \A y \in I : m <= y
      <3> HIDE DEF I
      <3> QED BY <2>3, LeastElement, Zenon
    <2>5. m \in 1 .. Len(c) /\ Best(m)
      <3>1. m \in 1 .. Len(c) /\ f(m) = a
        BY <2>4
      <3>2. ASSUME NEW j \in 1 .. Len(c) PROVE f(m) < f(j) \/ (f(m) = f(j) /\ m <= j)
        <4>1. a <= f(j) /\ f(j) \in Nat /\ a \in Nat
          BY <2>0, <2>1, <2>2
        <4>2. CASE f(j) = a
          <5>1. j \in I
            BY <4>2
          <5> QED BY <5>1, <4>2, <3>1, <2>4
        <4>3. CASE f(j) # a
          BY <4>1, <4>3, <3>1
        <4> QED BY <4>2, <4>3
      <3> QED BY <3>1, <3>2, <1>2
    <2>6. (CHOOSE i \in DOMAIN c : Best(i)) \in DOMAIN c
      <3> HIDE DEF Best
      <3> QED BY <2>5, <1>2
    <2>7. Victim(p, current) = c[CHOOSE i \in DOMAIN c : Best(i)]
      BY <1>5 DEF Victim, c, f
    <2> HIDE DEF Best
    <2> QED BY <2>6, <2>7, <1>1, <1>2, <1>3
  <1> QED BY <1>4, <1>5

\* What _alloc_slot makes of the pool p.
Allocated(p, e, P, q) ==
    /\ q \in PoolT /\ Book(q) /\ q.pinned = p.pinned /\ q.bytes = p.bytes
    /\ \A x \in Experts : x # e /\ q.slot[x] # None => q.slot[x] = p.slot[x]
    /\ ~q.ok => q.slot = p.slot /\ Over(q, P, {e})

\* _alloc_slot keeps the books, moves no other expert, and fails only for
\* want of rows.
LEMMA AllocSlotFacts ==
  ASSUME NEW p \in PoolT, Book(p), p.ok, NEW e \in Experts, NEW current
  PROVE  Allocated(p, e, p.pinned \cup current, AllocSlot(p, e, current))
  <1> DEFINE q == IF p.free = <<>> /\ p.alloc < Cap THEN Grow(p) ELSE p
             P == p.pinned \cup current
  <1>1. /\ q \in PoolT /\ Book(q) /\ q.lru = p.lru /\ q.slot = p.slot
        /\ q.pinned = p.pinned /\ q.bytes = p.bytes /\ q.ok = p.ok
        /\ q.free = <<>> => q.alloc = Cap
    <2>1. CASE p.free = <<>> /\ p.alloc < Cap
      <3> DEFINE g == Grow(p)
      <3>1. /\ g \in PoolT /\ Book(g) /\ g.free # <<>> /\ g.lru = p.lru /\ g.slot = p.slot
            /\ g.pinned = p.pinned /\ g.bytes = p.bytes /\ g.ok = p.ok
        BY <2>1, GrowFacts
      <3> HIDE DEF g
      <3>2. q = g
        BY <2>1 DEF g
      <3> HIDE DEF q
      <3> QED BY <3>1, <3>2
    <2>2. CASE ~(p.free = <<>> /\ p.alloc < Cap)
      <3>1. q = p
        BY <2>2
      <3>2. p.alloc \in 0 .. Cap /\ Cap \in Nat
        BY PoolAssumption DEF PoolT
      <3>3. p.free = <<>> => p.alloc = Cap
        BY <2>2, <3>2
      <3> HIDE DEF q
      <3> QED BY <3>1, <3>3
    <2> QED BY <2>1, <2>2
  <1>2. AllocSlot(p, e, current) =
          IF e \in Resident(p) THEN Touch(p, e)
          ELSE IF q.free # <<>> THEN Seat([q EXCEPT !.free = Tail(@)], e, Head(q.free))
          ELSE IF Candidates(q, current) = <<>> THEN [q EXCEPT !.ok = FALSE]
          ELSE Seat(Evict(q, Victim(q, current)), e, q.slot[Victim(q, current)])
    BY DEF AllocSlot
  <1> HIDE DEF q
  <1>3. CASE e \in Resident(p)
    <2> DEFINE r == Touch(p, e)
    <2>1. /\ r \in PoolT /\ ToSet(r.lru) = ToSet(p.lru) \cup {e}
          /\ r.alloc = p.alloc /\ r.free = p.free /\ r.slot = p.slot /\ r.table = p.table
          /\ r.pinned = p.pinned /\ r.bytes = p.bytes /\ r.ok = p.ok
      BY TouchFacts
    <2> HIDE DEF r
    <2>2. ToSet(r.lru) = ToSet(p.lru)
      BY <1>3, <2>1 DEF Resident
    <2>3. Book(r)
      BY <2>1, <2>2 DEF Book
    <2>4. Allocated(p, e, P, r)
      BY <2>1, <2>3 DEF Allocated
    <2> QED BY <1>2, <1>3, <2>4 DEF r
  <1>4. CASE e \notin Resident(p)
    <2>0. q.slot[e] = None
      BY <1>1, <1>4 DEF Resident, Book
    <2>1. CASE q.free # <<>>
      <3> DEFINE s == [q EXCEPT !.free = Tail(@)]
                 h == Head(q.free)
                 r == Seat(s, e, h)
      <3>1. /\ s \in PoolT /\ h \in Rows /\ Hole(s, h) /\ s.slot = q.slot
            /\ s.pinned = q.pinned /\ s.bytes = q.bytes /\ s.ok = q.ok
        BY <1>1, <2>1, FreeHole
      <3>2. AllocSlot(p, e, current) = r
        BY <1>2, <1>4, <2>1
      <3> HIDE DEF s, h
      <3>3. /\ r \in PoolT /\ Book(r) /\ r.slot = [s.slot EXCEPT ![e] = h]
            /\ r.pinned = s.pinned /\ r.bytes = s.bytes /\ r.ok = s.ok
        BY <2>0, <3>1, SeatInHole
      <3> HIDE DEF r
      <3>4. p.slot \in [Experts -> Rows \cup {None}]
        BY DEF PoolT
      <3>5. \A x \in Experts : x # e => r.slot[x] = p.slot[x]
        BY <1>1, <3>1, <3>3, <3>4
      <3> QED BY <1>1, <3>1, <3>2, <3>3, <3>5 DEF Allocated
    <2>2. CASE q.free = <<>> /\ Candidates(q, current) = <<>>
      <3> DEFINE r == [q EXCEPT !.ok = FALSE]
      <3>1. AllocSlot(p, e, current) = r
        BY <1>2, <1>4, <2>2
      <3>2. /\ r \in PoolT /\ r.lru = q.lru /\ r.alloc = q.alloc /\ r.free = q.free /\ r.slot = q.slot
            /\ r.table = q.table /\ r.pinned = q.pinned /\ r.bytes = q.bytes /\ r.ok = FALSE
        BY <1>1 DEF PoolT
      <3> HIDE DEF r
      <3>3. Book(r)
        BY <1>1, <3>2 DEF Book
      <3>4. ToSet(q.lru) \subseteq P
        <4>1. q.lru \in Seq(Experts)
          BY <1>1 DEF PoolT
        <4>2. ToSet(Candidates(q, current)) = ToSet(q.lru) \ (q.pinned \cup current)
          BY <4>1, WithoutFacts DEF Candidates
        <4>3. ToSet(<<>>) = {}
          BY DEF ToSet
        <4> QED BY <1>1, <2>2, <4>2, <4>3
      <3>5. Over(r, P, {e})
        BY <1>1, <2>0, <2>2, <3>2, <3>4 DEF Over
      <3> QED BY <1>1, <3>1, <3>2, <3>3, <3>5 DEF Allocated
    <2>3. CASE q.free = <<>> /\ Candidates(q, current) # <<>>
      <3> DEFINE v == Victim(q, current)
                 s == Evict(q, v)
                 h == q.slot[v]
                 r == Seat(s, e, h)
      <3>1. AllocSlot(p, e, current) = r
        BY <1>2, <1>4, <2>3
      <3>2. v \in ToSet(q.lru)
        BY <1>1, <2>3, VictimIn
      <3> HIDE DEF v
      <3>3. /\ v \in Experts /\ h \in Rows
            /\ s \in PoolT /\ Hole(s, h) /\ s.slot = [q.slot EXCEPT ![v] = None]
            /\ s.pinned = q.pinned /\ s.bytes = q.bytes /\ s.ok = q.ok
        BY <1>1, <3>2, EvictHole
      <3>4. q.slot \in [Experts -> Rows \cup {None}]
        BY <1>1 DEF PoolT
      <3> HIDE DEF s, h
      <3>5. s.slot[e] = None
        BY <2>0, <3>3, <3>4
      <3>6. /\ r \in PoolT /\ Book(r) /\ r.slot = [s.slot EXCEPT ![e] = h]
            /\ r.pinned = s.pinned /\ r.bytes = s.bytes /\ r.ok = s.ok
        <4>1. s \in PoolT /\ h \in Rows /\ Hole(s, h) /\ s.slot[e] = None
          BY <3>3, <3>5
        <4> QED BY <4>1, SeatInHole
      <3> HIDE DEF r
      <3>7. \A x \in Experts : x # e /\ r.slot[x] # None => r.slot[x] = p.slot[x]
        BY <1>1, <3>3, <3>4, <3>6
      <3> QED BY <1>1, <3>1, <3>3, <3>6, <3>7 DEF Allocated
    <2> QED BY <2>1, <2>2, <2>3
  <1> QED BY <1>3, <1>4

\* The write makes right what was allocated.
LEMMA WriteFacts ==
  ASSUME NEW p \in PoolT, Book(p), NEW ids \in SUBSET Experts, NEW X, Right(p, X \cup ids)
  PROVE  LET q == WriteRows(p, ids) IN
         /\ q \in PoolT /\ Book(q) /\ Right(q, X) /\ q.pinned = p.pinned /\ q.ok = p.ok
  <1> DEFINE Here1(r) == \E e \in ids : p.slot[e] = r
             W(r) == IF Here1(r) THEN CHOOSE e \in ids : p.slot[e] = r ELSE p.bytes[r]
             q == WriteRows(p, ids)
  <1>1. q = [p EXCEPT !.bytes = [r \in Rows |-> W(r)]]
    BY DEF WriteRows
  <1>2. \A r \in Rows : W(r) \in Experts \cup {None}
    BY DEF PoolT
  <1>3. \A e \in ids : W(p.slot[e]) \in ids /\ p.slot[W(p.slot[e])] = p.slot[e]
    OBVIOUS
  <1>4. \A r : ~Here1(r) => W(r) = p.bytes[r]
    OBVIOUS
  <1> HIDE DEF W, q
  <1>5. /\ q \in PoolT /\ q.bytes = [r \in Rows |-> W(r)] /\ q.lru = p.lru /\ q.alloc = p.alloc
        /\ q.free = p.free /\ q.slot = p.slot /\ q.table = p.table /\ q.pinned = p.pinned /\ q.ok = p.ok
    BY <1>1, <1>2 DEF PoolT
  <1>6. Book(q)
    BY <1>5 DEF Book
  <1>7. Right(q, X)
    <2> SUFFICES ASSUME NEW e \in Experts \ X, p.slot[e] # None PROVE W(p.slot[e]) = e
      <3>1. \A e \in Experts : p.slot[e] # None => p.slot[e] \in Rows
        BY DEF PoolT
      <3> QED BY <1>5, <3>1 DEF Right
    <2>1. CASE e \in ids
      BY <2>1, <1>3 DEF Book
    <2>2. CASE e \notin ids
      <3>1. ~Here1(p.slot[e])
        BY <2>2 DEF Book
      <3> QED BY <2>2, <3>1, <1>4 DEF Right
    <2> QED BY <2>1, <2>2
  <1> QED BY <1>5, <1>6, <1>7 DEF q

\* _place_expert.
LEMMA PlaceFacts ==
  ASSUME NEW p \in PoolT, Book(p), p.ok, mode # "dual", NEW e \in Experts, NEW current, NEW X, Right(p, X)
  PROVE  LET q == Place(p, e, current) IN
         /\ q \in PoolT /\ Book(q) /\ Right(q, X) /\ q.pinned = p.pinned
         /\ ~q.ok => Over(q, p.pinned \cup current, {e})
  <1> DEFINE a == AllocPool(p)
             b == AllocSlot(a, e, current)
             q == Place(p, e, current)
             P == p.pinned \cup current
  <1>1. /\ a \in PoolT /\ Book(a) /\ a.slot = p.slot
        /\ a.pinned = p.pinned /\ a.bytes = p.bytes /\ a.ok = p.ok
    BY AllocPoolFacts
  <1>2. q = IF b.ok THEN WriteRows(b, {e}) ELSE b
    BY DEF Place
  <1> HIDE DEF a, q
  <1>3. Allocated(a, e, P, b)
    BY <1>1, AllocSlotFacts
  <1> HIDE DEF b
  <1>4. /\ b \in PoolT /\ Book(b) /\ b.pinned = p.pinned
        /\ Right(b, X \cup {e}) /\ (~b.ok => Right(b, X) /\ Over(b, P, {e}))
    BY <1>1, <1>3 DEF Allocated, Right
  <1>5. CASE b.ok
    <2>1. q = WriteRows(b, {e}) /\ {e} \in SUBSET Experts
      BY <1>2, <1>5
    <2>2. q \in PoolT /\ Book(q) /\ Right(q, X) /\ q.pinned = b.pinned /\ q.ok = b.ok
      BY <1>4, <2>1, WriteFacts
    <2> QED BY <1>4, <1>5, <2>2 DEF q
  <1>6. CASE ~b.ok
    BY <1>2, <1>4, <1>6 DEF q
  <1> QED BY <1>5, <1>6
-----------------------------------------------------------------------------
(* ResidentPool: its loops, each inside a set closed under its step.       *)

\* A set that AllocSlot does not leave is not left by AllocAll.
LEMMA AllocAllLoop ==
  ASSUME NEW A, NEW B, NEW a \in A, NEW s \in Seq(B), NEW current,
         \A x \in A, e \in B : (IF x.ok THEN AllocSlot(x, e, current) ELSE x) \in A
  PROVE  AllocAll(a, s, current) \in A
  <1> DEFINE Op(x, e) == (IF x.ok THEN AllocSlot(x, e, current) ELSE x)
             F == [w \in A \X B |-> Op(w[1], w[2])]
             G(g) == [d \in SUBSET (1 .. Len(s)) |->
                         IF d = {} THEN a ELSE Op(g[d \ {Max(d)}], s[Max(d)])]
             h == CHOOSE g : g = G(g)
  <1>0. DOMAIN s = 1 .. Len(s) /\ Len(s) \in Nat
    OBVIOUS
  <1>1. Typed(A, B, F, a, s)
    <2>1. \A x \in A, e \in B : Op(x, e) \in A
      OBVIOUS
    <2> HIDE DEF Op
    <2>2. F \in [A \X B -> A]
      BY <2>1
    <2> QED BY <2>2 DEF Typed
  <1>2. AllocAll(a, s, current) = h[1 .. Len(s)]
    BY <1>0 DEF AllocAll, FoldLeft, MapThenFoldSet
  <1> HIDE DEF Op
  <1>3. \E g : g = G(g)
    <2>1. PICK g \in [SUBSET (1 .. Len(s)) -> A] : Iterates(F, a, s, Len(s), g)
      BY <1>1, IterExists
    <2>2. ASSUME NEW d \in SUBSET (1 .. Len(s)), d # {} PROVE g[d \ {Max(d)}] \in A /\ s[Max(d)] \in B
      <3>1. Max(d) \in 1 .. Len(s)
        BY <2>2, <1>0, MaxIn
      <3>2. d \ {Max(d)} \in SUBSET (1 .. Len(s))
        OBVIOUS
      <3>3. g[d \ {Max(d)}] \in A
        BY <3>2, Zenon
      <3> QED BY <3>1, <3>3
    <2>3. g = G(g)
      BY <2>1, <2>2 DEF Iterates
    <2> QED BY <2>3
  <1>4. h = G(h)
    BY <1>3
  <1> HIDE DEF h
  <1>5. Solves(A, F, a, s, h)
    <2>1. h[{}] = a
      BY <1>4
    <2> SUFFICES ASSUME NEW d \in SUBSET (1 .. Len(s)), d # {}, h[d \ {Max(d)}] \in A
                 PROVE  h[d] = F[<<h[d \ {Max(d)}], s[Max(d)]>>]
      BY <2>1 DEF Solves
    <2>2. s[Max(d)] \in B
      <3>1. Max(d) \in 1 .. Len(s)
        BY <1>0, MaxIn
      <3> QED BY <3>1
    <2>3. h[d] = Op(h[d \ {Max(d)}], s[Max(d)])
      BY <1>4
    <2> QED BY <2>2, <2>3
  <1>6. PICK f : Goes(A, F, a, s, f) /\ f[Len(s)] = h[1 .. Len(s)]
    <2> HIDE DEF F, G
    <2> QED BY <1>1, <1>5, Unroll
  <1>7. f[Len(s)] \in A
    BY <1>0, <1>6 DEF Goes
  <1> QED BY <1>2, <1>6, <1>7

\* The same for the loop of PlaceMissing ...
LEMMA PlaceMissingLoop ==
  ASSUME NEW A, NEW B, NEW a \in A, NEW s \in Seq(B), NEW current, NEW touch,
         \A x \in A, e \in B : (IF ~x.ok THEN x ELSE IF e \notin Resident(x) THEN Place(x, e, current) ELSE IF touch THEN Touch(x, e) ELSE x) \in A
  PROVE  PlaceMissing(a, s, current, touch) \in A
  <1> DEFINE Op(x, e) == (IF ~x.ok THEN x ELSE IF e \notin Resident(x) THEN Place(x, e, current) ELSE IF touch THEN Touch(x, e) ELSE x)
             F == [w \in A \X B |-> Op(w[1], w[2])]
             G(g) == [d \in SUBSET (1 .. Len(s)) |->
                         IF d = {} THEN a ELSE Op(g[d \ {Max(d)}], s[Max(d)])]
             h == CHOOSE g : g = G(g)
  <1>0. DOMAIN s = 1 .. Len(s) /\ Len(s) \in Nat
    OBVIOUS
  <1>1. Typed(A, B, F, a, s)
    <2>1. \A x \in A, e \in B : Op(x, e) \in A
      OBVIOUS
    <2> HIDE DEF Op
    <2>2. F \in [A \X B -> A]
      BY <2>1
    <2> QED BY <2>2 DEF Typed
  <1>2. PlaceMissing(a, s, current, touch) = h[1 .. Len(s)]
    BY <1>0 DEF PlaceMissing, FoldLeft, MapThenFoldSet
  <1> HIDE DEF Op
  <1>3. \E g : g = G(g)
    <2>1. PICK g \in [SUBSET (1 .. Len(s)) -> A] : Iterates(F, a, s, Len(s), g)
      BY <1>1, IterExists
    <2>2. ASSUME NEW d \in SUBSET (1 .. Len(s)), d # {} PROVE g[d \ {Max(d)}] \in A /\ s[Max(d)] \in B
      <3>1. Max(d) \in 1 .. Len(s)
        BY <2>2, <1>0, MaxIn
      <3>2. d \ {Max(d)} \in SUBSET (1 .. Len(s))
        OBVIOUS
      <3>3. g[d \ {Max(d)}] \in A
        BY <3>2, Zenon
      <3> QED BY <3>1, <3>3
    <2>3. g = G(g)
      BY <2>1, <2>2 DEF Iterates
    <2> QED BY <2>3
  <1>4. h = G(h)
    BY <1>3
  <1> HIDE DEF h
  <1>5. Solves(A, F, a, s, h)
    <2>1. h[{}] = a
      BY <1>4
    <2> SUFFICES ASSUME NEW d \in SUBSET (1 .. Len(s)), d # {}, h[d \ {Max(d)}] \in A
                 PROVE  h[d] = F[<<h[d \ {Max(d)}], s[Max(d)]>>]
      BY <2>1 DEF Solves
    <2>2. s[Max(d)] \in B
      <3>1. Max(d) \in 1 .. Len(s)
        BY <1>0, MaxIn
      <3> QED BY <3>1
    <2>3. h[d] = Op(h[d \ {Max(d)}], s[Max(d)])
      BY <1>4
    <2> QED BY <2>2, <2>3
  <1>6. PICK f : Goes(A, F, a, s, f) /\ f[Len(s)] = h[1 .. Len(s)]
    <2> HIDE DEF F, G
    <2> QED BY <1>1, <1>5, Unroll
  <1>7. f[Len(s)] \in A
    BY <1>0, <1>6 DEF Goes
  <1> QED BY <1>2, <1>6, <1>7

\* ... of PinAll ...
LEMMA PinAllLoop ==
  ASSUME NEW A, NEW B, NEW a \in A, NEW s \in Seq(B),
         \A x \in A, e \in B : PinOne(x, e) \in A
  PROVE  PinAll(a, s) \in A
  <1> DEFINE Op(x, e) == PinOne(x, e)
             F == [w \in A \X B |-> Op(w[1], w[2])]
             G(g) == [d \in SUBSET (1 .. Len(s)) |->
                         IF d = {} THEN a ELSE Op(g[d \ {Max(d)}], s[Max(d)])]
             h == CHOOSE g : g = G(g)
  <1>0. DOMAIN s = 1 .. Len(s) /\ Len(s) \in Nat
    OBVIOUS
  <1>1. Typed(A, B, F, a, s)
    <2>1. \A x \in A, e \in B : Op(x, e) \in A
      OBVIOUS
    <2> HIDE DEF Op
    <2>2. F \in [A \X B -> A]
      BY <2>1
    <2> QED BY <2>2 DEF Typed
  <1>2. PinAll(a, s) = h[1 .. Len(s)]
    BY <1>0 DEF PinAll, FoldLeft, MapThenFoldSet
  <1> HIDE DEF Op
  <1>3. \E g : g = G(g)
    <2>1. PICK g \in [SUBSET (1 .. Len(s)) -> A] : Iterates(F, a, s, Len(s), g)
      BY <1>1, IterExists
    <2>2. ASSUME NEW d \in SUBSET (1 .. Len(s)), d # {} PROVE g[d \ {Max(d)}] \in A /\ s[Max(d)] \in B
      <3>1. Max(d) \in 1 .. Len(s)
        BY <2>2, <1>0, MaxIn
      <3>2. d \ {Max(d)} \in SUBSET (1 .. Len(s))
        OBVIOUS
      <3>3. g[d \ {Max(d)}] \in A
        BY <3>2, Zenon
      <3> QED BY <3>1, <3>3
    <2>3. g = G(g)
      BY <2>1, <2>2 DEF Iterates
    <2> QED BY <2>3
  <1>4. h = G(h)
    BY <1>3
  <1> HIDE DEF h
  <1>5. Solves(A, F, a, s, h)
    <2>1. h[{}] = a
      BY <1>4
    <2> SUFFICES ASSUME NEW d \in SUBSET (1 .. Len(s)), d # {}, h[d \ {Max(d)}] \in A
                 PROVE  h[d] = F[<<h[d \ {Max(d)}], s[Max(d)]>>]
      BY <2>1 DEF Solves
    <2>2. s[Max(d)] \in B
      <3>1. Max(d) \in 1 .. Len(s)
        BY <1>0, MaxIn
      <3> QED BY <3>1
    <2>3. h[d] = Op(h[d \ {Max(d)}], s[Max(d)])
      BY <1>4
    <2> QED BY <2>2, <2>3
  <1>6. PICK f : Goes(A, F, a, s, f) /\ f[Len(s)] = h[1 .. Len(s)]
    <2> HIDE DEF F, G
    <2> QED BY <1>1, <1>5, Unroll
  <1>7. f[Len(s)] \in A
    BY <1>0, <1>6 DEF Goes
  <1> QED BY <1>2, <1>6, <1>7

\* ... of GiveAll ...
LEMMA GiveAllLoop ==
  ASSUME NEW A, NEW B, NEW a \in A, NEW s \in Seq(B),
         \A x \in A, e \in B : Give(x, e, s) \in A
  PROVE  GiveAll(a, s) \in A
  <1> DEFINE Op(x, e) == Give(x, e, s)
             F == [w \in A \X B |-> Op(w[1], w[2])]
             G(g) == [d \in SUBSET (1 .. Len(s)) |->
                         IF d = {} THEN a ELSE Op(g[d \ {Max(d)}], s[Max(d)])]
             h == CHOOSE g : g = G(g)
  <1>0. DOMAIN s = 1 .. Len(s) /\ Len(s) \in Nat
    OBVIOUS
  <1>1. Typed(A, B, F, a, s)
    <2>1. \A x \in A, e \in B : Op(x, e) \in A
      OBVIOUS
    <2> HIDE DEF Op
    <2>2. F \in [A \X B -> A]
      BY <2>1
    <2> QED BY <2>2 DEF Typed
  <1>2. GiveAll(a, s) = h[1 .. Len(s)]
    BY <1>0 DEF GiveAll, FoldLeft, MapThenFoldSet
  <1> HIDE DEF Op
  <1>3. \E g : g = G(g)
    <2>1. PICK g \in [SUBSET (1 .. Len(s)) -> A] : Iterates(F, a, s, Len(s), g)
      BY <1>1, IterExists
    <2>2. ASSUME NEW d \in SUBSET (1 .. Len(s)), d # {} PROVE g[d \ {Max(d)}] \in A /\ s[Max(d)] \in B
      <3>1. Max(d) \in 1 .. Len(s)
        BY <2>2, <1>0, MaxIn
      <3>2. d \ {Max(d)} \in SUBSET (1 .. Len(s))
        OBVIOUS
      <3>3. g[d \ {Max(d)}] \in A
        BY <3>2, Zenon
      <3> QED BY <3>1, <3>3
    <2>3. g = G(g)
      BY <2>1, <2>2 DEF Iterates
    <2> QED BY <2>3
  <1>4. h = G(h)
    BY <1>3
  <1> HIDE DEF h
  <1>5. Solves(A, F, a, s, h)
    <2>1. h[{}] = a
      BY <1>4
    <2> SUFFICES ASSUME NEW d \in SUBSET (1 .. Len(s)), d # {}, h[d \ {Max(d)}] \in A
                 PROVE  h[d] = F[<<h[d \ {Max(d)}], s[Max(d)]>>]
      BY <2>1 DEF Solves
    <2>2. s[Max(d)] \in B
      <3>1. Max(d) \in 1 .. Len(s)
        BY <1>0, MaxIn
      <3> QED BY <3>1
    <2>3. h[d] = Op(h[d \ {Max(d)}], s[Max(d)])
      BY <1>4
    <2> QED BY <2>2, <2>3
  <1>6. PICK f : Goes(A, F, a, s, f) /\ f[Len(s)] = h[1 .. Len(s)]
    <2> HIDE DEF F, G
    <2> QED BY <1>1, <1>5, Unroll
  <1>7. f[Len(s)] \in A
    BY <1>0, <1>6 DEF Goes
  <1> QED BY <1>2, <1>6, <1>7

\* ... and of Hits.
LEMMA HitsLoop ==
  ASSUME NEW A, NEW B, NEW a \in A, NEW s \in Seq(B), NEW p, a = NoteAccess(p, s),
         \A x \in A, e \in B : (IF e \in Resident(x) THEN Touch(x, e) ELSE x) \in A
  PROVE  Hits(p, s) \in A
  <1> DEFINE Op(x, e) == (IF e \in Resident(x) THEN Touch(x, e) ELSE x)
             F == [w \in A \X B |-> Op(w[1], w[2])]
             G(g) == [d \in SUBSET (1 .. Len(s)) |->
                         IF d = {} THEN a ELSE Op(g[d \ {Max(d)}], s[Max(d)])]
             h == CHOOSE g : g = G(g)
  <1>0. DOMAIN s = 1 .. Len(s) /\ Len(s) \in Nat
    OBVIOUS
  <1>1. Typed(A, B, F, a, s)
    <2>1. \A x \in A, e \in B : Op(x, e) \in A
      OBVIOUS
    <2> HIDE DEF Op
    <2>2. F \in [A \X B -> A]
      BY <2>1
    <2> QED BY <2>2 DEF Typed
  <1>2. Hits(p, s) = h[1 .. Len(s)]
    BY <1>0 DEF Hits, FoldLeft, MapThenFoldSet
  <1> HIDE DEF Op
  <1>3. \E g : g = G(g)
    <2>1. PICK g \in [SUBSET (1 .. Len(s)) -> A] : Iterates(F, a, s, Len(s), g)
      BY <1>1, IterExists
    <2>2. ASSUME NEW d \in SUBSET (1 .. Len(s)), d # {} PROVE g[d \ {Max(d)}] \in A /\ s[Max(d)] \in B
      <3>1. Max(d) \in 1 .. Len(s)
        BY <2>2, <1>0, MaxIn
      <3>2. d \ {Max(d)} \in SUBSET (1 .. Len(s))
        OBVIOUS
      <3>3. g[d \ {Max(d)}] \in A
        BY <3>2, Zenon
      <3> QED BY <3>1, <3>3
    <2>3. g = G(g)
      BY <2>1, <2>2 DEF Iterates
    <2> QED BY <2>3
  <1>4. h = G(h)
    BY <1>3
  <1> HIDE DEF h
  <1>5. Solves(A, F, a, s, h)
    <2>1. h[{}] = a
      BY <1>4
    <2> SUFFICES ASSUME NEW d \in SUBSET (1 .. Len(s)), d # {}, h[d \ {Max(d)}] \in A
                 PROVE  h[d] = F[<<h[d \ {Max(d)}], s[Max(d)]>>]
      BY <2>1 DEF Solves
    <2>2. s[Max(d)] \in B
      <3>1. Max(d) \in 1 .. Len(s)
        BY <1>0, MaxIn
      <3> QED BY <3>1
    <2>3. h[d] = Op(h[d \ {Max(d)}], s[Max(d)])
      BY <1>4
    <2> QED BY <2>2, <2>3
  <1>6. PICK f : Goes(A, F, a, s, f) /\ f[Len(s)] = h[1 .. Len(s)]
    <2> HIDE DEF F, G
    <2> QED BY <1>1, <1>5, Unroll
  <1>7. f[Len(s)] \in A
    BY <1>0, <1>6 DEF Goes
  <1> QED BY <1>2, <1>6, <1>7

\* A route: experts, no more of them than rows.
LEMMA ListFacts ==
  ASSUME NEW ids \in Lists
  PROVE  /\ ids \in Seq(Experts) /\ ids \in Seq(ToSet(ids)) /\ ToSet(ids) \subseteq Experts /\ ToSet(ids) # {}
         /\ IsFiniteSet(ToSet(ids)) /\ Cardinality(ToSet(ids)) <= Cap
  <1>1. PICK n \in 1 .. MaxRoute : ids \in [1 .. n -> Experts]
    BY DEF Lists
  <1>2. n \in Nat /\ n >= 1 /\ n <= Cap /\ Cap \in Nat
    BY PoolAssumption
  <1>3. DOMAIN ids = 1 .. n /\ Len(ids) = n
    BY <1>1, <1>2
  <1>4. ToSet(ids) \subseteq Experts /\ \A i \in 1 .. n : ids[i] \in ToSet(ids)
    BY <1>1 DEF ToSet
  <1>5. ids \in [1 .. n -> ToSet(ids)]
    BY <1>1, <1>4
  <1>6. ids \in Seq(Experts) /\ ids \in Seq(ToSet(ids)) /\ ToSet(ids) # {}
    <2>1. 1 \in 1 .. n
      BY <1>2
    <2> QED BY <1>1, <1>2, <1>4, <1>5, <2>1
  <1>7. ids \in Surjection(1 .. n, ToSet(ids))
    BY <1>1, <1>5 DEF Surjection, ToSet
  <1>8. IsFiniteSet(1 .. n) /\ Cardinality(1 .. n) = n
    <2>1. Cardinality(1 .. n) = IF 1 > n THEN 0 ELSE n - 1 + 1
      BY <1>2, FS_Interval
    <2> QED BY <2>1, <1>2, FS_Interval
  <1>9. IsFiniteSet(ToSet(ids)) /\ Cardinality(ToSet(ids)) <= n
    BY <1>7, <1>8, FS_Surjection
  <1>10. Cardinality(ToSet(ids)) \in Nat
    BY <1>9, FS_CardinalityType
  <1> QED BY <1>2, <1>4, <1>6, <1>9, <1>10

\* A list is a list of its own elements.
LEMMA SeqOfOwn ==
  ASSUME NEW B, NEW s \in Seq(B)
  PROVE  s \in Seq(ToSet(s)) /\ ToSet(s) \subseteq B
  <1>1. \A i \in 1 .. Len(s) : s[i] \in ToSet(s)
    BY SeqSet
  <1>2. s \in [1 .. Len(s) -> ToSet(s)] /\ Len(s) \in Nat
    BY <1>1
  <1> QED BY <1>2, SeqSet

\* Counting accesses changes the counters only.
LEMMA NoteAccessFacts ==
  ASSUME NEW p \in PoolT, NEW ids \in Seq(Experts)
  PROVE  LET q == NoteAccess(p, ids) IN
         /\ q \in PoolT /\ q.lru = p.lru /\ q.alloc = p.alloc /\ q.free = p.free /\ q.slot = p.slot
         /\ q.table = p.table /\ q.pinned = p.pinned /\ q.bytes = p.bytes /\ q.ok = p.ok
  <1> DEFINE f == [e \in Experts |-> p.freq[e] + (IF e \in ToSet(ids) THEN 1 ELSE 0)]
             n == p.count + Len(ids)
             g == [e \in Experts |-> f[e] \div 2]
  <1>1. f \in [Experts -> Nat]
    BY DEF PoolT
  <1>2. n \in Nat
    BY DEF PoolT
  <1> HIDE DEF f, n
  <1>3. g \in [Experts -> Nat]
    <2>1. ASSUME NEW k \in Nat PROVE k \div 2 \in Nat
      OBVIOUS
    <2> QED BY <1>1, <2>1
  <1>4. NoteAccess(p, ids) = IF policy # "lfu" THEN p
                             ELSE IF n < Decay THEN [p EXCEPT !.freq = f, !.count = n]
                             ELSE [p EXCEPT !.freq = g, !.count = 0]
    BY DEF NoteAccess, f, n
  <1> DEFINE q == NoteAccess(p, ids)
  <1> HIDE DEF g
  <1>5. CASE policy # "lfu"
    <2>1. q = p
      BY <1>4, <1>5
    <2> HIDE DEF q
    <2>2. /\ q \in PoolT /\ q.lru = p.lru /\ q.alloc = p.alloc /\ q.free = p.free /\ q.slot = p.slot
          /\ q.table = p.table /\ q.pinned = p.pinned /\ q.bytes = p.bytes /\ q.ok = p.ok
      BY <2>1
    <2> QED BY <2>2 DEF q
  <1>6. ASSUME NEW h \in [Experts -> Nat], NEW k \in Nat, q = [p EXCEPT !.freq = h, !.count = k]
        PROVE  /\ q \in PoolT /\ q.lru = p.lru /\ q.alloc = p.alloc /\ q.free = p.free /\ q.slot = p.slot
               /\ q.table = p.table /\ q.pinned = p.pinned /\ q.bytes = p.bytes /\ q.ok = p.ok
    <2> HIDE DEF q
    <2> QED BY <1>6 DEF PoolT
  <1>7. CASE policy = "lfu" /\ n < Decay
    <2>1. q = [p EXCEPT !.freq = f, !.count = n]
      BY <1>4, <1>7
    <2> QED BY <1>1, <1>2, <1>6, <2>1
  <1>8. CASE policy = "lfu" /\ ~(n < Decay)
    <2>1. q = [p EXCEPT !.freq = g, !.count = 0]
      BY <1>4, <1>8
    <2>2. 0 \in Nat
      OBVIOUS
    <2> QED BY <1>3, <1>6, <2>1, <2>2
  <1> QED BY <1>5, <1>7, <1>8

\* acquire up to the loader.
LEMMA HitsFacts ==
  ASSUME NEW p \in PoolT, Book(p), NEW X, Right(p, X), NEW ids \in Seq(Experts)
  PROVE  LET q == Hits(p, ids) IN
         q \in PoolT /\ Book(q) /\ Right(q, X) /\ q.pinned = p.pinned /\ q.ok = p.ok
  <1> DEFINE A == {x \in PoolT : /\ ToSet(x.lru) = ToSet(p.lru) /\ x.alloc = p.alloc /\ x.free = p.free
                                 /\ x.slot = p.slot /\ x.table = p.table /\ x.pinned = p.pinned
                                 /\ x.bytes = p.bytes /\ x.ok = p.ok}
             a == NoteAccess(p, ids)
             q == Hits(p, ids)
  <1>1. a \in A
    BY NoteAccessFacts
  <1>2. ASSUME NEW x \in A, NEW e \in Experts
        PROVE  (IF e \in Resident(x) THEN Touch(x, e) ELSE x) \in A
    <2>1. CASE e \in Resident(x)
      <3> DEFINE t == Touch(x, e)
      <3>1. /\ t \in PoolT /\ ToSet(t.lru) = ToSet(x.lru) \cup {e}
            /\ t.alloc = x.alloc /\ t.free = x.free /\ t.slot = x.slot /\ t.table = x.table
            /\ t.pinned = x.pinned /\ t.bytes = x.bytes /\ t.ok = x.ok
        BY TouchFacts
      <3>2. ToSet(t.lru) = ToSet(x.lru)
        <4> HIDE DEF t
        <4> QED BY <2>1, <3>1 DEF Resident
      <3> HIDE DEF t
      <3>3. t \in A
        BY <3>1, <3>2
      <3> QED BY <2>1, <3>3 DEF t
    <2>2. CASE e \notin Resident(x)
      BY <2>2
    <2> QED BY <2>1, <2>2
  <1> HIDE DEF A, a
  <1>3. q \in A
    <2>1. a = NoteAccess(p, ids)
      BY DEF a
    <2> QED BY <1>1, <1>2, <2>1, HitsLoop
  <1> HIDE DEF q
  <1>4. /\ q \in PoolT /\ ToSet(q.lru) = ToSet(p.lru) /\ q.alloc = p.alloc /\ q.free = p.free
        /\ q.slot = p.slot /\ q.table = p.table /\ q.pinned = p.pinned
        /\ q.bytes = p.bytes /\ q.ok = p.ok
    BY <1>3 DEF A
  <1>5. Book(q)
    BY <1>4 DEF Book
  <1>6. Right(q, X)
    BY <1>4 DEF Right
  <1> QED BY <1>4, <1>5, <1>6 DEF q

\* _place_experts: in the end the batch has its bytes, or the rows ran out.
LEMMA PlaceAllFacts ==
  ASSUME NEW p \in PoolT, Book(p), p.ok, NEW X, Right(p, X), mode # "dual",
         NEW ids \in Seq(Experts), NEW current
  PROVE  LET q == PlaceAll(p, ids, current) IN
         /\ q \in PoolT /\ Book(q) /\ q.pinned = p.pinned
         /\ q.ok => Right(q, X)
         /\ ~q.ok => Over(q, p.pinned \cup current, ToSet(ids))
  <1> DEFINE B == ToSet(ids)
             P == p.pinned \cup current
             A == {x \in PoolT : /\ Book(x) /\ x.pinned = p.pinned /\ Right(x, X \cup B)
                                 /\ ~x.ok => Over(x, P, B)}
             a == AllocPool(p)
             r == AllocAll(a, ids, current)
             q == PlaceAll(p, ids, current)
  <1>1. ids \in Seq(B) /\ B \subseteq Experts
    BY SeqOfOwn
  <1>2. a \in A
    <2>1. /\ a \in PoolT /\ Book(a) /\ a.lru = p.lru /\ a.slot = p.slot
          /\ a.pinned = p.pinned /\ a.bytes = p.bytes /\ a.ok = p.ok
      BY AllocPoolFacts
    <2> HIDE DEF a
    <2>2. Right(a, X \cup B)
      BY <2>1 DEF Right
    <2> QED BY <2>1, <2>2
  <1> HIDE DEF B, a
  <1>3. ASSUME NEW x \in A, NEW e \in B
        PROVE  (IF x.ok THEN AllocSlot(x, e, current) ELSE x) \in A
    <2>1. CASE x.ok
      <3> DEFINE y == AllocSlot(x, e, current)
      <3>1. e \in Experts
        BY <1>1
      <3>2. Allocated(x, e, P, y)
        BY <2>1, <3>1, AllocSlotFacts
      <3> HIDE DEF y
      <3>3. /\ y \in PoolT /\ Book(y) /\ y.pinned = p.pinned
            /\ Right(y, X \cup B) /\ (~y.ok => Over(y, P, B))
        BY <3>2 DEF Allocated, Right, Over
      <3> QED BY <2>1, <3>3 DEF y
    <2>2. CASE ~x.ok
      BY <2>2
    <2> QED BY <2>1, <2>2
  <1> HIDE DEF A
  <1>4. r \in A
    BY <1>1, <1>2, <1>3, AllocAllLoop
  <1>5. q = IF r.ok THEN WriteRows(r, B) ELSE r
    BY DEF PlaceAll, B, a
  <1> HIDE DEF q, r
  <1>6. /\ r \in PoolT /\ Book(r) /\ r.pinned = p.pinned /\ Right(r, X \cup B)
        /\ ~r.ok => Over(r, P, B)
    BY <1>4 DEF A
  <1>7. CASE r.ok
    <2> DEFINE w == WriteRows(r, B)
    <2>1. w \in PoolT /\ Book(w) /\ Right(w, X) /\ w.pinned = r.pinned /\ w.ok = r.ok
      BY <1>1, <1>6, WriteFacts
    <2> HIDE DEF w
    <2>2. q = w
      BY <1>5, <1>7 DEF w
    <2> QED BY <1>6, <1>7, <2>1, <2>2 DEF q, B
  <1>8. CASE ~r.ok
    <2>1. q = r
      BY <1>5, <1>8
    <2> QED BY <1>6, <1>8, <2>1 DEF q, B
  <1> QED BY <1>7, <1>8

\* _place_expert in a loop.
LEMMA PlaceMissingFacts ==
  ASSUME NEW p \in PoolT, Book(p), p.ok, NEW X, Right(p, X), mode # "dual",
         NEW ids \in Seq(Experts), NEW current, NEW touch \in BOOLEAN
  PROVE  LET q == PlaceMissing(p, ids, current, touch) IN
         /\ q \in PoolT /\ Book(q) /\ q.pinned = p.pinned /\ Right(q, X)
         /\ ~q.ok => Over(q, p.pinned \cup current, ToSet(ids))
  <1> DEFINE B == ToSet(ids)
             P == p.pinned \cup current
             A == {x \in PoolT : /\ Book(x) /\ x.pinned = p.pinned /\ Right(x, X)
                                 /\ ~x.ok => Over(x, P, B)}
             q == PlaceMissing(p, ids, current, touch)
  <1>1. ids \in Seq(B) /\ B \subseteq Experts
    BY SeqOfOwn
  <1>2. p \in A
    OBVIOUS
  <1> HIDE DEF B
  <1>3. ASSUME NEW x \in A, NEW e \in B
        PROVE  (IF ~x.ok THEN x ELSE IF e \notin Resident(x) THEN Place(x, e, current)
                ELSE IF touch THEN Touch(x, e) ELSE x) \in A
    <2>0. e \in Experts
      BY <1>1
    <2>1. CASE x.ok /\ e \notin Resident(x)
      <3> DEFINE y == Place(x, e, current)
      <3>1. /\ y \in PoolT /\ Book(y) /\ Right(y, X) /\ y.pinned = x.pinned
            /\ ~y.ok => Over(y, x.pinned \cup current, {e})
        BY <2>0, <2>1, PlaceFacts
      <3> HIDE DEF y
      <3>2. ~y.ok => Over(y, P, B)
        BY <3>1 DEF Over
      <3>3. y \in A
        BY <3>1, <3>2
      <3> QED BY <2>1, <3>3 DEF y
    <2>2. CASE x.ok /\ e \in Resident(x) /\ touch
      <3> DEFINE t == Touch(x, e)
      <3>1. /\ t \in PoolT /\ ToSet(t.lru) = ToSet(x.lru) \cup {e}
            /\ t.alloc = x.alloc /\ t.free = x.free /\ t.slot = x.slot /\ t.table = x.table
            /\ t.pinned = x.pinned /\ t.bytes = x.bytes /\ t.ok = x.ok
        BY <2>0, TouchFacts
      <3> HIDE DEF t
      <3>2. ToSet(t.lru) = ToSet(x.lru)
        BY <2>2, <3>1 DEF Resident
      <3>3. Book(t) /\ Right(t, X)
        BY <3>1, <3>2 DEF Book, Right
      <3>4. t \in A
        BY <2>2, <3>1, <3>3
      <3> QED BY <2>2, <3>4 DEF t
    <2>3. CASE ~x.ok \/ (e \in Resident(x) /\ ~touch)
      BY <2>3
    <2> QED BY <2>1, <2>2, <2>3
  <1> HIDE DEF A
  <1>4. q \in A
    BY <1>1, <1>2, <1>3, PlaceMissingLoop
  <1> QED BY <1>4 DEF A, B

\* pin.
LEMMA PinAllFacts ==
  ASSUME NEW p \in PoolT, Book(p), p.ok, NEW X, Right(p, X), mode # "dual", NEW ids \in Seq(Experts)
  PROVE  LET q == PinAll(p, ids) IN
         /\ q \in PoolT /\ Book(q) /\ Right(q, X)
         /\ ~q.ok => Over(q, p.pinned \cup ToSet(ids), ToSet(ids))
  <1> DEFINE B == ToSet(ids)
             P == p.pinned \cup B
             A == {x \in PoolT : /\ Book(x) /\ x.pinned \subseteq P /\ Right(x, X)
                                 /\ ~x.ok => Over(x, P, B)}
             q == PinAll(p, ids)
  <1>1. ids \in Seq(B) /\ B \subseteq Experts
    BY SeqOfOwn
  <1>2. p \in A
    OBVIOUS
  <1> HIDE DEF B
  <1>3. ASSUME NEW x \in A, NEW e \in B
        PROVE  PinOne(x, e) \in A
    <2>0. e \in Experts
      BY <1>1
    <2> DEFINE y == IF e \in Resident(x) THEN Touch(x, e) ELSE Place(x, e, {e})
    <2>1. CASE ~x.ok
      BY <2>1 DEF PinOne
    <2>2. CASE x.ok
      <3>1. y \in PoolT /\ Book(y) /\ y.pinned = x.pinned /\ Right(y, X) /\ (~y.ok => Over(y, P, B))
        <4>1. CASE e \notin Resident(x)
          <5> DEFINE z == Place(x, e, {e})
          <5>1. /\ z \in PoolT /\ Book(z) /\ Right(z, X) /\ z.pinned = x.pinned
                /\ ~z.ok => Over(z, x.pinned \cup {e}, {e})
            BY <2>0, <2>2, PlaceFacts
          <5> HIDE DEF z
          <5>2. ~z.ok => Over(z, P, B)
            BY <5>1 DEF Over
          <5>3. y = z
            BY <4>1 DEF z
          <5> QED BY <5>1, <5>2, <5>3
        <4>2. CASE e \in Resident(x)
          <5> DEFINE t == Touch(x, e)
          <5>1. /\ t \in PoolT /\ ToSet(t.lru) = ToSet(x.lru) \cup {e}
                /\ t.alloc = x.alloc /\ t.free = x.free /\ t.slot = x.slot /\ t.table = x.table
                /\ t.pinned = x.pinned /\ t.bytes = x.bytes /\ t.ok = x.ok
            BY <2>0, TouchFacts
          <5> HIDE DEF t
          <5>2. ToSet(t.lru) = ToSet(x.lru)
            BY <4>2, <5>1 DEF Resident
          <5>3. Book(t) /\ Right(t, X)
            BY <5>1, <5>2 DEF Book, Right
          <5>4. y = t
            BY <4>2 DEF t
          <5> QED BY <2>2, <5>1, <5>3, <5>4
        <4> QED BY <4>1, <4>2
      <3>2. PinOne(x, e) = IF y.ok THEN [y EXCEPT !.pinned = @ \cup {e}] ELSE y
        BY <2>2 DEF PinOne
      <3> HIDE DEF y
      <3>3. CASE y.ok
        <4> DEFINE z == [y EXCEPT !.pinned = @ \cup {e}]
        <4>1. /\ z \in PoolT /\ z.pinned = y.pinned \cup {e} /\ z.lru = y.lru
              /\ z.alloc = y.alloc /\ z.free = y.free /\ z.slot = y.slot /\ z.table = y.table
              /\ z.bytes = y.bytes /\ z.ok = y.ok
          BY <2>0, <3>1 DEF PoolT
        <4>2. PinOne(x, e) = z
          BY <3>2, <3>3
        <4> HIDE DEF z
        <4>3. Book(z) /\ Right(z, X)
          BY <3>1, <4>1 DEF Book, Right
        <4> QED BY <3>1, <3>3, <4>1, <4>2, <4>3
      <3>4. CASE ~y.ok
        BY <3>1, <3>2, <3>4
      <3> QED BY <3>3, <3>4
    <2> QED BY <2>1, <2>2
  <1> HIDE DEF A
  <1>4. q \in A
    BY <1>1, <1>2, <1>3, PinAllLoop
  <1> QED BY <1>4 DEF A, B

\* A pool in which every row is taken, by experts of S, when one more of S is wanted.
LEMMA TooMany ==
  ASSUME NEW q \in PoolT, Book(q), NEW S \in SUBSET Experts, NEW P \in SUBSET S, NEW B \in SUBSET S,
         Over(q, P, B)
  PROVE  Cardinality(S) > Cap
  <1> DEFINE H == {e \in Experts : q.slot[e] # None}
             f == [e \in H |-> q.slot[e]]
  <1>1. H \subseteq S
    BY DEF Book, Over
  <1>2. IsFiniteSet(S) /\ IsFiniteSet(H)
    <2>1. IsFiniteSet(S)
      BY PoolAssumption, FS_Subset
    <2> QED BY <2>1, <1>1, FS_Subset
  <1>3. f \in Surjection(H, Rows)
    <2>1. f \in [H -> Rows]
      BY DEF PoolT
    <2>2. ASSUME NEW r \in Rows PROVE \E e \in H : f[e] = r
      <3>1. r < q.alloc
        BY PoolAssumption DEF Over, Rows
      <3>2. r \notin ToSet(q.free)
        BY DEF Over, ToSet
      <3>3. PICK e \in Experts : q.slot[e] = r
        BY <3>1, <3>2 DEF Book
      <3>4. r # None
        BY PoolAssumption
      <3> QED BY <3>3, <3>4
    <2> QED BY <2>1, <2>2 DEF Surjection
  <1>4. Cardinality(Rows) = Cap /\ Cap \in Nat
    <2>1. Cap \in Nat /\ Cap > 0
      BY PoolAssumption
    <2>2. 0 \in Int /\ Cap - 1 \in Int
      BY <2>1
    <2>3. Cardinality(0 .. Cap - 1) = IF 0 > Cap - 1 THEN 0 ELSE (Cap - 1) - 0 + 1
      BY <2>2, FS_Interval
    <2> QED BY <2>1, <2>3 DEF Rows
  <1> HIDE DEF f
  <1>5. Cap <= Cardinality(H)
    BY <1>2, <1>3, <1>4, FS_Surjection
  <1>6. PICK e \in B : q.slot[e] = None
    BY DEF Over
  <1>7. e \notin H /\ H \cup {e} \in SUBSET S
    BY <1>1, <1>6
  <1> HIDE DEF H
  <1>8. IsFiniteSet(H \cup {e}) /\ Cardinality(H \cup {e}) = Cardinality(H) + 1
    BY <1>2, <1>7, FS_AddElement
  <1>9. Cardinality(H \cup {e}) <= Cardinality(S)
    BY <1>2, <1>7, FS_Subset
  <1>10. Cardinality(H) \in Nat /\ Cardinality(S) \in Nat
    BY <1>2, FS_CardinalityType
  <1> QED BY <1>4, <1>5, <1>8, <1>9, <1>10
-----------------------------------------------------------------------------
(* ResidentPool: the C++ ledger of the dual mode.                          *)

\* The C++ ledger: every row is free or one expert's.
NativeT == [slot : [Experts -> Rows \cup {None}], free : Seq(Rows)]
Ledger(n) ==
    /\ \A e, x \in Experts : n.slot[e] # None /\ n.slot[e] = n.slot[x] => e = x
    /\ \A e \in Experts : n.slot[e] # None => n.slot[e] \notin ToSet(n.free)
    /\ \A r \in Rows : r \in ToSet(n.free) \/ \E e \in Experts : n.slot[e] = r
    /\ IsInjective(n.free)

\* Rows that are all taken are not all taken by the experts of a list that wants one more.
LEMMA RowToTake ==
  ASSUME NEW n \in NativeT, Ledger(n), n.free = <<>>, NEW ids \in Lists, NEW e \in ToSet(ids), n.slot[e] = None
  PROVE  LET S == {n.slot[v] : v \in Experts \ ToSet(ids)} \ {None} IN S # {} /\ S \subseteq Rows
  <1> DEFINE S == {n.slot[v] : v \in Experts \ ToSet(ids)} \ {None}
             H == {x \in Experts : n.slot[x] # None}
             f == [x \in H |-> n.slot[x]]
  <1>1. S \subseteq Rows
    BY DEF NativeT
  <1>2. SUFFICES ASSUME S = {} PROVE FALSE
    BY <1>1
  <1>3. /\ ToSet(ids) \subseteq Experts /\ IsFiniteSet(ToSet(ids)) /\ Cardinality(ToSet(ids)) <= Cap
    BY ListFacts
  <1>4. H \subseteq ToSet(ids) \ {e}
    <2>1. ASSUME NEW x \in Experts, n.slot[x] # None, x \notin ToSet(ids) PROVE FALSE
      <3>1. n.slot[x] \in S
        BY <2>1
      <3> QED BY <1>2, <3>1
    <2> QED BY <2>1
  <1>5. f \in Surjection(H, Rows)
    <2>1. f \in [H -> Rows]
      BY DEF NativeT
    <2>2. ASSUME NEW r \in Rows PROVE \E x \in H : f[x] = r
      <3>1. r \notin ToSet(n.free)
        BY DEF ToSet
      <3>2. PICK x \in Experts : n.slot[x] = r
        BY <3>1 DEF Ledger
      <3>3. r # None
        BY PoolAssumption
      <3> QED BY <3>2, <3>3
    <2> QED BY <2>1, <2>2 DEF Surjection
  <1> HIDE DEF f, H, S
  <1>6. Cardinality(Rows) = Cap /\ Cap \in Nat
    <2>1. Cap \in Nat /\ Cap > 0
      BY PoolAssumption
    <2>2. 0 \in Int /\ Cap - 1 \in Int
      BY <2>1
    <2>3. Cardinality(0 .. Cap - 1) = IF 0 > Cap - 1 THEN 0 ELSE (Cap - 1) - 0 + 1
      BY <2>2, FS_Interval
    <2> QED BY <2>1, <2>3 DEF Rows
  <1>7. IsFiniteSet(H)
    BY <1>3, <1>4, FS_Subset
  <1>8. Cap <= Cardinality(H)
    BY <1>5, <1>6, <1>7, FS_Surjection
  <1>9. e \notin H /\ H \cup {e} \in SUBSET ToSet(ids)
    BY <1>4
  <1>10. Cardinality(H \cup {e}) = Cardinality(H) + 1
    BY <1>7, <1>9, FS_AddElement
  <1>11. Cardinality(H \cup {e}) <= Cardinality(ToSet(ids))
    BY <1>3, <1>9, FS_Subset
  <1>12. Cardinality(H) \in Nat /\ Cardinality(ToSet(ids)) \in Nat
    BY <1>3, <1>7, FS_CardinalityType
  <1> QED BY <1>3, <1>6, <1>8, <1>10, <1>11, <1>12

\* The least of a set of rows is one of them.
LEMMA MinRow ==
  ASSUME NEW S \in SUBSET Rows, S # {}
  PROVE  Min(S) \in S
  <1>1. S \in SUBSET Nat
    <2>1. Cap \in Nat
      BY PoolAssumption
    <2> QED BY <2>1 DEF Rows
  <1>2. \E a \in S : \A y \in S : a <= y
    BY <1>1, LeastElement
  <1> QED BY <1>2 DEF Min

\* The row Give takes is free, or one of an expert outside ids.
LEMMA RowTaken ==
  ASSUME NEW n \in NativeT, Ledger(n), NEW ids \in Lists, NEW e \in ToSet(ids), n.slot[e] = None
  PROVE  LET r == NativeRow(n, ids)
             t == IF n.free # <<>> THEN Tail(n.free) ELSE <<>> IN
         /\ r \in Rows /\ r # None /\ \A x \in ToSet(ids) : n.slot[x] # r
         /\ t \in Seq(Rows) /\ IsInjective(t) /\ ToSet(t) = ToSet(n.free) \ {r}
  <1> DEFINE r == NativeRow(n, ids)
             t == IF n.free # <<>> THEN Tail(n.free) ELSE <<>>
  <1>0. n.free \in Seq(Rows) /\ IsInjective(n.free) /\ ToSet(ids) \subseteq Experts /\ None \notin Rows
    BY ListFacts, PoolAssumption DEF NativeT, Ledger
  <1>1. CASE n.free # <<>>
    <2> DEFINE h == Head(n.free)
               g == Tail(n.free)
    <2>1. h \in Rows /\ h \in ToSet(n.free) /\ g \in Seq(Rows) /\ IsInjective(g) /\ ToSet(g) = ToSet(n.free) \ {h}
      BY <1>0, <1>1, TakeHead
    <2>2. r = h /\ t = g
      BY <1>1 DEF NativeRow
    <2> HIDE DEF h, g, r, t
    <2>3. \A x \in ToSet(ids) : n.slot[x] # h
      BY <1>0, <2>1 DEF Ledger
    <2>4. /\ r \in Rows /\ r # None /\ \A x \in ToSet(ids) : n.slot[x] # r
          /\ t \in Seq(Rows) /\ IsInjective(t) /\ ToSet(t) = ToSet(n.free) \ {r}
      BY <1>0, <2>1, <2>2, <2>3
    <2> QED BY <2>4 DEF r, t
  <1>2. CASE n.free = <<>>
    <2> DEFINE S == {n.slot[v] : v \in Experts \ ToSet(ids)} \ {None}
    <2>1. S # {} /\ S \subseteq Rows
      BY <1>2, RowToTake
    <2>2. r = Min(S) /\ t = <<>>
      BY <1>2 DEF NativeRow
    <2> HIDE DEF S
    <2>3. r \in S
      BY <2>1, <2>2, MinRow
    <2>4. PICK v \in Experts \ ToSet(ids) : n.slot[v] = r
      BY <2>3 DEF S
    <2>5. r \in Rows /\ r # None
      BY <1>0, <2>1, <2>3
    <2> HIDE DEF r, t
    <2>6. \A x \in ToSet(ids) : n.slot[x] # r
      BY <1>0, <2>4, <2>5 DEF Ledger
    <2>7. ToSet(n.free) = {} /\ ToSet(t) = {}
      BY <1>2, <2>2 DEF ToSet
    <2>8. t \in Seq(Rows) /\ IsInjective(t)
      BY <2>2 DEF IsInjective
    <2>9. /\ r \in Rows /\ r # None /\ \A x \in ToSet(ids) : n.slot[x] # r
          /\ t \in Seq(Rows) /\ IsInjective(t) /\ ToSet(t) = ToSet(n.free) \ {r}
      BY <2>5, <2>6, <2>7, <2>8
    <2> QED BY <2>9 DEF r, t
  <1> QED BY <1>1, <1>2

\* What Give may change in the ledger n for the experts of B.
Given(n, B, q) ==
    /\ q \in NativeT /\ Ledger(q)
    /\ \A x \in Experts \ B : q.slot[x] \in {n.slot[x], None}
    /\ \A x \in B : n.slot[x] # None => q.slot[x] = n.slot[x]

\* A row handed out is taken from an expert outside ids, if from any.
LEMMA GiveFacts ==
  ASSUME NEW n \in NativeT, Ledger(n), NEW ids \in Lists, NEW e \in ToSet(ids)
  PROVE  Given(n, ToSet(ids), Give(n, e, ids))
  <1>0. ToSet(ids) \subseteq Experts /\ None \notin Rows
    BY ListFacts, PoolAssumption
  <1>1. CASE n.slot[e] # None
    BY <1>1 DEF Give, Given
  <1>2. CASE n.slot[e] = None
    <2> DEFINE r == NativeRow(n, ids)
               t == IF n.free # <<>> THEN Tail(n.free) ELSE <<>>
               s == [x \in Experts |-> IF x = e THEN r ELSE IF n.slot[x] = r THEN None ELSE n.slot[x]]
               q == Give(n, e, ids)
    <2>1. /\ r \in Rows /\ r # None /\ \A x \in ToSet(ids) : n.slot[x] # r
          /\ t \in Seq(Rows) /\ IsInjective(t) /\ ToSet(t) = ToSet(n.free) \ {r}
      BY <1>2, RowTaken
    <2>2. q = [slot |-> s, free |-> t]
      BY <1>2 DEF Give
    <2> HIDE DEF q, r, t
    <2>3. s \in [Experts -> Rows \cup {None}]
      BY <2>1 DEF NativeT
    <2>4. /\ s[e] = r
          /\ \A x \in Experts : x # e => s[x] = IF n.slot[x] = r THEN None ELSE n.slot[x]
      BY <1>0
    <2> HIDE DEF s
    <2>5. q \in NativeT /\ q.slot = s /\ q.free = t
      BY <2>1, <2>2, <2>3 DEF NativeT
    <2>6. \A a, x \in Experts : s[a] # None /\ s[a] = s[x] => a = x
      BY <2>4 DEF Ledger
    <2>7. \A x \in Experts : s[x] # None => s[x] \notin ToSet(t)
      BY <2>1, <2>4 DEF Ledger
    <2>8. ASSUME NEW y \in Rows PROVE y \in ToSet(t) \/ \E x \in Experts : s[x] = y
      <3>1. CASE y = r
        BY <1>0, <2>4, <3>1
      <3>2. CASE y # r /\ y \notin ToSet(n.free)
        <4>1. PICK x \in Experts : n.slot[x] = y
          BY <3>2 DEF Ledger
        <4> QED BY <1>0, <1>2, <2>4, <3>2, <4>1
      <3>3. CASE y # r /\ y \in ToSet(n.free)
        BY <2>1, <3>3
      <3> QED BY <3>1, <3>2, <3>3
    <2>9. Ledger(q)
      BY <2>1, <2>5, <2>6, <2>7, <2>8 DEF Ledger
    <2>10. \A x \in Experts \ ToSet(ids) : s[x] \in {n.slot[x], None}
      BY <2>4
    <2>11. \A x \in ToSet(ids) : n.slot[x] # None => s[x] = n.slot[x]
      BY <1>0, <1>2, <2>1, <2>4
    <2>12. Given(n, ToSet(ids), q)
      BY <2>5, <2>9, <2>10, <2>11 DEF Given
    <2> QED BY <2>12 DEF q
  <1> QED BY <1>1, <1>2

\* The same for a whole route.
LEMMA GiveAllFacts ==
  ASSUME NEW n \in NativeT, Ledger(n), NEW ids \in Lists
  PROVE  Given(n, ToSet(ids), GiveAll(n, ids))
  <1> DEFINE B == ToSet(ids)
             A == {q \in NativeT : Given(n, B, q)}
  <1>1. ids \in Seq(B) /\ B \subseteq Experts
    BY ListFacts
  <1>2. n \in A
    BY DEF Given
  <1>3. ASSUME NEW x \in A, NEW e \in B PROVE Give(x, e, ids) \in A
    <2> DEFINE q == Give(x, e, ids)
    <2>1. x \in NativeT /\ Ledger(x) /\ Given(n, B, x)
      BY DEF Given
    <2>2. Given(x, B, q)
      BY <2>1, GiveFacts
    <2> HIDE DEF q, B
    <2>3. q \in NativeT /\ Given(n, B, q)
      BY <2>1, <2>2 DEF Given
    <2> QED BY <2>3 DEF q
  <1> HIDE DEF A, B
  <1>4. GiveAll(n, ids) \in A
    BY <1>1, <1>2, <1>3, GiveAllLoop
  <1> QED BY <1>4 DEF A, B
-----------------------------------------------------------------------------
(* ResidentPool: the inductive invariant and its steps.                    *)

\* After a ValueError the rows of any expert may lack their bytes.
Doubt == IF raised = {} THEN {} ELSE Experts

BgT == [queue : Seq(Layers \X Seq(Experts)), batch : {None} \cup (Layers \X Seq(Experts)),
        ready : Seq(Layers \X Experts), layers : Seq(Layers)]

\* Outside the dual mode the pool hands out the rows.
Own == Book(pool) /\ Right(pool, Doubt) /\ \A e \in Experts : native.slot[e] = None

\* In the dual mode the ledger does, and the pool's own books stay empty.
Lent ==
    /\ pool.lru = <<>> /\ pool.table = None /\ \A e \in Experts : pool.slot[e] = None
    /\ Ledger(native) /\ \A e \in Experts : native.slot[e] # None => pool.bytes[native.slot[e]] = e

PoolInv ==
    /\ \E c \in Configs : mode = c[1]
    /\ pool \in PoolT /\ pool.ok /\ native \in NativeT /\ bg \in BgT
    /\ mode # "dual" => Own
    /\ mode = "dual" => Lent
    /\ RaisesOnlyOverfull

OneAllocator == HostPath => \A c \in Configs : c[1] # "dual"

\* Steps that leave the pool and the ledger alone.
LEMMA PoolQuiet ==
  ASSUME PoolInv, UNCHANGED <<mode, pool, native, raised>>, bg' \in BgT
  PROVE  PoolInv'
  <1>1. Doubt' = Doubt
    BY DEF Doubt
  <1>2. Own' <=> Own
    BY <1>1 DEF Own, Book, Right
  <1>3. Lent' <=> Lent
    BY DEF Lent
  <1>4. RaisesOnlyOverfull' <=> RaisesOnlyOverfull
    BY DEF RaisesOnlyOverfull
  <1> QED BY <1>2, <1>3, <1>4 DEF PoolInv

\* The pool after a call that did not raise.
LEMMA PoolServed ==
  ASSUME PoolInv, mode # "dual", UNCHANGED <<mode, bg, native, raised>>,
         pool' \in PoolT, pool'.ok, Book(pool'), Right(pool', Doubt)
  PROVE  PoolInv'
  <1>1. Doubt' = Doubt
    BY DEF Doubt
  <1>2. Own'
    BY <1>1 DEF Own, PoolInv
  <1>3. RaisesOnlyOverfull'
    BY DEF RaisesOnlyOverfull, PoolInv
  <1> QED BY <1>2, <1>3 DEF PoolInv

\* The pool after a call that may have raised: when it did, every row was taken
\* by an expert of the call or a pinned one.
LEMMA PoolLeft ==
  ASSUME PoolInv, mode # "dual", UNCHANGED <<mode, bg, native>>, NEW ids \in Lists,
         NEW q \in PoolT, Book(q), Leave(q, ids), q.ok => Right(q, Doubt),
         ~q.ok => \E P, B \in SUBSET (ToSet(ids) \cup pool.pinned) : Over(q, P, B)
  PROVE  PoolInv'
  <1> DEFINE S == ToSet(ids) \cup pool.pinned
  <1>1. S \in SUBSET Experts /\ S # {}
    BY ListFacts DEF PoolInv, PoolT
  <1>2. pool' = [q EXCEPT !.ok = TRUE] /\ raised' = IF q.ok THEN raised ELSE S
    BY DEF Leave
  <1> HIDE DEF S
  <1>3. /\ pool' \in PoolT /\ pool'.ok /\ pool'.alloc = q.alloc /\ pool'.free = q.free /\ pool'.lru = q.lru
        /\ pool'.slot = q.slot /\ pool'.table = q.table /\ pool'.bytes = q.bytes
    BY <1>2 DEF PoolT
  <1>4. Book(pool')
    BY <1>3 DEF Book
  <1>5. CASE q.ok
    <2>1. raised' = raised
      BY <1>2, <1>5
    <2>2. Right(pool', Doubt)
      BY <1>3, <1>5 DEF Right
    <2> QED BY <1>3, <1>4, <2>1, <2>2, PoolServed
  <1>6. CASE ~q.ok
    <2>1. raised' = S
      BY <1>2, <1>6
    <2>2. PICK P \in SUBSET S, B \in SUBSET S : Over(q, P, B)
      BY <1>6 DEF S
    <2>3. Cardinality(S) > Cap
      BY <1>1, <2>2, TooMany
    <2>4. RaisesOnlyOverfull'
      BY <2>1, <2>3 DEF RaisesOnlyOverfull
    <2>5. Doubt' = Experts
      BY <1>1, <2>1 DEF Doubt
    <2>6. Right(pool', Doubt')
      BY <2>5 DEF Right
    <2>7. Own'
      BY <1>4, <2>6 DEF Own, PoolInv
    <2> QED BY <1>3, <2>4, <2>7 DEF PoolInv
  <1> QED BY <1>5, <1>6

\* The misses are of the route.
LEMMA MissesFacts ==
  ASSUME NEW p \in PoolT, NEW ids \in Lists
  PROVE  Misses(p, ids) \in Seq(Experts) /\ ToSet(Misses(p, ids)) \subseteq ToSet(ids)
  <1>1. ids \in Seq(Experts)
    BY ListFacts
  <1> QED BY <1>1, WithoutFacts DEF Misses

\* acquire and acquire_gpu, from the pool p the call starts with.
LEMMA LoadStep ==
  ASSUME PoolInv, mode # "dual", NEW p \in PoolT, Book(p), Right(p, Doubt), p.ok, p.pinned = pool.pinned,
         NEW ids \in Lists, Load(p, ids)
  PROVE  PoolInv'
  <1> DEFINE h == Hits(p, ids)
             m == Misses(p, ids)
             q == PlaceAll(h, m, ToSet(ids))
  <1>0. ids \in Seq(Experts)
    BY ListFacts
  <1>1. h \in PoolT /\ Book(h) /\ Right(h, Doubt) /\ h.pinned = p.pinned /\ h.ok = p.ok
    BY <1>0, HitsFacts
  <1>2. m \in Seq(Experts) /\ ToSet(m) \subseteq ToSet(ids)
    BY MissesFacts
  <1> HIDE DEF h, m
  <1>3. /\ q \in PoolT /\ Book(q) /\ q.pinned = h.pinned
        /\ q.ok => Right(q, Doubt)
        /\ ~q.ok => Over(q, h.pinned \cup ToSet(ids), ToSet(m))
    BY <1>1, <1>2, PlaceAllFacts
  <1> HIDE DEF q
  <1>4. CASE AcquireFrom(p, ids)
    <2>1. UNCHANGED <<mode, bg, native>> /\ Leave(IF m = <<>> THEN h ELSE q, ids)
      BY <1>4 DEF AcquireFrom, h, m, q
    <2>2. CASE m = <<>>
      <3>1. Leave(h, ids)
        BY <2>1, <2>2
      <3> QED BY <1>1, <2>1, <3>1, PoolLeft
    <2>3. CASE m # <<>>
      <3>1. Leave(q, ids)
        BY <2>1, <2>3
      <3>2. ~q.ok => \E P, B \in SUBSET (ToSet(ids) \cup pool.pinned) : Over(q, P, B)
        <4>1. h.pinned \cup ToSet(ids) \in SUBSET (ToSet(ids) \cup pool.pinned)
          BY <1>1
        <4>2. ToSet(m) \in SUBSET (ToSet(ids) \cup pool.pinned)
          BY <1>2
        <4> QED BY <1>3, <4>1, <4>2
      <3> QED BY <1>3, <2>1, <3>1, <3>2, PoolLeft
    <2> QED BY <2>2, <2>3
  <1>5. CASE LoadFails(p, ids)
    <2>1. UNCHANGED <<mode, bg, native, raised>> /\ pool' = h
      BY <1>5 DEF LoadFails, h
    <2>2. pool' \in PoolT /\ pool'.ok /\ Book(pool') /\ Right(pool', Doubt)
      BY <1>1, <2>1
    <2> QED BY <2>1, <2>2, PoolServed
  <1> QED BY <1>4, <1>5 DEF Load

\* acquire_gpu makes the table from the slot book the first time.
LEMMA AcquireGpuStep ==
  ASSUME PoolInv, NEW ids \in Lists, AcquireGpu(ids)
  PROVE  PoolInv'
  <1> DEFINE T == [e \in Experts |-> IF pool.slot[e] = None THEN -1 ELSE pool.slot[e]]
             p == [pool EXCEPT !.table = IF pool.table = None THEN T ELSE pool.table]
             n == NoteAccess(p, ids)
  <1>0. /\ mode # "dual" /\ pool \in PoolT /\ pool.ok /\ Book(pool) /\ Right(pool, Doubt)
    BY DEF AcquireGpu, PoolInv, Own
  <1>1. T \in [Experts -> Rows \cup {-1}]
    BY <1>0 DEF PoolT
  <1>2. \A e \in Experts : T[e] = IF pool.slot[e] = None THEN -1 ELSE pool.slot[e]
    OBVIOUS
  <1>3. /\ IF \A e \in ToSet(ids) : p.table[e] >= 0
           THEN pool' = n /\ UNCHANGED <<mode, bg, native, raised>>
           ELSE Load(p, ids)
    BY DEF AcquireGpu
  <1> HIDE DEF T
  <1>4. /\ p \in PoolT /\ p.lru = pool.lru /\ p.alloc = pool.alloc /\ p.free = pool.free /\ p.slot = pool.slot
        /\ p.table = (IF pool.table = None THEN T ELSE pool.table) /\ p.pinned = pool.pinned /\ p.bytes = pool.bytes
        /\ p.ok = pool.ok
    BY <1>0, <1>1 DEF PoolT
  <1> HIDE DEF p
  <1>5. Book(p)
    BY <1>0, <1>2, <1>4 DEF Book
  <1>6. Right(p, Doubt)
    BY <1>0, <1>4 DEF Right
  <1>7. ids \in Seq(Experts)
    BY ListFacts
  <1>8. CASE \A e \in ToSet(ids) : p.table[e] >= 0
    <2>1. /\ n \in PoolT /\ n.lru = p.lru /\ n.alloc = p.alloc /\ n.free = p.free /\ n.slot = p.slot
          /\ n.table = p.table /\ n.pinned = p.pinned /\ n.bytes = p.bytes /\ n.ok = p.ok
      BY <1>4, <1>7, NoteAccessFacts
    <2>2. pool' = n /\ UNCHANGED <<mode, bg, native, raised>>
      BY <1>3, <1>8
    <2> HIDE DEF n
    <2>3. Book(n) /\ Right(n, Doubt)
      BY <1>5, <1>6, <2>1 DEF Book, Right
    <2>4. pool' \in PoolT /\ pool'.ok /\ Book(pool') /\ Right(pool', Doubt)
      BY <1>0, <1>4, <2>1, <2>2, <2>3
    <2> QED BY <1>0, <2>2, <2>4, PoolServed
  <1>9. CASE ~ \A e \in ToSet(ids) : p.table[e] >= 0
    <2>1. Load(p, ids)
      BY <1>3, <1>9
    <2>2. p.ok /\ p.pinned = pool.pinned
      BY <1>0, <1>4
    <2> QED BY <1>0, <1>4, <1>5, <1>6, <2>1, <2>2, LoadStep
  <1> QED BY <1>8, <1>9

\* acquire.
LEMMA AcquireStep ==
  ASSUME OneAllocator, PoolInv, NEW ids \in Lists, Acquire(ids)
  PROVE  PoolInv'
  <1>1. mode # "dual"
    BY DEF Acquire, OneAllocator, PoolInv
  <1>2. pool \in PoolT /\ pool.ok /\ Book(pool) /\ Right(pool, Doubt)
    BY <1>1 DEF PoolInv, Own
  <1>3. Load(pool, ids)
    BY DEF Acquire
  <1> QED BY <1>1, <1>2, <1>3, LoadStep

\* pin.
LEMMA PinStep ==
  ASSUME PoolInv, NEW ids \in Lists, Pin(ids)
  PROVE  PoolInv'
  <1> DEFINE q == PinAll(pool, ids)
  <1>1. /\ mode # "dual" /\ pool \in PoolT /\ pool.ok /\ Book(pool) /\ Right(pool, Doubt)
    BY DEF Pin, PoolInv, Own
  <1>2. ids \in Seq(Experts)
    BY ListFacts
  <1>3. /\ q \in PoolT /\ Book(q) /\ Right(q, Doubt)
        /\ ~q.ok => Over(q, pool.pinned \cup ToSet(ids), ToSet(ids))
    BY <1>1, <1>2, PinAllFacts
  <1>4. UNCHANGED <<mode, bg, native>> /\ Leave(q, ids)
    BY DEF Pin
  <1> HIDE DEF q
  <1>5. ~q.ok => \E P, B \in SUBSET (ToSet(ids) \cup pool.pinned) : Over(q, P, B)
    <2>1. /\ pool.pinned \cup ToSet(ids) \in SUBSET (ToSet(ids) \cup pool.pinned)
          /\ ToSet(ids) \in SUBSET (ToSet(ids) \cup pool.pinned)
      OBVIOUS
    <2> QED BY <1>3, <2>1
  <1> QED BY <1>1, <1>3, <1>4, <1>5, PoolLeft

\* prefetch into rows.
LEMMA PrefetchSyncStep ==
  ASSUME PoolInv, NEW ids \in Lists, PrefetchSync(ids)
  PROVE  PoolInv'
  <1> DEFINE q == PlaceMissing(pool, ids, ToSet(ids), TRUE)
  <1>0. mode = "sync"
    BY DEF PrefetchSync
  <1>1. /\ mode # "dual" /\ pool \in PoolT /\ pool.ok /\ Book(pool) /\ Right(pool, Doubt)
    BY <1>0 DEF PoolInv, Own
  <1>2. ids \in Seq(Experts) /\ TRUE \in BOOLEAN
    BY ListFacts
  <1>3. /\ q \in PoolT /\ Book(q) /\ q.pinned = pool.pinned /\ Right(q, Doubt)
        /\ ~q.ok => Over(q, pool.pinned \cup ToSet(ids), ToSet(ids))
    BY <1>1, <1>2, PlaceMissingFacts
  <1>4. UNCHANGED <<mode, bg, native>> /\ Leave(q, ids)
    BY DEF PrefetchSync
  <1> HIDE DEF q
  <1>5. ~q.ok => \E P, B \in SUBSET (ToSet(ids) \cup pool.pinned) : Over(q, P, B)
    <2>1. /\ pool.pinned \cup ToSet(ids) \in SUBSET (ToSet(ids) \cup pool.pinned)
          /\ ToSet(ids) \in SUBSET (ToSet(ids) \cup pool.pinned)
      OBVIOUS
    <2> QED BY <1>3, <2>1
  <1> QED BY <1>1, <1>3, <1>4, <1>5, PoolLeft

\* The experts read ahead for this layer.
LEMMA PromoteStep ==
  ASSUME PoolInv, Promote
  PROVE  PoolInv'
  <1> DEFINE mine == Without(bg.ready, (Layers \ {Here}) \X Experts)
             ids == [i \in DOMAIN mine |-> mine[i][2]]
             q == PlaceMissing(pool, ids, ToSet(ids), FALSE)
             rest == Without(bg.ready, {Here} \X Experts)
  <1>0. mode = "bg"
    BY DEF Promote
  <1>1. /\ mode # "dual" /\ pool \in PoolT /\ pool.ok /\ Book(pool) /\ Right(pool, Doubt) /\ bg \in BgT
    BY <1>0 DEF PoolInv, Own
  <1>2. bg.ready \in Seq(Layers \X Experts)
    BY <1>1 DEF BgT
  <1>3. mine \in Seq(Layers \X Experts) /\ rest \in Seq(Layers \X Experts)
    BY <1>2, WithoutFacts
  <1>4. /\ pool' = [q EXCEPT !.ok = TRUE] /\ bg' = [bg EXCEPT !.ready = rest]
        /\ UNCHANGED <<mode, native, raised>>
    BY DEF Promote
  <1> HIDE DEF mine, rest
  <1>5. ids \in Seq(Experts)
    <2>1. mine \in [1 .. Len(mine) -> Layers \X Experts] /\ DOMAIN mine = 1 .. Len(mine) /\ Len(mine) \in Nat
      BY <1>3
    <2>2. ids \in [1 .. Len(mine) -> Experts]
      BY <2>1
    <2> QED BY <2>1, <2>2, SeqDef
  <1> HIDE DEF ids
  <1>6. q \in PoolT /\ Book(q) /\ Right(q, Doubt)
    <2>1. FALSE \in BOOLEAN
      OBVIOUS
    <2> QED BY <1>1, <1>5, <2>1, PlaceMissingFacts
  <1> HIDE DEF q
  <1>7. /\ pool' \in PoolT /\ pool'.ok /\ pool'.alloc = q.alloc /\ pool'.free = q.free /\ pool'.lru = q.lru
        /\ pool'.slot = q.slot /\ pool'.table = q.table /\ pool'.bytes = q.bytes
    BY <1>4, <1>6 DEF PoolT
  <1>8. Book(pool') /\ Right(pool', Doubt)
    BY <1>6, <1>7 DEF Book, Right
  <1>9. bg' \in BgT
    BY <1>1, <1>3, <1>4 DEF BgT
  <1>10. Doubt' = Doubt
    BY <1>4 DEF Doubt
  <1>11. Own'
    BY <1>1, <1>4, <1>8, <1>10 DEF Own, PoolInv
  <1>12. RaisesOnlyOverfull'
    BY <1>4 DEF RaisesOnlyOverfull, PoolInv
  <1> QED BY <1>1, <1>4, <1>7, <1>9, <1>11, <1>12 DEF PoolInv

\* The rows the C++ side gives out are read before the forward uses them.
LEMMA NativeDemandStep ==
  ASSUME PoolInv, NEW ids \in Lists, NativeDemand(ids)
  PROVE  PoolInv'
  <1> DEFINE B == ToSet(ids)
             a == GiveAll(native, ids)
             read == {e \in B : native.slot[e] = None}
             W(r) == IF \E e \in read : a.slot[e] = r THEN CHOOSE e \in read : a.slot[e] = r ELSE pool.bytes[r]
             w == [r \in Rows |-> W(r)]
  <1>0. mode = "dual"
    BY DEF NativeDemand
  <1>1. pool \in PoolT /\ pool.ok /\ native \in NativeT /\ Lent
    BY <1>0 DEF PoolInv
  <1>2. Given(native, B, a)
    BY <1>1, GiveAllFacts DEF Lent
  <1>3. B \subseteq Experts
    BY ListFacts
  <1>4. /\ native' = a /\ pool' = [pool EXCEPT !.alloc = Cap, !.bytes = w]
        /\ UNCHANGED <<mode, bg, raised>>
    BY DEF NativeDemand
  <1> HIDE DEF B, a
  <1>5. a \in NativeT /\ Ledger(a)
    BY <1>2 DEF Given
  <1>6. ASSUME NEW x \in read PROVE a.slot[x] # None => W(a.slot[x]) = x
    <2>1. \A y \in read : a.slot[x] # None /\ a.slot[y] = a.slot[x] => y = x
      BY <1>3, <1>5 DEF Ledger
    <2> QED BY <2>1
  <1>7. ASSUME NEW x \in Experts, x \notin read, a.slot[x] # None PROVE W(a.slot[x]) = x
    <2>1. a.slot[x] = native.slot[x]
      <3>1. CASE x \in B
        BY <1>2, <1>7, <3>1 DEF Given
      <3>2. CASE x \notin B
        BY <1>2, <1>7, <3>2 DEF Given
      <3> QED BY <3>1, <3>2
    <2>2. pool.bytes[native.slot[x]] = x
      BY <1>1, <1>7, <2>1 DEF Lent
    <2>3. \A y \in read : a.slot[y] # a.slot[x]
      BY <1>3, <1>5, <1>7 DEF Ledger
    <2> QED BY <2>1, <2>2, <2>3
  <1>8. \A e \in Experts : a.slot[e] # None => a.slot[e] \in Rows
    BY <1>5 DEF NativeT
  <1>9. \A e \in Experts : a.slot[e] # None => w[a.slot[e]] = e
    <2>1. \A e \in Experts : a.slot[e] # None => W(a.slot[e]) = e
      BY <1>6, <1>7
    <2> HIDE DEF W
    <2> QED BY <1>8, <2>1
  <1>10. w \in [Rows -> Experts \cup {None}]
    <2>1. pool.bytes \in [Rows -> Experts \cup {None}]
      BY <1>1 DEF PoolT
    <2> QED BY <1>3, <2>1
  <1> HIDE DEF w
  <1>11. /\ pool' \in PoolT /\ pool'.ok /\ pool'.lru = pool.lru /\ pool'.slot = pool.slot
         /\ pool'.table = pool.table /\ pool'.bytes = w
    <2>1. Cap \in 0 .. Cap
      BY PoolAssumption
    <2> QED BY <1>1, <1>4, <1>10, <2>1 DEF PoolT
  <1>12. Lent'
    BY <1>1, <1>4, <1>5, <1>9, <1>11 DEF Lent
  <1>13. RaisesOnlyOverfull'
    BY <1>4 DEF RaisesOnlyOverfull, PoolInv
  <1> QED BY <1>0, <1>4, <1>5, <1>11, <1>12, <1>13 DEF PoolInv

\* The steps of the readers.
LEMMA BgSubmitStep ==
  ASSUME PoolInv, NEW l \in Layers, NEW ids \in Lists, BgSubmit(l, ids)
  PROVE  PoolInv'
  <1> DEFINE m == IF l = Here THEN Without(ids, Resident(pool)) ELSE ids
  <1>1. bg \in BgT
    BY DEF PoolInv
  <1>2. m \in Seq(Experts)
    <2>1. ids \in Seq(Experts)
      BY ListFacts
    <2> QED BY <2>1, WithoutFacts
  <1>3. bg' = [bg EXCEPT !.queue = Append(bg.queue, <<l, m>>)] /\ UNCHANGED <<mode, pool, native, raised>>
    BY DEF BgSubmit
  <1> HIDE DEF m
  <1>4. Append(bg.queue, <<l, m>>) \in Seq(Layers \X Seq(Experts))
    BY <1>1, <1>2 DEF BgT
  <1>5. bg' \in BgT
    BY <1>1, <1>3, <1>4 DEF BgT
  <1> QED BY <1>3, <1>5, PoolQuiet

\* The reader takes a request.
LEMMA BgTakeStep ==
  ASSUME PoolInv, BgTake
  PROVE  PoolInv'
  <1>1. bg \in BgT
    BY DEF PoolInv
  <1>2. bg.queue # <<>> /\ bg' = [bg EXCEPT !.batch = Head(bg.queue), !.queue = Tail(bg.queue)]
        /\ UNCHANGED <<mode, pool, native, raised>>
    BY DEF BgTake
  <1>3. Head(bg.queue) \in Layers \X Seq(Experts) /\ Tail(bg.queue) \in Seq(Layers \X Seq(Experts))
    BY <1>1, <1>2 DEF BgT
  <1>4. bg' \in BgT
    BY <1>1, <1>2, <1>3 DEF BgT
  <1> QED BY <1>2, <1>4, PoolQuiet

\* The read raises.
LEMMA BgFailsStep ==
  ASSUME PoolInv, BgFails
  PROVE  PoolInv'
  <1>1. bg \in BgT
    BY DEF PoolInv
  <1>2. bg' = [bg EXCEPT !.batch = None] /\ UNCHANGED <<mode, pool, native, raised>>
    BY DEF BgFails
  <1>3. bg' \in BgT
    BY <1>1, <1>2 DEF BgT
  <1> QED BY <1>2, <1>3, PoolQuiet

\* The layers a reader keeps are layers.
LEMMA RolledFacts ==
  ASSUME NEW ls \in Seq(Layers), NEW l \in Layers
  PROVE  Rolled(ls, l) \in Seq(Layers)
  <1> DEFINE all == IF l \in ToSet(ls) THEN ls ELSE Append(ls, l)
  <1>1. all \in Seq(Layers) /\ Len(all) \in Nat /\ Window \in Nat \ {0}
    BY PoolAssumption
  <1>2. Rolled(ls, l) = IF Len(all) > Window THEN SubSeq(all, Len(all) - Window + 1, Len(all)) ELSE all
    BY DEF Rolled
  <1> HIDE DEF all
  <1>3. CASE Len(all) > Window
    <2>1. Len(all) - Window + 1 \in 1 .. Len(all) + 1 /\ Len(all) \in 0 .. Len(all)
      BY <1>1, <1>3
    <2>2. SubSeq(all, Len(all) - Window + 1, Len(all)) \in Seq(Layers)
      BY <1>1, <2>1, SubSeqProperties
    <2> QED BY <1>2, <1>3, <2>2
  <1> QED BY <1>1, <1>2, <1>3

\* What was read is made ready.
LEMMA BgPublishStep ==
  ASSUME PoolInv, BgPublish
  PROVE  PoolInv'
  <1> DEFINE l == bg.batch[1]
             b == bg.batch[2]
             keys == [i \in DOMAIN b |-> <<l, b[i]>>]
             ls == Rolled(bg.layers, l)
             gone == ToSet(bg.layers) \ ToSet(ls)
             fresh == Without(keys, ToSet(bg.ready))
             all == bg.ready \o fresh
             kept == Without(all, gone \X Experts)
  <1>1. bg \in BgT /\ bg.batch # None
    BY DEF PoolInv, BgPublish
  <1>2. l \in Layers /\ b \in Seq(Experts) /\ bg.layers \in Seq(Layers) /\ bg.ready \in Seq(Layers \X Experts)
    BY <1>1 DEF BgT
  <1>3. bg' = [bg EXCEPT !.batch = None, !.layers = ls, !.ready = kept] /\ UNCHANGED <<mode, pool, native, raised>>
    BY DEF BgPublish
  <1> HIDE DEF l, b
  <1>4. ls \in Seq(Layers)
    BY <1>2, RolledFacts
  <1>5. keys \in Seq(Layers \X Experts)
    <2>1. b \in [1 .. Len(b) -> Experts] /\ DOMAIN b = 1 .. Len(b) /\ Len(b) \in Nat
      BY <1>2
    <2>2. keys \in [1 .. Len(b) -> Layers \X Experts]
      BY <1>2, <2>1
    <2> QED BY <2>1, <2>2, SeqDef
  <1> HIDE DEF keys
  <1>6. fresh \in Seq(Layers \X Experts)
    BY <1>5, WithoutFacts
  <1> HIDE DEF fresh
  <1>7. all \in Seq(Layers \X Experts)
    BY <1>2, <1>6, ConcatProperties
  <1> HIDE DEF all
  <1>8. kept \in Seq(Layers \X Experts)
    BY <1>7, WithoutFacts
  <1> HIDE DEF kept, ls
  <1>9. bg' \in BgT
    BY <1>1, <1>3, <1>4, <1>8 DEF BgT
  <1> QED BY <1>3, <1>9, PoolQuiet

\* The invariant holds at first ...
LEMMA PoolInitInv ==
  ASSUME Init
  PROVE  PoolInv
  <1> USE DEF Init
  <1>0. Cap \in Nat \ {0} /\ None \notin Rows
    BY PoolAssumption
  <1>1. \E c \in Configs : mode = c[1]
    OBVIOUS
  <1>2. pool \in PoolT /\ pool.ok
    <2>1. <<>> \in Seq(Rows) /\ <<>> \in Seq(Experts)
      OBVIOUS
    <2>2. 0 \in 0 .. Cap /\ 0 \in Nat
      BY <1>0
    <2> QED BY <2>1, <2>2 DEF PoolT
  <1>3. bg \in BgT
    <2>1. <<>> \in Seq(Layers \X Seq(Experts)) /\ <<>> \in Seq(Layers \X Experts) /\ <<>> \in Seq(Layers)
      OBVIOUS
    <2> QED BY <2>1 DEF BgT
  <1>4. DOMAIN <<>> = {} /\ ToSet(<<>>) = {}
    BY DEF ToSet
  <1> DEFINE f == [i \in 1 .. Cap |-> i - 1]
  <1>5. f \in Seq(Rows) /\ IsInjective(f) /\ ToSet(f) = Rows
    <2>0. 0 \in 0 .. Cap /\ Cap \in 0 .. Cap
      BY <1>0
    <2> DEFINE g == [i \in 1 .. Cap - 0 |-> 0 + i - 1]
    <2>1. g \in Seq(Rows) /\ IsInjective(g) /\ ToSet(g) = {r \in Rows : 0 <= r /\ r < Cap}
      BY <2>0, Span
    <2>2. g = f
      BY <1>0
    <2>3. {r \in Rows : 0 <= r /\ r < Cap} = Rows
      BY <1>0 DEF Rows
    <2> HIDE DEF f, g
    <2> QED BY <2>1, <2>2, <2>3
  <1>6. native.free = f /\ native.slot = [e \in Experts |-> None] /\ native = [slot |-> [e \in Experts |-> None], free |-> f]
    OBVIOUS
  <1> HIDE DEF f
  <1>7. native \in NativeT /\ Ledger(native) /\ \A e \in Experts : native.slot[e] = None
    BY <1>5, <1>6 DEF NativeT, Ledger
  <1>8. /\ pool.lru = <<>> /\ pool.table = None /\ pool.free = <<>> /\ pool.alloc = 0 /\ \A e \in Experts : pool.slot[e] = None
    OBVIOUS
  <1>9. \A r \in Rows : ~(r < 0)
    BY <1>0 DEF Rows
  <1>10. Book(pool)
    <2>1. IsInjective(pool.free)
      BY <1>8 DEF IsInjective
    <2> QED BY <1>4, <1>8, <1>9, <2>1 DEF Book
  <1>11. raised = {}
    OBVIOUS
  <1> USE DEF Init
  <1>12. Right(pool, Doubt)
    BY <1>8 DEF Right
  <1>13. RaisesOnlyOverfull
    BY <1>11 DEF RaisesOnlyOverfull
  <1>14. Own /\ Lent
    BY <1>7, <1>8, <1>10, <1>12 DEF Own, Lent
  <1> QED BY <1>1, <1>2, <1>3, <1>7, <1>13, <1>14 DEF PoolInv

\* ... and is kept by every step.
LEMMA PoolNextInv ==
  ASSUME OneAllocator, PoolInv, [Next]_vars
  PROVE  PoolInv'
  <1>0. bg \in BgT
    BY DEF PoolInv
  <1>1. CASE \E ids \in Lists : Acquire(ids)
    BY <1>1, AcquireStep
  <1>2. CASE \E ids \in Lists : AcquireGpu(ids)
    BY <1>2, AcquireGpuStep
  <1>3. CASE \E ids \in Lists : NativeDemand(ids)
    BY <1>3, NativeDemandStep
  <1>4. CASE \E ids \in Lists : Pin(ids)
    BY <1>4, PinStep
  <1>5. CASE \E ids \in Lists : PrefetchSync(ids)
    BY <1>5, PrefetchSyncStep
  <1>6. CASE \E ids \in Lists : PrefetchBuffered(ids)
    <2>1. UNCHANGED <<mode, pool, native, raised>> /\ bg' = bg
      BY <1>6 DEF PrefetchBuffered
    <2> QED BY <1>0, <2>1, PoolQuiet
  <1>7. CASE \E l \in Layers, ids \in Lists : BgSubmit(l, ids)
    BY <1>7, BgSubmitStep
  <1>8. CASE \E l \in Layers, ids \in Lists : BlobPrefetch(l, ids)
    <2>1. UNCHANGED <<mode, pool, native, raised>> /\ bg' = bg
      BY <1>8 DEF BlobPrefetch
    <2> QED BY <1>0, <2>1, PoolQuiet
  <1>9. CASE BgTake
    BY <1>9, BgTakeStep
  <1>10. CASE BgFails
    BY <1>10, BgFailsStep
  <1>11. CASE BgPublish
    BY <1>11, BgPublishStep
  <1>12. CASE Promote
    BY <1>12, PromoteStep
  <1>13. CASE \E k \in pf.futures, good \in BOOLEAN : BlobJob(k, good)
    <2>1. UNCHANGED <<mode, pool, native, raised>> /\ bg' = bg
      BY <1>13 DEF BlobJob
    <2> QED BY <1>0, <2>1, PoolQuiet
  <1>14. CASE UNCHANGED vars
    <2>1. UNCHANGED <<mode, pool, native, raised>> /\ bg' = bg
      BY <1>14 DEF vars
    <2> QED BY <1>0, <2>1, PoolQuiet
  <1> QED BY <1>1, <1>2, <1>3, <1>4, <1>5, <1>6, <1>7, <1>8, <1>9, <1>10, <1>11, <1>12, <1>13, <1>14 DEF Next

\* The invariant implies the first property; it contains the second.
LEMMA LookupHolds ==
  ASSUME PoolInv
  PROVE  LookupBytesUntilError
  <1> SUFFICES ASSUME raised = {} PROVE LookupBytes
    BY DEF LookupBytesUntilError
  <1>1. CASE mode = "dual"
    <2>1. ToSet(pool.lru) = {}
      BY <1>1 DEF PoolInv, Lent, ToSet
    <2> QED BY <1>1, <2>1 DEF PoolInv, Lent, LookupBytes, Resident
  <1>2. CASE mode # "dual"
    <2>1. Book(pool) /\ Right(pool, {}) /\ \A e \in Experts : native.slot[e] = None
      BY <1>2 DEF PoolInv, Own, Doubt
    <2>2. \A e \in Resident(pool) : pool.bytes[pool.slot[e]] = e
      BY <2>1 DEF Book, Right, Resident
    <2> QED BY <2>1, <2>2 DEF Book, LookupBytes
  <1> QED BY <1>1, <1>2

\* Until a call raises, the slot book, the lookup table and the C++ ledger lead
\* to rows with the bytes of their expert (LookupBytesUntilError), if prompts
\* in the dual mode do not use the Python allocator too.
THEOREM PoolLookups == ASSUME OneAllocator PROVE Spec => []LookupBytesUntilError
  <1>1. Init => PoolInv
    BY PoolInitInv
  <1>2. PoolInv /\ [Next]_vars => PoolInv'
    BY PoolNextInv
  <1>3. PoolInv => LookupBytesUntilError
    BY LookupHolds
  <1> QED BY <1>1, <1>2, <1>3, PTL DEF Spec

\* A call raises only when its experts and the pins exceed the rows
\* (RaisesOnlyOverfull).
THEOREM PoolRaises == ASSUME OneAllocator PROVE Spec => []RaisesOnlyOverfull
  <1>1. Init => PoolInv
    BY PoolInitInv
  <1>2. PoolInv /\ [Next]_vars => PoolInv'
    BY PoolNextInv
  <1>3. PoolInv => RaisesOnlyOverfull
    BY DEF PoolInv
  <1> QED BY <1>1, <1>2, <1>3, PTL DEF Spec
=============================================================================
