-------------------------- MODULE SideRegionProofs --------------------------
(***************************************************************************)
(* For any number of experts, rows, forwards and submissions: the rows of  *)
(* the region are partitioned, and the MoE reads the bytes it was          *)
(* promised.                                                               *)
(***************************************************************************)
EXTENDS SideRegion, FiniteSetTheorems, SequenceTheorems, TLAPS

Reads == Experts \X Rows
JobRecords == [first : Reads, todo : Seq(Reads), writing : BOOLEAN, fresh : BOOLEAN]
ResvRecords == [sub : Subs, reads : Seq(Reads), todo : Seq(Experts)]
DemandRecords ==
    [fwd : Forwards, route : SUBSET Experts,
     st : {"open", "remapped", "waiting", "joined", "settled", "serving", "over"},
     local : [Experts -> Rows \cup {None, Real}]]

Elements(q) == {q[i] : i \in DOMAIN q}
Injective(q) == \A i, k \in DOMAIN q : q[i] = q[k] => i = k

\* Expert e is published in row r, or about to be.
At(e, r) == e2r[e] = r \/ pending[e] = r

BookTypes ==
    /\ e2r \in [Experts -> Rows \cup {None}] /\ pending \in [Experts -> Rows \cup {None}]
    /\ free \in [Rows -> Nat] /\ inited \in BOOLEAN

LifeTypes ==
    /\ sub \in [Subs -> {"idle", "submitted", "reading", "done"}]
    /\ ids \in [Subs -> [seq : Seq(Experts), resident : SUBSET Experts]]
    /\ jobs \in [Subs -> SUBSET JobRecords]
    /\ resv # None => resv \in ResvRecords
    /\ mode \in Modes /\ real \subseteq Experts /\ demand \in DemandRecords

\* Experts do not share a row, none has two, and a row that no expert has is
\* free once.
RowInv ==
    /\ \A e \in Experts : e2r[e] = None \/ pending[e] = None
    /\ \A r \in Rows : \A e, d \in Experts : At(e, r) /\ At(d, r) => e = d
    /\ inited => \A r \in Rows : free[r] = IF \E e \in Experts : At(e, r) THEN 0 ELSE 1
    /\ ~inited => /\ \A e \in Experts : e2r[e] = None /\ pending[e] = None
                  /\ \A r \in Rows : free[r] = 0
    /\ table = e2r

\* A row to be read is in the hands of one job, once, and reserved for it.
JobPlaces ==
    /\ \A s \in Subs : \A j \in jobs[s] :
          /\ Injective(j.todo)
          /\ j.writing => j.todo # <<>>
          /\ \A p \in Placements(j) : Owned(p)
    /\ \A s, t \in Subs : \A j \in jobs[s], k \in jobs[t] :
          Placements(j) \cap Placements(k) # {} => s = t /\ j = k

ResvPlaces ==
    resv # None => /\ Injective(resv.reads)
                   /\ \A p \in Elements(resv.reads) :
                         /\ Owned(p)
                         /\ \A s \in Subs : \A j \in jobs[s] : p \notin Placements(j)

\* A submission counts as in flight until its jobs are over.
Running == {s \in Subs : sub[s] \in {"submitted", "reading"}}
LifeInv ==
    /\ inflight = Cardinality(Running)
    /\ \A s \in Subs : jobs[s] # {} => sub[s] = "reading"
    /\ resv # None => sub[resv.sub] = "submitted" /\ inited

BooksInv == BookTypes /\ LifeTypes /\ RowInv /\ JobPlaces /\ ResvPlaces /\ LifeInv

\* sideregion_reset drains before it clears the books.
ResetsDrain == \A m \in Modes : ~m.reset
-----------------------------------------------------------------------------
(* Sequences, and sets of at most one element.                             *)

\* What a sequence holds.
LEMMA SeqElements ==
    ASSUME NEW S, NEW q \in Seq(S)
    PROVE  /\ DOMAIN q = 1 .. Len(q) /\ Len(q) \in Nat /\ Elements(q) \subseteq S
           /\ \A i \in DOMAIN q : q[i] \in S
  BY LenProperties DEF Elements

\* The empty sequence holds nothing.
LEMMA SeqEmpty == Elements(<<>>) = {} /\ Injective(<<>>)
  BY EmptySeq DEF Elements, Injective

\* A sequence of one element.
LEMMA SeqSingle ==
    ASSUME NEW S, NEW x \in S
    PROVE  <<x>> \in Seq(S) /\ Elements(<<x>>) = {x} /\ Injective(<<x>>) /\ Head(<<x>>) = x /\ <<x>> # <<>>
  BY DEF Elements, Injective

\* Appending keeps distinct elements distinct if the new one is new.
LEMMA SeqAppend ==
    ASSUME NEW S, NEW q \in Seq(S), NEW x \in S
    PROVE  /\ Append(q, x) \in Seq(S) /\ Elements(Append(q, x)) = Elements(q) \cup {x}
           /\ Injective(q) /\ x \notin Elements(q) => Injective(Append(q, x))
  <1>1. /\ Append(q, x) \in Seq(S) /\ Len(Append(q, x)) = Len(q) + 1
        /\ \A i \in 1 .. Len(q) : Append(q, x)[i] = q[i]
        /\ Append(q, x)[Len(q) + 1] = x
      BY AppendProperties
  <1>2. Len(q) \in Nat /\ DOMAIN q = 1 .. Len(q)
      BY SeqElements
  <1>3. DOMAIN Append(q, x) = 1 .. Len(q) + 1
      BY <1>1, SeqElements
  <1>4. \A i \in 1 .. Len(q) + 1 : i \in 1 .. Len(q) \/ i = Len(q) + 1
      BY <1>2
  <1>5. 1 .. Len(q) \subseteq 1 .. Len(q) + 1 /\ Len(q) + 1 \in 1 .. Len(q) + 1
      BY <1>2
  <1>6. Elements(Append(q, x)) = Elements(q) \cup {x}
      BY <1>1, <1>2, <1>3, <1>4, <1>5 DEF Elements
  <1>7. ASSUME Injective(q), x \notin Elements(q) PROVE Injective(Append(q, x))
    <2> SUFFICES ASSUME NEW i \in 1 .. Len(q) + 1, NEW k \in 1 .. Len(q) + 1, Append(q, x)[i] = Append(q, x)[k]
                 PROVE  i = k
        BY <1>3 DEF Injective
    <2>1. CASE i \in 1 .. Len(q) /\ k \in 1 .. Len(q)
        BY <1>1, <1>2, <1>7, <2>1 DEF Injective
    <2>2. CASE i = Len(q) + 1 /\ k \in 1 .. Len(q)
        BY <1>1, <1>2, <1>7, <2>2 DEF Elements
    <2>3. CASE k = Len(q) + 1 /\ i \in 1 .. Len(q)
        BY <1>1, <1>2, <1>7, <2>3 DEF Elements
    <2> QED  BY <1>4, <2>1, <2>2, <2>3
  <1> QED  BY <1>1, <1>6, <1>7

\* The head is taken off.
LEMMA SeqTail ==
    ASSUME NEW S, NEW q \in Seq(S), q # <<>>
    PROVE  /\ Tail(q) \in Seq(S) /\ Head(q) \in S /\ Elements(q) = Elements(Tail(q)) \cup {Head(q)}
           /\ Injective(q) => Injective(Tail(q)) /\ Head(q) \notin Elements(Tail(q))
  <1>1. /\ Head(q) \in S /\ Tail(q) \in Seq(S) /\ Len(Tail(q)) = Len(q) - 1
        /\ \A i \in 1 .. Len(Tail(q)) : Tail(q)[i] = q[i + 1]
      BY HeadTailProperties
  <1>2. Len(q) \in Nat \ {0} /\ Head(q) = q[1] /\ DOMAIN q = 1 .. Len(q)
      BY EmptySeq, SeqElements
  <1>3. DOMAIN Tail(q) = 1 .. Len(q) - 1
      BY <1>1, SeqElements
  <1>4. \A i \in 1 .. Len(q) : i = 1 \/ (i - 1 \in 1 .. Len(q) - 1 /\ (i - 1) + 1 = i)
      BY <1>2
  <1>5. 1 \in 1 .. Len(q) /\ \A i \in 1 .. Len(q) - 1 : i + 1 \in 1 .. Len(q) /\ i + 1 # 1
      BY <1>2
  <1>6. Elements(q) \subseteq Elements(Tail(q)) \cup {Head(q)}
    <2> SUFFICES ASSUME NEW i \in 1 .. Len(q) PROVE q[i] \in Elements(Tail(q)) \cup {Head(q)}
        BY <1>2 DEF Elements
    <2>1. i = 1 \/ (i - 1 \in DOMAIN Tail(q) /\ Tail(q)[i - 1] = q[i])
        BY <1>1, <1>3, <1>4
    <2> QED  BY <1>2, <2>1 DEF Elements
  <1>7. Elements(Tail(q)) \cup {Head(q)} \subseteq Elements(q)
      BY <1>1, <1>2, <1>3, <1>5 DEF Elements
  <1>8. ASSUME Injective(q) PROVE Injective(Tail(q))
    <2> SUFFICES ASSUME NEW i \in 1 .. Len(q) - 1, NEW k \in 1 .. Len(q) - 1, Tail(q)[i] = Tail(q)[k]
                 PROVE  i = k
        BY <1>3 DEF Injective
    <2>1. q[i + 1] = q[k + 1]
        BY <1>1
    <2>2. i + 1 = k + 1
        BY <1>2, <1>5, <1>8, <2>1 DEF Injective
    <2> QED  BY <1>2, <2>2
  <1>9. ASSUME Injective(q) PROVE Head(q) \notin Elements(Tail(q))
    <2> SUFFICES ASSUME NEW i \in 1 .. Len(q) - 1, Tail(q)[i] = Head(q) PROVE FALSE
        BY <1>3 DEF Elements
    <2> QED  BY <1>1, <1>2, <1>5, <1>9 DEF Injective
  <1> QED  BY <1>1, <1>6, <1>7, <1>8, <1>9

\* A set without two different elements.
LEMMA AtMostOne ==
    ASSUME NEW S, \A x, y \in S : x = y
    PROVE  IsFiniteSet(S) /\ Cardinality(S) = IF S = {} THEN 0 ELSE 1
  <1>1. CASE S = {}
      BY <1>1, FS_EmptySet
  <1>2. CASE S # {}
    <2>1. PICK x \in S : TRUE
        BY <1>2
    <2>2. S = {x}
        BY <2>1
    <2> QED  BY <1>2, <2>2, FS_Singleton
  <1> QED  BY <1>1, <1>2
-----------------------------------------------------------------------------
(* The books.                                                              *)

\* Side conditions used everywhere.
LEMMA Basics == None \notin Rows /\ Real \notin Rows /\ None # Real /\ NF \in Nat
  BY SideAssumption DEF SideAssumption

\* Giving back reservations that still stand frees their rows once.
LEMMA GiveBackOK ==
    ASSUME BookTypes, RowInv, NEW D \in SUBSET Reads, \A p \in D : Owned(p), GiveBack(D, D),
           e2r' = e2r, table' = table, inited' = inited
    PROVE  /\ BookTypes' /\ RowInv'
           /\ \A e \in Experts : pending'[e] = IF \E p \in D : p[1] = e THEN None ELSE pending[e]
  <1>1. /\ pending' \in [Experts -> Rows \cup {None}]
        /\ \A e \in Experts : pending'[e] = IF \E p \in D : p[1] = e THEN None ELSE pending[e]
      BY DEF GiveBack, BookTypes
  <1>2. \A r \in Rows : \A p, q \in {x \in D : x[2] = r} : p = q
    <2> SUFFICES ASSUME NEW r \in Rows, NEW p \in D, NEW q \in D, p[2] = r, q[2] = r
                 PROVE  p = q
        OBVIOUS
    <2>1. p = <<p[1], r>> /\ q = <<q[1], r>> /\ p[1] \in Experts /\ q[1] \in Experts
        BY DEF Reads
    <2>2. At(p[1], r) /\ At(q[1], r)
        BY DEF At, Owned
    <2> QED  BY <2>1, <2>2 DEF RowInv
  <1>3. \A r \in Rows : LET X == {x \in D : x[2] = r}
                        IN  Cardinality(X) = IF X = {} THEN 0 ELSE 1
      BY <1>2, AtMostOne
  <1>4. /\ free' \in [Rows -> Nat]
        /\ \A r \in Rows : free'[r] = free[r] + IF \E x \in D : x[2] = r THEN 1 ELSE 0
    <2>1. \A r \in Rows : free[r] + Cardinality({x \in D : x[2] = r})
                           = free[r] + IF \E x \in D : x[2] = r THEN 1 ELSE 0
        BY <1>3
    <2>2. free' = [r \in Rows |-> free[r] + Cardinality({x \in D : x[2] = r})]
        BY DEF GiveBack
    <2> QED  BY <2>1, <2>2 DEF BookTypes
  <1>5. \A p \in D : /\ p[1] \in Experts /\ p[2] \in Rows /\ At(p[1], p[2]) /\ e2r[p[1]] = None
                     /\ inited /\ free[p[2]] = 0
    <2> SUFFICES ASSUME NEW p \in D
                 PROVE  /\ p[1] \in Experts /\ p[2] \in Rows /\ At(p[1], p[2]) /\ e2r[p[1]] = None
                        /\ inited /\ free[p[2]] = 0
        OBVIOUS
    <2>1. p[1] \in Experts /\ p[2] \in Rows /\ pending[p[1]] = p[2] /\ p[2] # None
        BY Basics DEF Reads, Owned
    <2> QED  BY <2>1 DEF At, RowInv
  <1>6. \A e \in Experts, r \in Rows :
            (At(e, r))' <=> At(e, r) /\ ~\E p \in D : p[1] = e /\ p[2] = r
    <2> SUFFICES ASSUME NEW e \in Experts, NEW r \in Rows
                 PROVE  (At(e, r))' <=> At(e, r) /\ ~\E p \in D : p[1] = e /\ p[2] = r
        OBVIOUS
    <2>1. CASE \E p \in D : p[1] = e
      <3>1. PICK p \in D : p[1] = e
          BY <2>1
      <3>2. pending'[e] = None /\ e2r[e] = None /\ pending[e] = p[2]
          BY <1>1, <1>5, <3>1 DEF Owned
      <3>3. ~(At(e, r))' /\ (At(e, r) => p[2] = r)
          BY <3>2, Basics DEF At
      <3> QED  BY <3>1, <3>3
    <2>2. CASE ~\E p \in D : p[1] = e
        BY <1>1, <2>2 DEF At
    <2> QED  BY <2>1, <2>2
  <1>7. RowInv'
    <2>1. \A e \in Experts : e2r'[e] = None \/ pending'[e] = None
        BY <1>1 DEF RowInv
    <2>2. \A r \in Rows : \A e, d \in Experts : (At(e, r))' /\ (At(d, r))' => e = d
        BY <1>6 DEF RowInv
    <2>3. ASSUME inited', NEW r \in Rows
          PROVE  free'[r] = IF \E e \in Experts : (At(e, r))' THEN 0 ELSE 1
      <3>1. CASE \E p \in D : p[2] = r
        <4>1. PICK p \in D : p[2] = r
            BY <3>1
        <4>2. free'[r] = 1
            BY <1>4, <1>5, <4>1
        <4>3. \A e \in Experts : At(e, r) => e = p[1]
            BY <1>5, <4>1 DEF RowInv
        <4> QED  BY <1>6, <4>1, <4>2, <4>3
      <3>2. CASE ~\E p \in D : p[2] = r
        <4>1. free'[r] = free[r]
            BY <1>4, <3>2 DEF BookTypes
        <4>2. \A e \in Experts : (At(e, r))' <=> At(e, r)
            BY <1>6, <3>2
        <4>3. free[r] = IF \E e \in Experts : At(e, r) THEN 0 ELSE 1
            BY <2>3, Zenon DEF RowInv
        <4> QED  BY <4>1, <4>2, <4>3
      <3> QED  BY <3>1, <3>2
    <2>4. ASSUME ~inited'
          PROVE  /\ \A e \in Experts : e2r'[e] = None /\ pending'[e] = None
                 /\ \A r \in Rows : free'[r] = 0
      <3>1. D = {} /\ ~inited
          BY <1>5, <2>4
      <3> QED  BY <1>1, <1>4, <3>1 DEF RowInv
    <2>5. table' = e2r'
        BY DEF RowInv
    <2> QED  BY <2>1, <2>2, <2>3, <2>4, <2>5 DEF RowInv
  <1> QED  BY <1>1, <1>4, <1>7 DEF BookTypes

\* Publishing a reserved row.
LEMMA PublishOK ==
    ASSUME BookTypes, RowInv, NEW p \in Reads, Owned(p), GiveBack({p}, {}),
           e2r' = [e2r EXCEPT ![p[1]] = p[2]], table' = [table EXCEPT ![p[1]] = p[2]],
           inited' = inited
    PROVE  /\ BookTypes' /\ RowInv'
           /\ \A e \in Experts : pending'[e] = IF e = p[1] THEN None ELSE pending[e]
           /\ \A e \in Experts : e2r'[e] = IF e = p[1] THEN p[2] ELSE e2r[e]
  <1>1. /\ pending' \in [Experts -> Rows \cup {None}]
        /\ \A e \in Experts : pending'[e] = IF e = p[1] THEN None ELSE pending[e]
      BY DEF GiveBack, BookTypes, Reads
  <1>2. p[1] \in Experts /\ p[2] \in Rows /\ pending[p[1]] = p[2] /\ p[2] # None
      BY Basics DEF Reads, Owned
  <1>3. /\ e2r' \in [Experts -> Rows \cup {None}]
        /\ \A e \in Experts : e2r'[e] = IF e = p[1] THEN p[2] ELSE e2r[e]
      BY <1>2 DEF BookTypes
  <1>4. free' = free
    <2>1. Cardinality({}) = 0
        BY FS_EmptySet
    <2>2. free' = [r \in Rows |-> free[r] + Cardinality({x \in {} : x[2] = r})]
        BY DEF GiveBack
    <2>3. \A r \in Rows : {x \in {} : x[2] = r} = {}
        OBVIOUS
    <2>4. \A r \in Rows : free[r] + 0 = free[r]
        BY DEF BookTypes
    <2>5. free' = [r \in Rows |-> free[r]]
        BY <2>1, <2>2, <2>3, <2>4
    <2> QED  BY <2>5 DEF BookTypes
  <1>5. \A e \in Experts, r \in Rows : (At(e, r))' <=> At(e, r)
      BY <1>1, <1>2, <1>3, Basics DEF At, RowInv
  <1>6. RowInv'
    <2>1. \A e \in Experts : e2r'[e] = None \/ pending'[e] = None
        BY <1>1, <1>3 DEF RowInv
    <2>2. inited
        BY <1>2 DEF RowInv
    <2>3. table' = e2r'
        BY DEF RowInv
    <2> QED  BY <1>4, <1>5, <2>1, <2>2, <2>3 DEF RowInv
  <1> QED  BY <1>1, <1>3, <1>4, <1>6 DEF BookTypes

-----------------------------------------------------------------------------
(* Jobs.                                                                   *)

\* The placements of a job are reads.
LEMMA PlacementsOK ==
    ASSUME NEW j \in JobRecords
    PROVE  Placements(j) = Elements(j.todo) /\ Placements(j) \subseteq Reads
  BY SeqElements DEF Placements, Elements, JobRecords

\* A job moves on: it keeps some of its placements, and the reservations of
\* the others may go.
LEMMA JobMoves ==
    ASSUME LifeTypes, JobPlaces, ResvPlaces, NEW s \in Subs, NEW j \in jobs[s], NEW k \in JobRecords,
           SetJob(s, j, k), resv' = resv, Injective(k.todo), k.writing => k.todo # <<>>,
           Placements(k) \subseteq Placements(j),
           \A e \in Experts : pending'[e] = pending[e]
                              \/ \E p \in Placements(j) \ Placements(k) : p[1] = e
    PROVE  /\ jobs' \in [Subs -> SUBSET JobRecords] /\ JobPlaces' /\ ResvPlaces'
           /\ \A t \in Subs : jobs'[t] # {} => jobs[t] # {}
  <1>1. jobs \in [Subs -> SUBSET JobRecords] /\ j \in JobRecords
      BY DEF LifeTypes
  <1>2. /\ jobs' \in [Subs -> SUBSET JobRecords]
        /\ \A t \in Subs : \A m \in jobs'[t] : (m \in jobs[t] /\ ~(t = s /\ m = j)) \/ (t = s /\ m = k)
        /\ \A t \in Subs : t # s => jobs'[t] = jobs[t]
      BY <1>1 DEF SetJob
  <1>3. \A t \in Subs : \A m \in jobs'[t] : m \in JobRecords
      BY <1>2
  <1>4. ASSUME NEW p \in Reads, Owned(p),
               p \in Placements(j) => p \in Placements(k)
        PROVE  (Owned(p))'
    <2>1. p = <<p[1], p[2]>> /\ p[1] \in Experts
        BY DEF Reads
    <2>2. ASSUME NEW q \in Placements(j) \ Placements(k), q[1] = p[1] PROVE FALSE
      <3>1. Owned(q) /\ q \in Reads
          BY <1>1, PlacementsOK DEF JobPlaces
      <3>2. q = <<q[1], q[2]>> /\ q[2] = p[2]
          BY <1>4, <2>2, <3>1 DEF Owned, Reads
      <3> QED  BY <1>4, <2>1, <2>2, <3>2
    <2> QED  BY <1>4, <2>1, <2>2 DEF Owned
  <1>5. ASSUME NEW t \in Subs, NEW m \in jobs'[t]
        PROVE  /\ Injective(m.todo)
               /\ m.writing => m.todo # <<>>
               /\ \A p \in Placements(m) : (Owned(p))'
    <2>1. CASE m = k
      <3>1. Placements(k) \subseteq Reads
          BY PlacementsOK
      <3>2. \A p \in Placements(k) : Owned(p)
          BY DEF JobPlaces
      <3> QED  BY <1>4, <2>1, <3>1, <3>2
    <2>2. CASE m # k
      <3>1. m \in jobs[t] /\ ~(t = s /\ m = j) /\ m \in JobRecords
          BY <1>1, <1>2, <1>5, <2>2
      <3>2. \A p \in Placements(m) : p \in Reads /\ Owned(p) /\ p \notin Placements(j)
          BY <3>1, PlacementsOK DEF JobPlaces
      <3> QED  BY <1>4, <3>1, <3>2 DEF JobPlaces
    <2> QED  BY <2>1, <2>2
  <1>6. ASSUME NEW t \in Subs, NEW u \in Subs, NEW m \in jobs'[t], NEW n \in jobs'[u],
               Placements(m) \cap Placements(n) # {}
        PROVE  t = u /\ m = n
    <2>1. CASE t = s /\ m = k /\ u = s /\ n = k
        BY <2>1
    <2>2. CASE t = s /\ m = k /\ n \in jobs[u] /\ ~(u = s /\ n = j)
        BY <1>6, <2>2 DEF JobPlaces
    <2>3. CASE u = s /\ n = k /\ m \in jobs[t] /\ ~(t = s /\ m = j)
        BY <1>6, <2>3 DEF JobPlaces
    <2>4. CASE m \in jobs[t] /\ n \in jobs[u]
        BY <1>6, <2>4 DEF JobPlaces
    <2> QED  BY <1>2, <2>1, <2>2, <2>3, <2>4
  <1>7. JobPlaces'
      BY <1>5, <1>6 DEF JobPlaces, Placements
  <1>8. ASSUME resv # None, NEW p \in Elements(resv.reads)
        PROVE  (Owned(p))' /\ \A t \in Subs : \A m \in jobs'[t] : p \notin Placements(m)
    <2>1. p \in Reads
        BY <1>8, SeqElements DEF LifeTypes, ResvRecords
    <2>2. Owned(p) /\ \A t \in Subs : \A m \in jobs[t] : p \notin Placements(m)
        BY <1>8 DEF ResvPlaces
    <2> QED  BY <1>2, <1>4, <2>1, <2>2
  <1>9. ResvPlaces'
      BY <1>8 DEF ResvPlaces, Placements
  <1> QED  BY <1>2, <1>7, <1>9

\* Neither jobs nor reservations change.
LEMMA PlacesSame ==
    ASSUME JobPlaces, jobs' = jobs, pending' = pending
    PROVE  JobPlaces' /\ (ResvPlaces /\ resv' = resv => ResvPlaces')
  <1>1. \A p : (Owned(p))' <=> Owned(p)
      BY DEF Owned
  <1> QED  BY <1>1 DEF JobPlaces, ResvPlaces

\* How a submission's reads are split: into jobs that share no placement.
LEMMA JobsOfOK ==
    ASSUME NEW s \in Subs, NEW reads \in Seq(Reads), Injective(reads), reads # <<>>
    PROVE  \A j \in JobsOf(s, reads) :
              /\ j \in JobRecords /\ Injective(j.todo) /\ ~j.writing
              /\ Placements(j) \subseteq Elements(reads)
              /\ \A k \in JobsOf(s, reads) : Placements(j) \cap Placements(k) # {} => j = k
  <1>1. ASSUME NEW q \in Seq(Reads), q # <<>>, Injective(q)
        PROVE  /\ Job(q) \in JobRecords /\ Job(q).todo = q /\ ~Job(q).writing
               /\ Placements(Job(q)) = Elements(q)
      BY <1>1, SeqTail DEF Job, JobRecords, Placements, Elements
  <1>2. \A i \in DOMAIN reads : reads[i] \in Reads /\ reads[i] \in Elements(reads)
      BY SeqElements DEF Elements
  <1>3. \A i \in DOMAIN reads :
            /\ Job(<<reads[i]>>) \in JobRecords /\ Injective(Job(<<reads[i]>>).todo)
            /\ ~Job(<<reads[i]>>).writing
            /\ Placements(Job(<<reads[i]>>)) = {reads[i]}
      BY <1>1, <1>2, SeqSingle
  <1>4. CASE JobsOf(s, reads) = {Job(<<reads[i]>>) : i \in DOMAIN reads}
      BY <1>2, <1>3, <1>4
  <1>5. CASE JobsOf(s, reads) = {Job(<<Head(reads)>>)} \cup {Job(t) : t \in {Tail(reads)} \ {<<>>}}
    <2>1. /\ Tail(reads) \in Seq(Reads) /\ Injective(Tail(reads)) /\ Head(reads) \in Reads
          /\ Elements(reads) = Elements(Tail(reads)) \cup {Head(reads)}
          /\ Head(reads) \notin Elements(Tail(reads))
        BY SeqTail
    <2>2. /\ Job(<<Head(reads)>>) \in JobRecords /\ Injective(Job(<<Head(reads)>>).todo)
          /\ ~Job(<<Head(reads)>>).writing
          /\ Placements(Job(<<Head(reads)>>)) = {Head(reads)}
        BY <1>1, <2>1, SeqSingle
    <2>3. Tail(reads) # <<>> =>
              /\ Job(Tail(reads)) \in JobRecords /\ Injective(Job(Tail(reads)).todo)
              /\ ~Job(Tail(reads)).writing
              /\ Placements(Job(Tail(reads))) = Elements(Tail(reads))
        BY <1>1, <2>1
    <2>4. \A j \in JobsOf(s, reads) :
              j = Job(<<Head(reads)>>) \/ (Tail(reads) # <<>> /\ j = Job(Tail(reads)))
        BY <1>5
    <2> QED  BY <2>1, <2>2, <2>3, <2>4
  <1>6. CASE JobsOf(s, reads) = {Job(reads)}
      BY <1>1, <1>6
  <1> QED  BY <1>4, <1>5, <1>6 DEF JobsOf

-----------------------------------------------------------------------------
(* Submissions.                                                            *)

\* Submissions are finitely many.
LEMMA RunningFinite == IsFiniteSet(Subs) /\ IsFiniteSet(Running)
  <1>1. IsFiniteSet(Forwards)
      BY Basics, FS_Interval DEF Forwards
  <1>2. IsFiniteSet({"early", "tail"})
    <2>1. IsFiniteSet({"early"})
        BY FS_Singleton
    <2>2. IsFiniteSet({"early"} \cup {"tail"})
        BY <2>1, FS_AddElement
    <2>3. {"early", "tail"} = {"early"} \cup {"tail"}
        OBVIOUS
    <2> QED  BY <2>2, <2>3
  <1>3. IsFiniteSet(Subs)
      BY <1>1, <1>2, FS_Product DEF Subs
  <1> QED  BY <1>3, FS_Subset DEF Running

\* A submission that does not end stays counted.
LEMMA LifeSame ==
    ASSUME LifeInv, inflight' = inflight, Running' = Running
    PROVE  (inflight = Cardinality(Running))'
  BY DEF LifeInv

\* A submission that ends is counted out.
LEMMA AccountOK ==
    ASSUME LifeTypes, LifeInv, NEW s \in Running, Account(s)
    PROVE  /\ sub' \in [Subs -> {"idle", "submitted", "reading", "done"}]
           /\ (inflight = Cardinality(Running))'
           /\ \A t \in Subs : sub'[t] = IF t = s THEN "done" ELSE sub[t]
  <1>1. /\ sub' \in [Subs -> {"idle", "submitted", "reading", "done"}]
        /\ \A t \in Subs : sub'[t] = IF t = s THEN "done" ELSE sub[t]
      BY DEF Account, LifeTypes
  <1>2. Running' = Running \ {s}
      BY <1>1 DEF Running
  <1>3. Cardinality(Running \ {s}) = Cardinality(Running) - 1
      BY RunningFinite, FS_RemoveElement
  <1> QED  BY <1>1, <1>2, <1>3 DEF LifeInv, Account

-----------------------------------------------------------------------------
(* Steps.                                                                  *)

\* Before anything is predicted there are no books.
LEMMA BooksInit == Init => BooksInv
  <1> SUFFICES ASSUME Init PROVE BooksInv
      OBVIOUS
  <1>1. BookTypes /\ LifeTypes
    <2>1. <<>> \in Seq(Experts)
        OBVIOUS
    <2>2. \A s \in Subs : ids[s] = [seq |-> <<>>, resident |-> {}]
        BY DEF Init
    <2>3. ids \in [Subs -> [seq : Seq(Experts), resident : SUBSET Experts]]
        BY <2>1 DEF Init
    <2>4. BookTypes
        BY DEF Init, BookTypes, NoMap
    <2>5. jobs \in [Subs -> SUBSET JobRecords] /\ sub \in [Subs -> {"idle", "submitted", "reading", "done"}]
        BY DEF Init
    <2>6. demand \in DemandRecords
        BY SideAssumption DEF Init, DemandRecords, NoMap, Forwards, SideAssumption
    <2> QED  BY <2>3, <2>4, <2>5, <2>6 DEF Init, LifeTypes
  <1>2. RowInv
      BY Basics DEF Init, RowInv, NoMap, At
  <1>3. JobPlaces /\ ResvPlaces
      BY DEF Init, JobPlaces, ResvPlaces
  <1>4. LifeInv
    <2>1. Running = {}
        BY DEF Init, Running
    <2> QED  BY <2>1, FS_EmptySet DEF Init, LifeInv
  <1> QED  BY <1>1, <1>2, <1>3, <1>4 DEF BooksInv

\* Steps of the demand leave the books alone.
LEMMA BooksSame ==
    ASSUME BooksInv, UNCHANGED <<books, sub, ids, jobs, inflight, resv>>, mode' = mode, real' \subseteq Experts,
           demand' \in DemandRecords
    PROVE  BooksInv'
  <1>1. BookTypes' /\ LifeTypes' /\ RowInv' /\ LifeInv'
      BY DEF BooksInv, BookTypes, LifeTypes, RowInv, At, LifeInv, Running, books
  <1>2. JobPlaces' /\ ResvPlaces'
      BY PlacesSame DEF BooksInv, books
  <1> QED  BY <1>1, <1>2 DEF BooksInv

\* eval_gpu counts a submission in before its callback can run.
LEMMA SubmitStep ==
    ASSUME BooksInv, NEW s \in Subs, NEW seq \in Seq(Experts), Submit(s, seq)
    PROVE  BooksInv'
  <1>1. /\ sub[s] = "idle" /\ sub' = [sub EXCEPT ![s] = "submitted"]
        /\ ids' = [ids EXCEPT ![s] = [seq |-> seq, resident |-> real]]
        /\ inflight' = inflight + 1
        /\ UNCHANGED <<mode, books, jobs, resv, demand, real>>
      BY DEF Submit
  <1>2. BookTypes' /\ RowInv' /\ JobPlaces' /\ ResvPlaces'
      BY <1>1, PlacesSame DEF BooksInv, BookTypes, RowInv, At, books
  <1>3. /\ sub' \in [Subs -> {"idle", "submitted", "reading", "done"}]
        /\ \A t \in Subs : sub'[t] = IF t = s THEN "submitted" ELSE sub[t]
      BY <1>1 DEF BooksInv, LifeTypes
  <1>4. ids' \in [Subs -> [seq : Seq(Experts), resident : SUBSET Experts]]
    <2>1. [seq |-> seq, resident |-> real] \in [seq : Seq(Experts), resident : SUBSET Experts]
        BY DEF BooksInv, LifeTypes
    <2> QED  BY <1>1, <2>1 DEF BooksInv, LifeTypes
  <1>5. LifeTypes'
      BY <1>1, <1>3, <1>4 DEF BooksInv, LifeTypes
  <1>6. Running' = Running \cup {s} /\ s \notin Running
      BY <1>1, <1>3 DEF Running
  <1>7. Cardinality(Running \cup {s}) = Cardinality(Running) + 1
      BY <1>6, RunningFinite, FS_AddElement
  <1>8. LifeInv'
    <2>1. inflight' = Cardinality(Running')
        BY <1>1, <1>6, <1>7 DEF BooksInv, LifeInv
    <2>2. \A t \in Subs : jobs'[t] # {} => sub'[t] = "reading"
        BY <1>1, <1>3 DEF BooksInv, LifeInv
    <2>3. resv' # None => sub'[resv'.sub] = "submitted" /\ inited'
      <3>1. ASSUME resv # None PROVE resv.sub \in Subs /\ sub[resv.sub] = "submitted" /\ inited
          BY <3>1, Zenon DEF BooksInv, LifeInv, LifeTypes, ResvRecords
      <3> QED  BY <1>1, <1>3, <3>1 DEF books
    <2> QED  BY <2>1, <2>2, <2>3 DEF LifeInv
  <1> QED  BY <1>2, <1>5, <1>8 DEF BooksInv

\* A submission's step that neither begins nor ends one.
LEMMA LifeStays ==
    ASSUME BooksInv, UNCHANGED <<sub, inflight>>, inited' = inited \/ inited',
           \A t \in Subs : jobs'[t] # {} => jobs[t] # {},
           resv' = resv \/ resv' = None \/ (resv # None /\ resv'.sub = resv.sub)
    PROVE  LifeInv'
  <1>1. Running' = Running
      BY DEF Running
  <1>2. inflight' = Cardinality(Running')
      BY <1>1 DEF BooksInv, LifeInv
  <1>3. \A t \in Subs : jobs'[t] # {} => sub'[t] = "reading"
      BY DEF BooksInv, LifeInv
  <1>4. resv' # None => sub'[resv'.sub] = "submitted" /\ inited'
      BY DEF BooksInv, LifeInv
  <1> QED  BY <1>2, <1>3, <1>4 DEF LifeInv

\* The callback enters reserve(): the rows of the layer are free, or the
\* duplicates it reclaims become so.
LEMMA ReserveBeginStep ==
    ASSUME BooksInv, NEW s \in Subs, ReserveBegin(s)
    PROVE  BooksInv'
  <1> DEFINE dup == {e \in ids[s].resident : Evictable(e)}
             first(r) == IF inited THEN free[r] ELSE free[r] + 1
  <1>1. /\ sub[s] = "submitted" /\ resv = None /\ inited' = TRUE
        /\ e2r' = [e \in Experts |-> IF e \in dup THEN None ELSE e2r[e]]
        /\ table' = [e \in Experts |-> IF e \in dup THEN None ELSE table[e]]
        /\ free' = [r \in Rows |-> first(r) + Cardinality({e \in dup : e2r[e] = r})]
        /\ resv' = [sub |-> s, reads |-> <<>>, todo |-> ids[s].seq]
        /\ UNCHANGED <<mode, pending, sub, ids, jobs, inflight, demand, real>>
    <2>1. free' = [r \in Rows |-> [q \in Rows |-> IF inited THEN free[q] ELSE free[q] + 1][r]
                                    + Cardinality({e \in dup : e2r[e] = r})]
        BY DEF ReserveBegin
    <2>2. \A r \in Rows : [q \in Rows |-> IF inited THEN free[q] ELSE free[q] + 1][r] = first(r)
        OBVIOUS
    <2>3. free' = [r \in Rows |-> first(r) + Cardinality({e \in dup : e2r[e] = r})]
        BY <2>1, <2>2
    <2> QED  BY <2>3 DEF ReserveBegin, LockFree, acct
  <1>2. dup \subseteq Experts /\ \A e \in dup : e2r[e] # None
      BY DEF BooksInv, LifeTypes, Evictable
  <1> HIDE DEF dup
  <1>3. /\ e2r' \in [Experts -> Rows \cup {None}]
        /\ \A e \in Experts : e2r'[e] = IF e \in dup THEN None ELSE e2r[e]
      BY <1>1 DEF BooksInv, BookTypes
  <1>4. \A r \in Rows : \A x, y \in {e \in dup : e2r[e] = r} : x = y
      BY <1>2 DEF BooksInv, RowInv, At
  <1>5. \A r \in Rows : LET X == {e \in dup : e2r[e] = r}
                        IN  Cardinality(X) = IF X = {} THEN 0 ELSE 1
      BY <1>4, AtMostOne
  <1>6. \A r \in Rows : /\ first(r) \in Nat
                        /\ first(r) = IF \E e \in Experts : At(e, r) THEN 0 ELSE 1
    <2> SUFFICES ASSUME NEW r \in Rows
                 PROVE  /\ first(r) \in Nat
                        /\ first(r) = IF \E e \in Experts : At(e, r) THEN 0 ELSE 1
        OBVIOUS
    <2>1. CASE inited
        BY <2>1 DEF BooksInv, BookTypes, RowInv
    <2>2. CASE ~inited
        BY <2>2, Basics DEF BooksInv, BookTypes, RowInv, At
    <2> QED  BY <2>1, <2>2
  <1> HIDE DEF first
  <1>7. \A r \in Rows : free'[r] = first(r) + IF \E e \in dup : e2r[e] = r THEN 1 ELSE 0
      BY <1>1, <1>5
  <1>8. free' \in [Rows -> Nat]
    <2>1. free' = [r \in Rows |-> first(r) + IF \E e \in dup : e2r[e] = r THEN 1 ELSE 0]
        BY <1>1, <1>5
    <2> QED  BY <1>6, <2>1
  <1>9. \A e \in Experts, r \in Rows : (At(e, r))' <=> At(e, r) /\ ~(e \in dup /\ e2r[e] = r)
    <2> SUFFICES ASSUME NEW e \in Experts, NEW r \in Rows
                 PROVE  (At(e, r))' <=> At(e, r) /\ ~(e \in dup /\ e2r[e] = r)
        OBVIOUS
    <2>1. CASE e \in dup
      <3>1. e2r[e] # None /\ pending[e] = None /\ e2r'[e] = None /\ pending'[e] = pending[e]
          BY <1>1, <1>2, <1>3, <2>1 DEF BooksInv, RowInv
      <3> QED  BY <2>1, <3>1, Basics DEF At
    <2>2. CASE e \notin dup
        BY <1>1, <1>3, <2>2 DEF At
    <2> QED  BY <2>1, <2>2
  <1>10. RowInv'
    <2>1. \A e \in Experts : e2r'[e] = None \/ pending'[e] = None
        BY <1>1, <1>3 DEF BooksInv, RowInv
    <2>2. \A r \in Rows : \A e, d \in Experts : (At(e, r))' /\ (At(d, r))' => e = d
        BY <1>9 DEF BooksInv, RowInv
    <2>3. ASSUME NEW r \in Rows
          PROVE  free'[r] = IF \E e \in Experts : (At(e, r))' THEN 0 ELSE 1
      <3>1. CASE \E d \in dup : e2r[d] = r
        <4>1. PICK d \in dup : e2r[d] = r
            BY <3>1
        <4>2. \A e \in Experts : At(e, r) => e = d
            BY <1>2, <4>1 DEF BooksInv, RowInv, At
        <4>3. At(d, r) /\ d \in Experts
            BY <1>2, <4>1 DEF At
        <4> QED  BY <1>6, <1>7, <1>9, <4>1, <4>2, <4>3
      <3>2. CASE ~\E d \in dup : e2r[d] = r
          BY <1>6, <1>7, <1>9, <3>2
      <3> QED  BY <3>1, <3>2
    <2>4. table' = e2r'
        BY <1>1 DEF BooksInv, RowInv, BookTypes
    <2> QED  BY <1>1, <2>1, <2>2, <2>3, <2>4 DEF RowInv
  <1>11. BookTypes'
      BY <1>1, <1>3, <1>8 DEF BooksInv, BookTypes
  <1>12. resv' \in ResvRecords
    <2>1. <<>> \in Seq(Reads) /\ ids[s].seq \in Seq(Experts)
        BY DEF BooksInv, LifeTypes
    <2> QED  BY <1>1, <2>1 DEF ResvRecords
  <1>13. LifeTypes'
      BY <1>1, <1>12 DEF BooksInv, LifeTypes
  <1>14. JobPlaces'
      BY <1>1, PlacesSame DEF BooksInv
  <1>15. ResvPlaces'
      BY <1>1, SeqEmpty DEF ResvPlaces
  <1>16. LifeInv'
    <2>1. Running' = Running /\ inflight' = inflight
        BY <1>1 DEF Running
    <2>2. resv'.sub = s /\ sub'[s] = "submitted" /\ inited'
        BY <1>1
    <2>3. \A t \in Subs : jobs'[t] # {} => sub'[t] = "reading"
        BY <1>1 DEF BooksInv, LifeInv
    <2>4. inflight' = Cardinality(Running')
        BY <2>1 DEF BooksInv, LifeInv
    <2> QED  BY <2>2, <2>3, <2>4 DEF LifeInv
  <1> QED  BY <1>10, <1>11, <1>13, <1>14, <1>15, <1>16 DEF BooksInv

\* A reservation that stands names a row, so a new one of another expert
\* does not touch it.
LEMMA StillOwned ==
    ASSUME NEW e \in Experts, NEW r, pending[e] = None,
           pending \in [Experts -> Rows \cup {None}], pending' = [pending EXCEPT ![e] = r],
           NEW p \in Reads, Owned(p)
    PROVE  (Owned(p))' /\ p # <<e, r>>
  <1>1. p[1] \in Experts /\ p[2] \in Rows /\ p = <<p[1], p[2]>>
      BY DEF Reads
  <1>2. pending[p[1]] # None
      BY <1>1, Basics DEF Owned
  <1>3. p[1] # e
      BY <1>2
  <1> QED  BY <1>1, <1>3 DEF Owned

\* The loop of reserve() hands a free row, or that of a victim, to a candidate.
LEMMA ReserveRowStep == ASSUME BooksInv, ReserveRow PROVE BooksInv'
  <1>0. PICK e : e = Head(resv.todo)
      OBVIOUS
  <1>1. /\ resv # None /\ resv \in ResvRecords /\ inited /\ e \in Experts
        /\ resv.todo \in Seq(Experts) /\ Tail(resv.todo) \in Seq(Experts)
        /\ resv.reads \in Seq(Reads) /\ resv.todo # <<>>
    <2>1. resv # None /\ resv.todo # <<>>
        BY DEF ReserveRow
    <2>2. resv \in ResvRecords /\ inited
        BY <2>1 DEF BooksInv, LifeTypes, LifeInv
    <2>3. resv.todo \in Seq(Experts) /\ resv.reads \in Seq(Reads)
        BY <2>2 DEF ResvRecords
    <2> QED  BY <1>0, <2>1, <2>2, <2>3, SeqTail
  <1>2. /\ e2r[e] = None /\ pending[e] = None
        /\ UNCHANGED <<mode, inited, sub, ids, jobs, inflight, demand, real>>
      BY <1>0 DEF ReserveRow, acct
  <1>3. PICK r \in Rows :
           /\ Take(e, r)
           /\ \/ /\ free[r] > 0 /\ free' = [free EXCEPT ![r] = @ - 1]
                 /\ e2r' = e2r /\ table' = table
              \/ \E v \in Experts :
                    /\ e2r[v] = r
                    /\ e2r' = [e2r EXCEPT ![v] = None] /\ table' = [table EXCEPT ![v] = None]
                    /\ free' = free
    <2>1. CASE \E r \in FreeRows : /\ Take(e, r)
                                   /\ free' = [free EXCEPT ![r] = @ - 1]
                                   /\ UNCHANGED <<e2r, table>>
        BY <2>1 DEF FreeRows
    <2>2. CASE \E v \in Victims : /\ Take(e, e2r[v])
                                  /\ e2r' = [e2r EXCEPT ![v] = None]
                                  /\ table' = [table EXCEPT ![v] = None]
                                  /\ free' = free
      <3>1. PICK v \in Victims : /\ Take(e, e2r[v])
                                  /\ e2r' = [e2r EXCEPT ![v] = None]
                                  /\ table' = [table EXCEPT ![v] = None]
                                  /\ free' = free
          BY <2>2
      <3>2. v \in Experts /\ e2r[v] \in Rows
          BY DEF Victims, Evictable, BooksInv, BookTypes
      <3> QED  BY <3>1, <3>2
    <2> QED  BY <1>0, <2>1, <2>2 DEF ReserveRow
  <1>4. /\ pending' = [pending EXCEPT ![e] = r]
        /\ resv' = [resv EXCEPT !.todo = Tail(@), !.reads = Append(@, <<e, r>>)]
      BY <1>0, <1>3 DEF Take
  <1>5. /\ pending' \in [Experts -> Rows \cup {None}]
        /\ \A x \in Experts : pending'[x] = IF x = e THEN r ELSE pending[x]
      BY <1>1, <1>4 DEF BooksInv, BookTypes
  <1>6. BookTypes' /\ RowInv'
    <2>1. CASE free[r] > 0 /\ free' = [free EXCEPT ![r] = @ - 1] /\ e2r' = e2r /\ table' = table
      <3>1. \A x \in Experts : ~At(x, r)
          BY <1>1, <2>1 DEF BooksInv, RowInv
      <3>2. free[r] = 1
          BY <1>1, <3>1 DEF BooksInv, RowInv
      <3>3. free' \in [Rows -> Nat] /\ \A q \in Rows : free'[q] = IF q = r THEN 0 ELSE free[q]
          BY <2>1, <3>2 DEF BooksInv, BookTypes
      <3>4. \A x \in Experts, q \in Rows : (At(x, q))' <=> At(x, q) \/ (x = e /\ q = r)
          BY <1>2, <1>5, <2>1, Basics DEF At
      <3>5. RowInv'
        <4>1. \A x \in Experts : e2r'[x] = None \/ pending'[x] = None
            BY <1>2, <1>5, <2>1 DEF BooksInv, RowInv
        <4>2. \A q \in Rows : \A x, y \in Experts : (At(x, q))' /\ (At(y, q))' => x = y
            BY <3>1, <3>4 DEF BooksInv, RowInv
        <4>3. \A q \in Rows : free'[q] = IF \E x \in Experts : (At(x, q))' THEN 0 ELSE 1
            BY <1>1, <3>3, <3>4 DEF BooksInv, RowInv
        <4> QED  BY <1>1, <1>2, <2>1, <4>1, <4>2, <4>3 DEF BooksInv, RowInv
      <3> QED  BY <1>2, <1>5, <2>1, <3>3, <3>5 DEF BooksInv, BookTypes
    <2>2. ASSUME NEW v \in Experts, e2r[v] = r, free' = free,
                 e2r' = [e2r EXCEPT ![v] = None], table' = [table EXCEPT ![v] = None]
          PROVE  BookTypes' /\ RowInv'
      <3>1. /\ e2r' \in [Experts -> Rows \cup {None}]
            /\ \A x \in Experts : e2r'[x] = IF x = v THEN None ELSE e2r[x]
          BY <2>2 DEF BooksInv, BookTypes
      <3>2. v # e /\ pending[v] = None /\ \A x \in Experts : At(x, r) => x = v
          BY <1>2, <2>2, Basics DEF BooksInv, RowInv, At
      <3>3. \A x \in Experts, q \in Rows :
                (At(x, q))' <=> (At(x, q) /\ ~(x = v /\ q = r)) \/ (x = e /\ q = r)
          BY <1>2, <1>5, <2>2, <3>1, <3>2, Basics DEF At
      <3>4. RowInv'
        <4>1. \A x \in Experts : e2r'[x] = None \/ pending'[x] = None
            BY <1>2, <1>5, <3>1 DEF BooksInv, RowInv
        <4>2. \A q \in Rows : \A x, y \in Experts : (At(x, q))' /\ (At(y, q))' => x = y
            BY <3>2, <3>3 DEF BooksInv, RowInv
        <4>3. \A q \in Rows : (\E x \in Experts : (At(x, q))') <=> (\E x \in Experts : At(x, q))
          <5>1. At(v, r)
              BY <2>2 DEF At
          <5> QED  BY <1>1, <3>2, <3>3, <5>1
        <4>4. \A q \in Rows : free'[q] = IF \E x \in Experts : (At(x, q))' THEN 0 ELSE 1
            BY <1>1, <2>2, <4>3 DEF BooksInv, RowInv
        <4>5. table' = e2r'
            BY <2>2 DEF BooksInv, RowInv
        <4> QED  BY <1>1, <1>2, <4>1, <4>2, <4>4, <4>5 DEF RowInv
      <3> QED  BY <1>2, <1>5, <2>2, <3>1, <3>4 DEF BooksInv, BookTypes
    <2> QED  BY <1>3, <2>1, <2>2
  <1>7. <<e, r>> \in Reads
      BY <1>1 DEF Reads
  <1>8. /\ resv' \in ResvRecords /\ resv'.sub = resv.sub /\ resv'.reads = Append(resv.reads, <<e, r>>)
        /\ Append(resv.reads, <<e, r>>) \in Seq(Reads)
        /\ Elements(Append(resv.reads, <<e, r>>)) = Elements(resv.reads) \cup {<<e, r>>}
        /\ Injective(resv.reads) /\ <<e, r>> \notin Elements(resv.reads)
             => Injective(Append(resv.reads, <<e, r>>))
    <2>1. /\ Append(resv.reads, <<e, r>>) \in Seq(Reads)
          /\ Elements(Append(resv.reads, <<e, r>>)) = Elements(resv.reads) \cup {<<e, r>>}
          /\ Injective(resv.reads) /\ <<e, r>> \notin Elements(resv.reads)
               => Injective(Append(resv.reads, <<e, r>>))
        BY <1>1, <1>7, SeqAppend
    <2> QED  BY <1>1, <1>4, <2>1 DEF ResvRecords
  <1>9. \A p \in Reads : Owned(p) => (Owned(p))' /\ p # <<e, r>>
      BY <1>1, <1>2, <1>4, StillOwned DEF BooksInv, BookTypes
  <1>10. \A s \in Subs : \A j \in jobs[s] : \A p \in Placements(j) : p \in Reads /\ Owned(p)
      BY PlacementsOK DEF BooksInv, LifeTypes, JobPlaces
  <1>11. \A p \in Elements(resv.reads) : p \in Reads /\ Owned(p)
    <2>1. Elements(resv.reads) \subseteq Reads
        BY <1>1, SeqElements
    <2> QED  BY <1>1, <2>1 DEF BooksInv, ResvPlaces
  <1>12. JobPlaces'
      BY <1>2, <1>9, <1>10 DEF BooksInv, JobPlaces
  <1>13. ResvPlaces'
    <2>1. (Owned(<<e, r>>))'
        BY <1>1, <1>5 DEF Owned
    <2>2. <<e, r>> \notin Elements(resv.reads)
        BY <1>9, <1>11
    <2>3. Injective(resv'.reads)
        BY <1>1, <1>8, <2>2 DEF BooksInv, ResvPlaces
    <2>4. ASSUME NEW p \in Elements(resv'.reads)
          PROVE  (Owned(p))' /\ \A s \in Subs : \A j \in jobs'[s] : p \notin Placements(j)
      <3>1. CASE p = <<e, r>>
          BY <1>2, <1>9, <1>10, <2>1, <3>1
      <3>2. CASE p \in Elements(resv.reads)
          BY <1>1, <1>2, <1>9, <1>11, <3>2 DEF BooksInv, ResvPlaces
      <3> QED  BY <1>8, <2>4, <3>1, <3>2
    <2> QED  BY <2>3, <2>4 DEF ResvPlaces
  <1>14. LifeTypes'
      BY <1>2, <1>8 DEF BooksInv, LifeTypes
  <1>15. LifeInv'
      BY <1>1, <1>2, <1>8, LifeStays
  <1> QED  BY <1>6, <1>12, <1>13, <1>14, <1>15 DEF BooksInv

\* A candidate is passed over.
LEMMA ReserveSkipStep == ASSUME BooksInv, ReserveSkip PROVE BooksInv'
  <1>1. /\ resv # None /\ resv.todo # <<>>
        /\ resv' = [resv EXCEPT !.todo = Tail(@)]
        /\ UNCHANGED <<mode, books, sub, ids, jobs, inflight, demand, real>>
      BY DEF ReserveSkip, acct
  <1>2. resv \in ResvRecords
      BY <1>1 DEF BooksInv, LifeTypes
  <1>3. Tail(resv.todo) \in Seq(Experts)
    <2>1. resv.todo \in Seq(Experts)
        BY <1>2 DEF ResvRecords
    <2> QED  BY <1>1, <2>1, SeqTail
  <1>4. resv' \in ResvRecords /\ resv'.sub = resv.sub /\ resv'.reads = resv.reads
      BY <1>1, <1>2, <1>3 DEF ResvRecords
  <1>5. BookTypes' /\ RowInv' /\ LifeTypes'
      BY <1>1, <1>4 DEF BooksInv, BookTypes, RowInv, At, LifeTypes, books
  <1>6. JobPlaces' /\ ResvPlaces'
    <2>1. JobPlaces'
        BY <1>1, PlacesSame DEF BooksInv, books
    <2>2. \A p : (Owned(p))' <=> Owned(p)
        BY <1>1 DEF Owned, books
    <2> QED  BY <1>1, <1>4, <2>1, <2>2 DEF BooksInv, ResvPlaces
  <1>7. LifeInv'
      BY <1>1, <1>4, LifeStays DEF books
  <1> QED  BY <1>5, <1>6, <1>7 DEF BooksInv

\* The callback's reads become jobs, which hold what the reservation held.
LEMMA ReserveEndStep == ASSUME BooksInv, ReserveEnd PROVE BooksInv'
  <1> DEFINE s == resv.sub
             reads == resv.reads
  <1>1. /\ resv # None /\ resv' = None
        /\ jobs' = [jobs EXCEPT ![s] = JobsOf(s, reads)]
        /\ IF reads = <<>> THEN Account(s)
           ELSE sub' = [sub EXCEPT ![s] = "reading"] /\ inflight' = inflight
        /\ UNCHANGED <<mode, books, ids, demand, real>>
      BY DEF ReserveEnd
  <1>2. /\ s \in Subs /\ reads \in Seq(Reads) /\ sub[s] = "submitted" /\ s \in Running /\ jobs[s] = {}
        /\ inited
    <2>1. resv \in ResvRecords
        BY <1>1 DEF BooksInv, LifeTypes
    <2>2. s \in Subs /\ reads \in Seq(Reads)
        BY <2>1 DEF ResvRecords
    <2>3. sub[s] = "submitted" /\ inited
        BY <1>1 DEF BooksInv, LifeInv
    <2> QED  BY <2>2, <2>3 DEF BooksInv, LifeInv, Running
  <1>3. /\ Injective(reads)
        /\ \A p \in Elements(reads) :
              Owned(p) /\ \A t \in Subs : \A j \in jobs[t] : p \notin Placements(j)
      BY <1>1 DEF BooksInv, ResvPlaces
  <1> HIDE DEF s, reads
  <1>4. \A j \in JobsOf(s, reads) :
              /\ j \in JobRecords /\ Injective(j.todo) /\ ~j.writing
              /\ Placements(j) \subseteq Elements(reads)
              /\ \A k \in JobsOf(s, reads) : Placements(j) \cap Placements(k) # {} => j = k
    <2>1. CASE reads = <<>>
        BY <2>1 DEF JobsOf
    <2>2. CASE reads # <<>>
        BY <1>2, <1>3, <2>2, JobsOfOK
    <2> QED  BY <2>1, <2>2
  <1>5. /\ jobs' \in [Subs -> SUBSET JobRecords]
        /\ \A t \in Subs : jobs'[t] = IF t = s THEN JobsOf(s, reads) ELSE jobs[t]
    <2>1. JobsOf(s, reads) \in SUBSET JobRecords
        BY <1>4
    <2> QED  BY <1>1, <1>2, <2>1 DEF BooksInv, LifeTypes
  <1>6. \A p : (Owned(p))' <=> Owned(p)
      BY <1>1 DEF Owned, books
  <1>7. JobPlaces'
    <2>1. ASSUME NEW t \in Subs, NEW j \in jobs'[t]
          PROVE  /\ Injective(j.todo)
                 /\ j.writing => j.todo # <<>>
                 /\ \A p \in Placements(j) : (Owned(p))'
      <3>1. CASE t = s
          BY <1>3, <1>4, <1>5, <1>6, <2>1, <3>1
      <3>2. CASE t # s
          BY <1>5, <1>6, <2>1, <3>2 DEF BooksInv, JobPlaces
      <3> QED  BY <3>1, <3>2
    <2>2. ASSUME NEW t \in Subs, NEW u \in Subs, NEW j \in jobs'[t], NEW k \in jobs'[u],
                 Placements(j) \cap Placements(k) # {}
          PROVE  t = u /\ j = k
      <3>1. CASE t = s /\ u = s
          BY <1>4, <1>5, <2>2, <3>1
      <3>2. CASE t = s /\ u # s
          BY <1>3, <1>4, <1>5, <2>2, <3>2
      <3>3. CASE t # s /\ u = s
          BY <1>3, <1>4, <1>5, <2>2, <3>3
      <3>4. CASE t # s /\ u # s
          BY <1>5, <2>2, <3>4 DEF BooksInv, JobPlaces
      <3> QED  BY <3>1, <3>2, <3>3, <3>4
    <2> QED  BY <2>1, <2>2 DEF JobPlaces
  <1>8. BookTypes' /\ RowInv' /\ ResvPlaces'
      BY <1>1 DEF BooksInv, BookTypes, RowInv, At, ResvPlaces, books
  <1>9. /\ sub' \in [Subs -> {"idle", "submitted", "reading", "done"}]
        /\ inflight' = Cardinality(Running')
        /\ \A t \in Subs : sub'[t] = IF t = s THEN (IF reads = <<>> THEN "done" ELSE "reading") ELSE sub[t]
    <2>1. CASE reads = <<>>
        BY <1>1, <1>2, <2>1, AccountOK DEF BooksInv
    <2>2. CASE reads # <<>>
      <3>1. /\ sub' \in [Subs -> {"idle", "submitted", "reading", "done"}]
            /\ \A t \in Subs : sub'[t] = IF t = s THEN "reading" ELSE sub[t]
          BY <1>1, <2>2 DEF BooksInv, LifeTypes
      <3>2. Running' = Running
          BY <1>2, <3>1 DEF Running
      <3> QED  BY <1>1, <2>2, <3>1, <3>2 DEF BooksInv, LifeInv
    <2> QED  BY <2>1, <2>2
  <1>10. LifeTypes'
      BY <1>1, <1>5, <1>9 DEF BooksInv, LifeTypes
  <1>11. LifeInv'
    <2>1. reads = <<>> => JobsOf(s, reads) = {}
        BY DEF JobsOf
    <2>2. \A t \in Subs : jobs'[t] # {} => sub'[t] = "reading"
        BY <1>5, <1>9, <2>1 DEF BooksInv, LifeInv
    <2> QED  BY <1>1, <1>9, <2>2 DEF LifeInv
  <1> QED  BY <1>7, <1>8, <1>10, <1>11 DEF BooksInv

\* A job that gives back the placements in D, or nothing, and goes on as k.
LEMMA JobGivesBack ==
    ASSUME BooksInv, NEW s \in Subs, NEW j \in jobs[s], NEW k \in JobRecords, SetJob(s, j, k),
           NEW D \in SUBSET Placements(j), GiveBack(D, D),
           Injective(k.todo), ~k.writing,
           Placements(k) \subseteq Placements(j) \ D,
           UNCHANGED <<mode, e2r, inited, table, sub, ids, inflight, resv, demand, real>>
    PROVE  BooksInv' /\ \A e \in Experts : pending'[e] = pending[e] \/ \E p \in D : p[1] = e
  <1>1. j \in JobRecords
      BY DEF BooksInv, LifeTypes
  <1>2. D \in SUBSET Reads /\ \A p \in D : Owned(p)
      BY <1>1, PlacementsOK DEF BooksInv, JobPlaces
  <1>3. /\ BookTypes' /\ RowInv'
        /\ \A e \in Experts : pending'[e] = IF \E p \in D : p[1] = e THEN None ELSE pending[e]
      BY <1>2, GiveBackOK DEF BooksInv
  <1>4. \A e \in Experts : pending'[e] = pending[e]
                              \/ \E p \in Placements(j) \ Placements(k) : p[1] = e
    <2>1. D \subseteq Placements(j) \ Placements(k)
        OBVIOUS
    <2> QED  BY <1>3, <2>1
  <1>5. /\ jobs' \in [Subs -> SUBSET JobRecords] /\ JobPlaces' /\ ResvPlaces'
        /\ \A t \in Subs : jobs'[t] # {} => jobs[t] # {}
      BY <1>4, JobMoves DEF BooksInv
  <1>6. LifeTypes'
      BY <1>5 DEF BooksInv, LifeTypes
  <1>7. LifeInv'
      BY <1>5, LifeStays
  <1> QED  BY <1>3, <1>5, <1>6, <1>7 DEF BooksInv

\* A job that stops holds nothing more.
LEMMA StopForm ==
    ASSUME NEW j \in JobRecords
    PROVE  /\ Stop(j) \in JobRecords /\ Stop(j).todo = <<>> /\ ~Stop(j).writing
           /\ Placements(Stop(j)) = {} /\ Injective(Stop(j).todo)
  <1>1. <<>> \in Seq(Reads)
      OBVIOUS
  <1>2. /\ Stop(j) \in JobRecords /\ Stop(j).todo = <<>> /\ ~Stop(j).writing
      BY <1>1 DEF Stop, JobRecords
  <1> QED  BY <1>2, PlacementsOK, SeqEmpty

\* A job that is done with a row holds the others.
LEMMA StepForm ==
    ASSUME NEW j \in JobRecords, Injective(j.todo), j.todo # <<>>
    PROVE  /\ Step(j) \in JobRecords /\ ~Step(j).writing /\ Injective(Step(j).todo)
           /\ Placements(Step(j)) = Placements(j) \ {Head(j.todo)}
           /\ Head(j.todo) \in Placements(j) /\ Head(j.todo) \in Reads
  <1>1. j.todo \in Seq(Reads)
      BY DEF JobRecords
  <1>2. /\ Tail(j.todo) \in Seq(Reads) /\ Injective(Tail(j.todo)) /\ Head(j.todo) \in Reads
        /\ Elements(j.todo) = Elements(Tail(j.todo)) \cup {Head(j.todo)}
        /\ Head(j.todo) \notin Elements(Tail(j.todo))
      BY <1>1, SeqTail
  <1>3. Step(j) \in JobRecords /\ ~Step(j).writing /\ Step(j).todo = Tail(j.todo)
      BY <1>2 DEF Step, JobRecords
  <1> QED  BY <1>2, <1>3, PlacementsOK

\* What the invariant says of one job.
LEMMA JobOK ==
    ASSUME BooksInv, NEW s \in Subs, NEW j \in jobs[s]
    PROVE  /\ j \in JobRecords /\ Injective(j.todo)
           /\ j.writing => j.todo # <<>>
           /\ Placements(j) \subseteq Reads /\ \A p \in Placements(j) : Owned(p)
  <1>1. j \in JobRecords
      BY DEF BooksInv, LifeTypes
  <1> QED  BY <1>1, PlacementsOK DEF BooksInv, JobPlaces

\* A stale job releases what it has not read.
LEMMA CancelStep == ASSUME BooksInv, NEW s \in Subs, NEW j \in jobs[s], Cancel(s, j) PROVE BooksInv'
  <1>1. {p \in Placements(j) : Owned(p)} = Placements(j)
      BY JobOK
  <1>2. /\ GiveBack(Placements(j), Placements(j)) /\ SetJob(s, j, Stop(j))
        /\ UNCHANGED <<mode, e2r, inited, table, sub, ids, inflight, resv, demand, real>>
      BY <1>1 DEF Cancel, acct
  <1>3. /\ Stop(j) \in JobRecords /\ ~Stop(j).writing
        /\ Placements(Stop(j)) = {} /\ Injective(Stop(j).todo)
      BY JobOK, StopForm
  <1> QED  BY <1>2, <1>3, JobGivesBack

\* A job that cannot open its file releases everything, and everything is its own.
LEMMA OpenFailsStep == ASSUME BooksInv, NEW s \in Subs, NEW j \in jobs[s], OpenFails(s, j) PROVE BooksInv'
  <1>1. /\ GiveBack(Placements(j), Placements(j)) /\ SetJob(s, j, Stop(j))
        /\ UNCHANGED <<mode, e2r, inited, table, sub, ids, inflight, resv, demand, real>>
      BY DEF OpenFails, acct
  <1>2. /\ Stop(j) \in JobRecords /\ ~Stop(j).writing
        /\ Placements(Stop(j)) = {} /\ Injective(Stop(j).todo)
      BY JobOK, StopForm
  <1> QED  BY <1>1, <1>2, JobGivesBack

\* A short read releases the one row.
LEMMA ShortReadStep == ASSUME BooksInv, NEW s \in Subs, NEW j \in jobs[s], ShortRead(s, j) PROVE BooksInv'
  <1>1. /\ GiveBack({Head(j.todo)}, {Head(j.todo)}) /\ SetJob(s, j, Step(j)) /\ j.todo # <<>>
        /\ UNCHANGED <<mode, e2r, inited, table, sub, ids, inflight, resv, demand, real>>
      BY JobOK DEF ShortRead, acct
  <1>2. {Head(j.todo)} \in SUBSET Placements(j) /\ Step(j) \in JobRecords /\ ~Step(j).writing
        /\ Injective(Step(j).todo) /\ Placements(Step(j)) \subseteq Placements(j) \ {Head(j.todo)}
      BY <1>1, JobOK, StepForm
  <1> QED  BY <1>1, <1>2, JobGivesBack

\* A read begins: the books do not change.
LEMMA WriteBeginStep == ASSUME BooksInv, NEW s \in Subs, NEW j \in jobs[s], WriteBegin(s, j) PROVE BooksInv'
  <1> DEFINE k == [j EXCEPT !.writing = TRUE, !.fresh = FALSE]
  <1>1. /\ SetJob(s, j, k) /\ j.todo # <<>>
        /\ UNCHANGED <<mode, books, sub, ids, inflight, resv, demand, real>>
      BY DEF WriteBegin, acct
  <1>2. k \in JobRecords /\ k.todo = j.todo /\ Injective(j.todo)
    <2>1. j \in JobRecords /\ Injective(j.todo)
        BY JobOK
    <2> QED  BY <2>1 DEF JobRecords
  <1>3. Placements(k) = Placements(j)
      BY <1>2 DEF Placements
  <1> HIDE DEF k
  <1>4. /\ jobs' \in [Subs -> SUBSET JobRecords] /\ JobPlaces' /\ ResvPlaces'
        /\ \A t \in Subs : jobs'[t] # {} => jobs[t] # {}
    <2>1. pending' = pending
        BY <1>1 DEF books
    <2>2. k.writing => k.todo # <<>>
        BY <1>1, <1>2
    <2> QED  BY <1>1, <1>2, <1>3, <2>1, <2>2, JobMoves DEF BooksInv
  <1>5. BookTypes' /\ RowInv' /\ LifeTypes'
      BY <1>1, <1>4 DEF BooksInv, BookTypes, RowInv, At, LifeTypes, books
  <1>6. LifeInv'
      BY <1>1, <1>4, LifeStays DEF books
  <1> QED  BY <1>4, <1>5, <1>6 DEF BooksInv

\* What WriteEnd does to the books: its reservation stands, so the row is
\* published.
LEMMA WriteEndEffect ==
    ASSUME BooksInv, NEW s \in Subs, NEW j \in jobs[s], WriteEnd(s, j), NEW p, p = Head(j.todo)
    PROVE  /\ p \in Reads /\ p \in Placements(j) /\ Owned(p) /\ j.todo # <<>>
           /\ bytes' = [bytes EXCEPT ![p[2]] = p[1]]
           /\ GiveBack({p}, {}) /\ SetJob(s, j, Step(j))
           /\ e2r' = [e2r EXCEPT ![p[1]] = p[2]] /\ table' = [table EXCEPT ![p[1]] = p[2]]
           /\ UNCHANGED <<mode, inited, lease, sub, ids, inflight, resv, demand, real>>
  <1>1. p \in Reads /\ p \in Placements(j) /\ Owned(p) /\ j.todo # <<>>
      BY JobOK, StepForm DEF WriteEnd
  <1> QED  BY <1>1 DEF WriteEnd, acct

\* A read ends.
LEMMA WriteEndStep == ASSUME BooksInv, NEW s \in Subs, NEW j \in jobs[s], WriteEnd(s, j) PROVE BooksInv'
  <1>0. PICK p : p = Head(j.todo)
      OBVIOUS
  <1>1. /\ p \in Reads /\ p \in Placements(j) /\ Owned(p) /\ j.todo # <<>>
        /\ GiveBack({p}, {}) /\ SetJob(s, j, Step(j))
        /\ e2r' = [e2r EXCEPT ![p[1]] = p[2]] /\ table' = [table EXCEPT ![p[1]] = p[2]]
        /\ UNCHANGED <<mode, inited, sub, ids, inflight, resv, demand, real>>
      BY <1>0, WriteEndEffect
  <1>2. /\ BookTypes' /\ RowInv'
        /\ \A e \in Experts : pending'[e] = IF e = p[1] THEN None ELSE pending[e]
      BY <1>1, PublishOK DEF BooksInv
  <1>3. /\ Step(j) \in JobRecords /\ ~Step(j).writing /\ Injective(Step(j).todo)
        /\ Placements(Step(j)) = Placements(j) \ {p}
      BY <1>0, <1>1, JobOK, StepForm
  <1>4. /\ jobs' \in [Subs -> SUBSET JobRecords] /\ JobPlaces' /\ ResvPlaces'
        /\ \A t \in Subs : jobs'[t] # {} => jobs[t] # {}
      BY <1>1, <1>2, <1>3, JobMoves DEF BooksInv
  <1>5. LifeTypes'
      BY <1>1, <1>4 DEF BooksInv, LifeTypes
  <1>6. LifeInv'
      BY <1>1, <1>4, LifeStays
  <1> QED  BY <1>2, <1>4, <1>5, <1>6 DEF BooksInv

\* A job returns; the last one of its submission counts it out.
LEMMA JobEndStep == ASSUME BooksInv, NEW s \in Subs, NEW j \in jobs[s], JobEnd(s, j) PROVE BooksInv'
  <1>1. /\ jobs' = [jobs EXCEPT ![s] = @ \ {j}]
        /\ IF jobs'[s] = {} THEN Account(s) ELSE UNCHANGED <<sub, inflight, target>>
        /\ UNCHANGED <<mode, books, ids, resv, demand, real>>
      BY DEF JobEnd
  <1>2. /\ jobs' \in [Subs -> SUBSET JobRecords]
        /\ \A t \in Subs : jobs'[t] = IF t = s THEN jobs[s] \ {j} ELSE jobs[t]
      BY <1>1 DEF BooksInv, LifeTypes
  <1>3. \A p : (Owned(p))' <=> Owned(p)
      BY <1>1 DEF Owned, books
  <1>4. \A t \in Subs : jobs'[t] \subseteq jobs[t]
      BY <1>2
  <1>5. JobPlaces' /\ ResvPlaces'
      BY <1>1, <1>3, <1>4 DEF BooksInv, JobPlaces, ResvPlaces
  <1>6. BookTypes' /\ RowInv'
      BY <1>1 DEF BooksInv, BookTypes, RowInv, At, books
  <1>7. sub[s] = "reading" /\ s \in Running
      BY DEF BooksInv, LifeInv, Running
  <1>8. /\ sub' \in [Subs -> {"idle", "submitted", "reading", "done"}]
        /\ inflight' = Cardinality(Running')
        /\ \A t \in Subs : t # s => sub'[t] = sub[t]
        /\ jobs'[s] # {} => sub'[s] = sub[s]
    <2>1. CASE jobs'[s] = {}
        BY <1>1, <1>7, <2>1, AccountOK DEF BooksInv
    <2>2. CASE jobs'[s] # {}
        BY <1>1, <2>2 DEF BooksInv, LifeTypes, LifeInv, Running
    <2> QED  BY <2>1, <2>2
  <1>9. LifeTypes'
      BY <1>1, <1>2, <1>8 DEF BooksInv, LifeTypes
  <1>10. LifeInv'
    <2>1. \A t \in Subs : jobs'[t] # {} => sub'[t] = "reading"
        BY <1>2, <1>4, <1>7, <1>8 DEF BooksInv, LifeInv
    <2>2. resv # None => resv.sub \in Subs /\ sub[resv.sub] = "submitted" /\ inited
        BY DEF BooksInv, LifeTypes, ResvRecords, LifeInv
    <2>3. resv' # None => sub'[resv'.sub] = "submitted" /\ inited'
        BY <1>1, <1>7, <1>8, <2>2 DEF books
    <2> QED  BY <1>8, <2>1, <2>3 DEF LifeInv
  <1> QED  BY <1>5, <1>6, <1>9, <1>10 DEF BooksInv

\* sideregion_reset after a drain: no job is left whose row it would take.
LEMMA ResetStep == ASSUME BooksInv, ResetsDrain, Reset PROVE BooksInv'
  <1>1. /\ inflight = 0 /\ resv = None
        /\ e2r' = NoMap /\ pending' = NoMap /\ table' = NoMap
        /\ free' = [r \in Rows |-> 0] /\ inited' = FALSE
        /\ UNCHANGED <<mode, sub, ids, jobs, inflight, resv, demand, real>>
      BY DEF Reset, LockFree, acct, ResetsDrain, BooksInv, LifeTypes
  <1>2. \A s \in Subs : jobs[s] = {}
    <2>1. Running = {}
        BY <1>1, RunningFinite, FS_EmptySet DEF BooksInv, LifeInv
    <2> QED  BY <2>1 DEF BooksInv, LifeInv, Running
  <1>3. BookTypes' /\ RowInv'
      BY <1>1, Basics DEF BookTypes, RowInv, At, NoMap
  <1>4. LifeTypes'
      BY <1>1 DEF BooksInv, LifeTypes
  <1>5. JobPlaces' /\ ResvPlaces'
      BY <1>1, <1>2 DEF JobPlaces, ResvPlaces
  <1>6. LifeInv'
      BY <1>1 DEF BooksInv, LifeInv, Running
  <1> QED  BY <1>3, <1>4, <1>5, <1>6 DEF BooksInv

\* The demand record, field by field.
LEMMA DemandSetters ==
    ASSUME NEW d \in DemandRecords, NEW st \in {"open", "remapped", "waiting", "joined", "settled", "serving", "over"},
           NEW local \in [Experts -> Rows \cup {None, Real}], NEW R \in SUBSET Experts
    PROVE  /\ [d EXCEPT !.st = st, !.local = local] \in DemandRecords
           /\ [d EXCEPT !.st = st, !.local = local, !.route = R] \in DemandRecords
           /\ [d EXCEPT !.st = st, !.route = R, !.local = local] \in DemandRecords
  BY DEF DemandRecords

\* The handler goes on.
LEMMA DemandMoves ==
    ASSUME NEW d \in DemandRecords, NEW st \in {"open", "remapped", "waiting", "joined", "settled", "serving", "over"}
    PROVE  [d EXCEPT !.st = st] \in DemandRecords
  BY DEF DemandRecords

\* The target's demand reads the books and takes leases.
LEMMA DemandStep ==
    ASSUME BooksInv, (\E R \in Routes : Remap(R)) \/ HandlerStep \/ Retire
    PROVE  BooksInv'
  <1>0. /\ demand \in DemandRecords /\ real \subseteq Experts
        /\ e2r \in [Experts -> Rows \cup {None}] /\ table = e2r
      BY DEF BooksInv, LifeTypes, BookTypes, RowInv
  <1>1. ASSUME NEW R \in Routes, Remap(R) PROVE BooksInv'
    <2>1. R \in SUBSET Experts
        BY SideAssumption DEF SideAssumption
    <2>2. [e \in Experts |-> IF e \notin R THEN None
                             ELSE IF table[e] # None THEN table[e]
                             ELSE IF e \in real THEN Real ELSE None] \in [Experts -> Rows \cup {None, Real}]
        BY <1>0
    <2>3. demand' \in DemandRecords
        BY <1>0, <1>1, <2>1, <2>2, DemandSetters DEF Remap
    <2> QED  BY <1>0, <1>1, <2>3, BooksSame DEF Remap, acct
  <1>2. CASE HandlerStart
    <2>1. demand' \in DemandRecords
        BY <1>0, <1>2, DemandMoves DEF HandlerStart
    <2>2. UNCHANGED <<books, sub, ids, jobs, inflight, resv>> /\ mode' = mode /\ real' = real
        BY <1>2 DEF HandlerStart, acct
    <2> QED  BY <1>0, <2>1, <2>2, BooksSame
  <1>3. CASE Join
    <2>1. demand' \in DemandRecords
        BY <1>0, <1>3, DemandMoves DEF Join
    <2>2. UNCHANGED <<books, sub, ids, jobs, inflight, resv>> /\ mode' = mode /\ real' = real
        BY <1>3 DEF Join, acct
    <2> QED  BY <1>0, <2>1, <2>2, BooksSame
  <1>4. CASE Lookup
    <2> DEFINE row == [e \in Experts |-> IF e \in demand.route /\ e2r[e] # None
                                          THEN e2r[e] ELSE demand.local[e]]
               miss == {e \in demand.route : row[e] = None}
    <2>1. demand.route \subseteq Experts /\ demand.local \in [Experts -> Rows \cup {None, Real}]
        BY <1>0 DEF DemandRecords
    <2>2. row \in [Experts -> Rows \cup {None, Real}] /\ miss \subseteq Experts
        BY <1>0, <2>1
    <2>3. [e \in Experts |-> IF e \in miss THEN Real ELSE row[e]] \in [Experts -> Rows \cup {None, Real}]
        BY <2>2
    <2>4. demand' = [demand EXCEPT !.st = "settled",
                           !.local = [e \in Experts |-> IF e \in miss THEN Real ELSE row[e]]]
        BY <1>4 DEF Lookup
    <2>5. demand' \in DemandRecords
      <3> HIDE DEF row, miss
      <3> QED  BY <1>0, <2>1, <2>3, <2>4, DemandSetters
    <2>6. real' \subseteq Experts
      <3>1. \E gone \in SUBSET (real \ demand.route) : real' = (real \ gone) \cup miss
          BY <1>4 DEF Lookup
      <3> HIDE DEF miss
      <3> QED  BY <1>0, <2>2, <3>1
    <2>7. UNCHANGED <<books, sub, ids, jobs, inflight, resv>> /\ mode' = mode
        BY <1>4 DEF Lookup, acct
    <2> QED  BY <2>5, <2>6, <2>7, BooksSame
  <1>5. CASE Answer
    <2>1. demand' \in DemandRecords
        BY <1>0, <1>5, DemandMoves DEF Answer
    <2>2. UNCHANGED <<books, sub, ids, jobs, inflight, resv>> /\ mode' = mode /\ real' = real
        BY <1>5 DEF Answer, acct
    <2> QED  BY <1>0, <2>1, <2>2, BooksSame
  <1>6. CASE Retire
    <2>1. NoMap \in [Experts -> Rows \cup {None, Real}]
        BY DEF NoMap
    <2>2. demand' \in DemandRecords
      <3>1. CASE demand.fwd < NF
        <4>1. demand.fwd + 1 \in Forwards
            BY <1>0, <3>1, Basics DEF DemandRecords, Forwards
        <4> QED  BY <1>6, <2>1, <3>1, <4>1 DEF Retire, DemandRecords
      <3>2. CASE ~(demand.fwd < NF)
        <4>1. demand' = [demand EXCEPT !.st = "over", !.local = NoMap, !.route = {}]
            BY <1>6, <3>2 DEF Retire
        <4>2. {} \in SUBSET Experts
            OBVIOUS
        <4> QED  BY <1>0, <2>1, <4>1, <4>2, DemandSetters
      <3> QED  BY <3>1, <3>2
    <2>3. UNCHANGED <<books, sub, ids, jobs, inflight, resv>> /\ mode' = mode /\ real' = real
        BY <1>6 DEF Retire, acct
    <2> QED  BY <1>0, <2>2, <2>3, BooksSame
  <1> QED  BY <1>1, <1>2, <1>3, <1>4, <1>5, <1>6 DEF HandlerStep

\* Every step keeps the books.
LEMMA BooksStep == ASSUME BooksInv, ResetsDrain, [Next]_vars PROVE BooksInv'
  <1>1. CASE UNCHANGED vars
      BY <1>1, BooksSame DEF vars, books, acct, BooksInv, LifeTypes
  <1>2. ASSUME NEW f \in Forwards, NEW seq \in EarlyIds[f], Submit(<<f, "early">>, seq) PROVE BooksInv'
    <2>1. seq \in Seq(Experts) /\ <<f, "early">> \in Subs
        BY SideAssumption DEF SideAssumption, Forwards, Subs
    <2> QED  BY <1>2, <2>1, SubmitStep
  <1>3. ASSUME NEW f \in Forwards, NEW seq \in TailIds[f], Submit(<<f, "tail">>, seq) PROVE BooksInv'
    <2>1. seq \in Seq(Experts) /\ <<f, "tail">> \in Subs
        BY SideAssumption DEF SideAssumption, Forwards, Subs
    <2> QED  BY <1>3, <2>1, SubmitStep
  <1>4. CASE CallbackStep
      BY <1>4, ReserveBeginStep, ReserveRowStep, ReserveSkipStep, ReserveEndStep DEF CallbackStep
  <1>5. CASE ReaderStep
      BY <1>5, CancelStep, OpenFailsStep, WriteBeginStep, WriteEndStep, ShortReadStep, JobEndStep
         DEF ReaderStep
  <1>6. CASE HandlerStep \/ (\E R \in Routes : Remap(R)) \/ Retire
      BY <1>6, DemandStep
  <1>7. CASE Reset
      BY <1>7, ResetStep
  <1> QED  BY <1>1, <1>2, <1>3, <1>4, <1>5, <1>6, <1>7 DEF Next

-----------------------------------------------------------------------------
\* The books of the side region stay right however callbacks, readers and
\* demands interleave and whatever reads fail, for any number of rows, experts,
\* submissions and jobs: no row has two experts, is free twice or is lost, as
\* long as the region is drained before it is reset.
THEOREM BooksBalance == ASSUME ResetsDrain PROVE Spec => []RowsPartitioned
  <1>1. BooksInv => RowsPartitioned
    <2> SUFFICES ASSUME BooksInv, inited, NEW r \in Rows
                 PROVE  Cardinality({e \in Experts : e2r[e] = r})
                          + Cardinality({e \in Experts : pending[e] = r}) + free[r] = 1
        BY DEF RowsPartitioned
    <2> DEFINE A == {e \in Experts : e2r[e] = r}
               B == {e \in Experts : pending[e] = r}
    <2>1. /\ \A x, y \in A : x = y
          /\ \A x, y \in B : x = y
          /\ A = {} \/ B = {}
        BY Basics DEF BooksInv, RowInv, At
    <2>2. free[r] = IF A = {} /\ B = {} THEN 1 ELSE 0
        BY DEF BooksInv, RowInv, At
    <2> HIDE DEF A, B
    <2>3. /\ Cardinality(A) = IF A = {} THEN 0 ELSE 1
          /\ Cardinality(B) = IF B = {} THEN 0 ELSE 1
        BY <2>1, AtMostOne
    <2>4. Cardinality(A) + Cardinality(B) + free[r] = 1
        BY <2>1, <2>2, <2>3
    <2> QED  BY <2>4 DEF A, B
  <1>2. BooksInv /\ [Next]_vars => BooksInv'
      BY BooksStep
  <1> QED  BY <1>1, <1>2, BooksInit, PTL DEF Spec

-----------------------------------------------------------------------------
(* The rows that the MoE kernel reads.                                     *)

Served == demand.st \in {"remapped", "waiting", "joined", "settled", "serving"}

\* A published row holds its expert, and a row in the answer stays published:
\* it is leased, or no callback runs that could evict it.
ByteTypes == lease \in [Rows -> Nat] /\ bytes \in [Rows -> Experts \cup {None}]
BytesRight == \A e \in Experts : e2r[e] # None => bytes[e2r[e]] = e
RowsHeld ==
    Served => \A e \in demand.route : demand.local[e] \in Rows =>
                  /\ e2r[e] = demand.local[e]
                  /\ mode.leases => lease[demand.local[e]] > 0
AllFound == demand.st \in {"settled", "serving"} => \A e \in demand.route : demand.local[e] # None
StreamOrder ==
    /\ ~mode.late => \A s \in Subs : s[1] < demand.fwd \/ (s[1] = demand.fwd /\ Served) => sub[s] # "submitted"
    /\ \A s \in Subs : s[1] > demand.fwd => sub[s] = "idle"

ServedInv == ByteTypes /\ BytesRight /\ RowsHeld /\ AllFound /\ StreamOrder

\* Without leases the callbacks of a target run before its demand.
LeasesOrOrder == \A m \in Modes : m.late => m.leases

\* What the types say of the demand.
LEMMA DemandType ==
    ASSUME BooksInv
    PROVE  /\ demand \in DemandRecords /\ demand.fwd \in Nat /\ demand.fwd \in 1 .. NF
           /\ demand.route \subseteq Experts
           /\ demand.local \in [Experts -> Rows \cup {None, Real}]
           /\ mode.late \in BOOLEAN /\ mode.leases \in BOOLEAN
  <1>1. demand \in DemandRecords /\ mode \in Modes
      BY DEF BooksInv, LifeTypes
  <1>2. mode.late \in BOOLEAN /\ mode.leases \in BOOLEAN
      BY <1>1, SideAssumption DEF SideAssumption
  <1>3. demand.fwd \in 1 .. NF
      BY <1>1 DEF DemandRecords, Forwards
  <1> QED  BY <1>1, <1>2, <1>3, Basics DEF DemandRecords

\* While a demand is served, a callback that may evict finds the leases on.
LEMMA EvictorSeesLeases ==
    ASSUME BooksInv, ServedInv, LeasesOrOrder, Served, NEW s \in Subs, sub[s] = "submitted"
    PROVE  mode.leases
  <1>1. s[1] \in Nat /\ demand.fwd \in Nat
      BY DemandType, Basics DEF Subs, Forwards
  <1>2. ~(s[1] > demand.fwd)
      BY DEF ServedInv, StreamOrder
  <1>3. s[1] < demand.fwd \/ s[1] = demand.fwd
      BY <1>1, <1>2
  <1>4. mode.late
      BY <1>3 DEF ServedInv, StreamOrder
  <1> QED  BY <1>4 DEF LeasesOrOrder, BooksInv, LifeTypes

\* Nothing is published, leased or answered, and no submission begins.
LEMMA ServedSame ==
    ASSUME ServedInv, UNCHANGED <<mode, e2r, lease, bytes, demand>>,
           \A s \in Subs : /\ sub'[s] = "submitted" => sub[s] = "submitted"
                           /\ sub[s] = "idle" => sub'[s] = "idle"
    PROVE  ServedInv'
  <1>1. ByteTypes' /\ BytesRight' /\ RowsHeld' /\ AllFound'
      BY DEF ServedInv, ByteTypes, BytesRight, RowsHeld, AllFound, Served
  <1>2. StreamOrder'
      BY DEF ServedInv, StreamOrder, Served
  <1> QED  BY <1>1, <1>2 DEF ServedInv

\* Experts lose their rows, but none whose row is leased, and some rows that
\* nobody has are written.
LEMMA ServedEvict ==
    ASSUME BooksInv, ServedInv, LeasesOrOrder, UNCHANGED <<mode, lease, bytes, demand, sub>>,
           NEW s \in Subs, sub[s] = "submitted",
           \A e \in Experts : e2r'[e] = e2r[e] \/ (e2r'[e] = None /\ Evictable(e))
    PROVE  ServedInv'
  <1>1. BytesRight'
      BY DEF ServedInv, BytesRight
  <1>2. RowsHeld'
    <2> SUFFICES ASSUME Served', NEW e \in demand.route, demand.local[e] \in Rows
                 PROVE  /\ e2r'[e] = demand.local[e]
                        /\ mode.leases => lease[demand.local[e]] > 0
        BY DEF RowsHeld
    <2>1. Served
        BY DEF Served
    <2>2. e2r[e] = demand.local[e] /\ (mode.leases => lease[demand.local[e]] > 0)
        BY <2>1 DEF ServedInv, RowsHeld
    <2>3. mode.leases
        BY <2>1, EvictorSeesLeases
    <2>4. lease[e2r[e]] \in Nat /\ lease[e2r[e]] > 0
        BY <2>2, <2>3 DEF ServedInv, ByteTypes
    <2>5. ~Evictable(e)
        BY <2>4 DEF Evictable
    <2>6. e \in Experts
        BY DemandType
    <2> QED  BY <2>2, <2>5, <2>6
  <1>3. ByteTypes' /\ AllFound' /\ StreamOrder'
      BY DEF ServedInv, ByteTypes, AllFound, StreamOrder, Served
  <1> QED  BY <1>1, <1>2, <1>3 DEF ServedInv

\* Callbacks.
LEMMA CallbackServed ==
    ASSUME BooksInv, ServedInv, LeasesOrOrder, CallbackStep
    PROVE  ServedInv'
  <1>1. ASSUME NEW s \in Subs, ReserveBegin(s) PROVE ServedInv'
    <2>1. UNCHANGED <<mode, lease, bytes, demand, sub>> /\ sub[s] = "submitted"
        BY <1>1 DEF ReserveBegin
    <2>2. e2r' = [e \in Experts |-> IF e \in {x \in ids[s].resident : Evictable(x)} THEN None ELSE e2r[e]]
        BY <1>1 DEF ReserveBegin
    <2>3. \A e \in Experts : e2r'[e] = e2r[e] \/ (e2r'[e] = None /\ Evictable(e))
        BY <2>2
    <2> QED  BY <2>1, <2>3, ServedEvict
  <1>2. CASE ReserveRow
    <2>1. UNCHANGED <<mode, lease, bytes, demand, sub>>
        BY <1>2 DEF ReserveRow
    <2>2. resv.sub \in Subs /\ sub[resv.sub] = "submitted"
        BY <1>2 DEF ReserveRow, BooksInv, LifeTypes, LifeInv, ResvRecords
    <2>3. e2r' = e2r \/ \E v \in Victims : e2r' = [e2r EXCEPT ![v] = None]
        BY <1>2 DEF ReserveRow
    <2>4. \A e \in Experts : e2r'[e] = e2r[e] \/ (e2r'[e] = None /\ Evictable(e))
        BY <2>3 DEF Victims, BooksInv, BookTypes
    <2> QED  BY <2>1, <2>2, <2>4, ServedEvict
  <1>3. CASE ReserveSkip
      BY <1>3, ServedSame DEF ReserveSkip, books
  <1>4. CASE ReserveEnd
    <2>1. UNCHANGED <<mode, e2r, lease, bytes, demand>>
        BY <1>4 DEF ReserveEnd, books
    <2>2. resv.sub \in Subs /\ sub[resv.sub] = "submitted"
        BY <1>4 DEF ReserveEnd, BooksInv, LifeTypes, LifeInv, ResvRecords
    <2>3. sub' = [sub EXCEPT ![resv.sub] = "done"] \/ sub' = [sub EXCEPT ![resv.sub] = "reading"]
        BY <1>4 DEF ReserveEnd, Account
    <2>4. \A s \in Subs : /\ sub'[s] = "submitted" => sub[s] = "submitted"
                          /\ sub[s] = "idle" => sub'[s] = "idle"
        BY <2>2, <2>3 DEF BooksInv, LifeTypes
    <2> QED  BY <2>1, <2>4, ServedSame
  <1> QED  BY <1>1, <1>2, <1>3, <1>4 DEF CallbackStep

\* A row that is reserved is nobody's published row.
LEMMA ReservedUnpublished ==
    ASSUME BooksInv, NEW p \in Reads, Owned(p)
    PROVE  p[1] \in Experts /\ p[2] \in Rows /\ \A e \in Experts : e2r[e] # p[2]
  <1>1. p[1] \in Experts /\ p[2] \in Rows /\ pending[p[1]] = p[2]
      BY DEF Reads, Owned
  <1>2. ASSUME NEW e \in Experts, e2r[e] = p[2] PROVE FALSE
    <2>1. e = p[1]
        BY <1>1, <1>2 DEF BooksInv, RowInv, At
    <2> QED  BY <1>1, <1>2, <2>1, Basics DEF BooksInv, RowInv
  <1> QED  BY <1>1, <1>2

\* Readers.
LEMMA ReaderServed ==
    ASSUME BooksInv, ServedInv, NEW s \in Subs, NEW j \in jobs[s],
           Cancel(s, j) \/ OpenFails(s, j) \/ WriteBegin(s, j) \/ WriteEnd(s, j)
           \/ ShortRead(s, j) \/ JobEnd(s, j)
    PROVE  ServedInv'
  <1>1. CASE Cancel(s, j) \/ OpenFails(s, j) \/ ShortRead(s, j)
      BY <1>1, ServedSame DEF Cancel, OpenFails, ShortRead
  <1>2. CASE WriteBegin(s, j)
    <2>0. PICK p : p = Head(j.todo)
        OBVIOUS
    <2>1. p \in Reads /\ Owned(p)
        BY <1>2, <2>0, JobOK, StepForm DEF WriteBegin
    <2>2. /\ bytes' = [bytes EXCEPT ![p[2]] = None]
          /\ UNCHANGED <<mode, e2r, lease, demand, sub>>
        BY <1>2, <2>0 DEF WriteBegin, books
    <2>3. /\ bytes' \in [Rows -> Experts \cup {None}]
          /\ \A e \in Experts : e2r[e] # None => bytes'[e2r[e]] = bytes[e2r[e]]
        BY <2>1, <2>2, ReservedUnpublished DEF ServedInv, ByteTypes, BooksInv, BookTypes
    <2>4. ByteTypes' /\ BytesRight'
        BY <2>2, <2>3 DEF ServedInv, ByteTypes, BytesRight
    <2>5. RowsHeld' /\ AllFound' /\ StreamOrder'
        BY <2>2 DEF ServedInv, RowsHeld, AllFound, StreamOrder, Served
    <2> QED  BY <2>4, <2>5 DEF ServedInv
  <1>3. CASE WriteEnd(s, j)
    <2>0. PICK p : p = Head(j.todo)
        OBVIOUS
    <2>1. /\ p \in Reads /\ Owned(p)
          /\ bytes' = [bytes EXCEPT ![p[2]] = p[1]]
          /\ e2r' = [e2r EXCEPT ![p[1]] = p[2]]
          /\ UNCHANGED <<mode, lease, sub, demand>>
        BY <1>3, <2>0, WriteEndEffect
    <2>2. p[1] \in Experts /\ p[2] \in Rows /\ \A e \in Experts : e2r[e] # p[2]
        BY <2>1, ReservedUnpublished
    <2>3. /\ bytes' \in [Rows -> Experts \cup {None}]
          /\ \A r \in Rows : bytes'[r] = IF r = p[2] THEN p[1] ELSE bytes[r]
          /\ \A e \in Experts : e2r'[e] = IF e = p[1] THEN p[2] ELSE e2r[e]
        BY <2>1, <2>2 DEF ServedInv, ByteTypes, BooksInv, BookTypes
    <2>4. BytesRight'
        BY <2>2, <2>3 DEF ServedInv, BytesRight, BooksInv, BookTypes
    <2>5. e2r[p[1]] = None
        BY <2>1, <2>2, Basics DEF BooksInv, RowInv, Owned
    <2>6. RowsHeld'
      <3> SUFFICES ASSUME Served', NEW e \in demand.route, demand.local[e] \in Rows
                   PROVE  /\ e2r'[e] = demand.local[e]
                          /\ mode.leases => lease[demand.local[e]] > 0
          BY <2>1 DEF RowsHeld
      <3>1. /\ e2r[e] = demand.local[e]
            /\ mode.leases => lease[demand.local[e]] > 0
          BY <2>1 DEF ServedInv, RowsHeld, Served
      <3>2. e \in Experts /\ e # p[1]
          BY <2>5, <3>1, DemandType, Basics
      <3> QED  BY <2>3, <3>1, <3>2
    <2>7. ByteTypes' /\ AllFound' /\ StreamOrder'
        BY <2>1, <2>3 DEF ServedInv, ByteTypes, AllFound, StreamOrder, Served
    <2> QED  BY <2>4, <2>6, <2>7 DEF ServedInv
  <1>4. CASE JobEnd(s, j)
    <2>1. UNCHANGED <<mode, e2r, lease, bytes, demand>>
        BY <1>4 DEF JobEnd, books
    <2>2. sub' = sub \/ sub' = [sub EXCEPT ![s] = "done"]
        BY <1>4 DEF JobEnd, Account
    <2>3. sub[s] = "reading"
        BY DEF BooksInv, LifeInv
    <2>4. \A t \in Subs : /\ sub'[t] = "submitted" => sub[t] = "submitted"
                          /\ sub[t] = "idle" => sub'[t] = "idle"
        BY <2>2, <2>3 DEF BooksInv, LifeTypes
    <2> QED  BY <2>1, <2>4, ServedSame
  <1> QED  BY <1>1, <1>2, <1>3, <1>4

\* The remap reads the table and leases what it finds.
LEMMA RemapServed == ASSUME BooksInv, ServedInv, NEW R \in Routes, Remap(R) PROVE ServedInv'
  <1> DEFINE entry == [e \in Experts |-> IF e \notin R THEN None
                                         ELSE IF table[e] # None THEN table[e]
                                         ELSE IF e \in real THEN Real ELSE None]
  <1>1. /\ demand.st = "open"
        /\ demand' = [demand EXCEPT !.st = "remapped", !.route = R, !.local = entry]
        /\ UNCHANGED <<mode, e2r, bytes, sub>>
      BY DEF Remap, books
  <1>2. R \subseteq Experts
      BY SideAssumption DEF SideAssumption
  <1>3. lease' = [r \in Rows |-> lease[r] + IF mode.leases /\ \E e \in R : table[e] = r THEN 1 ELSE 0]
      BY DEF Remap
  <1>4. \A r \in Rows : lease[r] \in Nat /\ lease[r] + 1 > 0 /\ lease[r] + 1 \in Nat /\ lease[r] + 0 \in Nat
      BY DEF ServedInv, ByteTypes
  <1>5. /\ lease' \in [Rows -> Nat]
        /\ \A r \in Rows : mode.leases /\ (\E e \in R : table[e] = r) => lease'[r] > 0
      BY <1>3, <1>4
  <1>6. /\ demand'.st = "remapped" /\ demand'.route = R /\ demand'.local = entry
        /\ demand'.fwd = demand.fwd
      BY <1>1, DemandType DEF DemandRecords
  <1>7. table = e2r
      BY DEF BooksInv, RowInv
  <1>8. RowsHeld'
    <2> SUFFICES ASSUME NEW e \in R, entry[e] \in Rows
                 PROVE  e2r[e] = entry[e] /\ (mode.leases => lease'[entry[e]] > 0)
        BY <1>1, <1>6 DEF RowsHeld
    <2>1. entry[e] = table[e]
        BY <1>2, Basics
    <2> QED  BY <1>5, <1>7, <2>1
  <1>9. StreamOrder'
    <2>1. ASSUME ~mode.late, NEW s \in Subs, s[1] < demand.fwd \/ s[1] = demand.fwd
          PROVE  sub[s] # "submitted"
        BY <2>1 DEF Remap, ServedInv, StreamOrder
    <2>2. \A s \in Subs : s[1] > demand.fwd => sub[s] = "idle"
        BY DEF ServedInv, StreamOrder
    <2> QED  BY <1>1, <1>6, <2>1, <2>2 DEF StreamOrder
  <1>10. ByteTypes' /\ BytesRight' /\ AllFound'
      BY <1>1, <1>5, <1>6 DEF ServedInv, ByteTypes, BytesRight, AllFound
  <1> QED  BY <1>8, <1>9, <1>10 DEF ServedInv

\* The handler looks again, and finds every expert.
LEMMA LookupServed == ASSUME BooksInv, ServedInv, Lookup PROVE ServedInv'
  <1> DEFINE row == [e \in Experts |-> IF e \in demand.route /\ e2r[e] # None
                                       THEN e2r[e] ELSE demand.local[e]]
             miss == {e \in demand.route : row[e] = None}
             found == [e \in Experts |-> IF e \in miss THEN Real ELSE row[e]]
  <1>1. /\ demand.st = "joined" /\ demand' = [demand EXCEPT !.st = "settled", !.local = found]
        /\ UNCHANGED <<mode, e2r, bytes, sub>>
      BY DEF Lookup, books
  <1>2. lease' = [r \in Rows |-> lease[r] + IF mode.leases /\ \E e \in demand.route : e2r[e] = r THEN 1 ELSE 0]
      BY DEF Lookup
  <1>3. \A r \in Rows : lease[r] \in Nat /\ lease[r] + 1 > 0 /\ lease[r] + 1 \in Nat /\ lease[r] + 0 \in Nat
      BY DEF ServedInv, ByteTypes
  <1>4. /\ lease' \in [Rows -> Nat]
        /\ \A r \in Rows : mode.leases /\ (\E e \in demand.route : e2r[e] = r) => lease'[r] > 0
      BY <1>2, <1>3
  <1>5. /\ demand'.st = "settled" /\ demand'.route = demand.route /\ demand'.local = found
        /\ demand'.fwd = demand.fwd /\ demand.route \subseteq Experts
      BY <1>1, DemandType DEF DemandRecords
  <1>6. RowsHeld'
    <2> SUFFICES ASSUME NEW e \in demand.route, found[e] \in Rows
                 PROVE  e2r[e] = found[e] /\ (mode.leases => lease'[found[e]] > 0)
        BY <1>1, <1>5 DEF RowsHeld
    <2>1. e \in Experts /\ found[e] = row[e]
        BY <1>5, Basics
    <2>2. demand.local[e] \in Rows => e2r[e] = demand.local[e]
        BY <1>1 DEF ServedInv, RowsHeld, Served
    <2>3. e2r[e] = found[e]
        BY <2>1, <2>2
    <2> QED  BY <1>4, <2>3
  <1>7. AllFound'
    <2>1. \A e \in demand.route : found[e] # None
        BY <1>5, Basics
    <2> QED  BY <1>5, <2>1 DEF AllFound
  <1>8. StreamOrder'
      BY <1>1, <1>5 DEF ServedInv, StreamOrder, Served
  <1>9. ByteTypes' /\ BytesRight'
      BY <1>1, <1>4 DEF ServedInv, ByteTypes, BytesRight
  <1> QED  BY <1>6, <1>7, <1>8, <1>9 DEF ServedInv

\* The demand's other steps keep its rows, until the kernel has read them.
LEMMA HandlerServed == ASSUME BooksInv, ServedInv, HandlerStart \/ Join \/ Answer \/ Retire PROVE ServedInv'
  <1>1. CASE HandlerStart
    <2>1. /\ demand.st = "remapped" /\ UNCHANGED <<mode, e2r, lease, bytes, sub>>
          /\ demand' = [demand EXCEPT !.st = IF Missing = {} THEN "settled"
                                       ELSE IF mode.wait = "none" THEN "joined" ELSE "waiting"]
        BY <1>1 DEF HandlerStart, books
    <2>2. /\ demand'.st \in {"settled", "joined", "waiting"} /\ demand'.route = demand.route
          /\ demand'.local = demand.local /\ demand'.fwd = demand.fwd
          /\ demand'.st \in {"settled", "serving"} => Missing = {}
        BY <2>1, DemandType DEF DemandRecords
    <2>3. Served /\ Served'
        BY <2>1, <2>2 DEF Served
    <2>4. RowsHeld' /\ StreamOrder'
        BY <2>1, <2>2, <2>3 DEF ServedInv, RowsHeld, StreamOrder
    <2>5. AllFound'
        BY <2>2 DEF AllFound, Missing
    <2>6. ByteTypes' /\ BytesRight'
        BY <2>1 DEF ServedInv, ByteTypes, BytesRight
    <2> QED  BY <2>4, <2>5, <2>6 DEF ServedInv
  <1>2. CASE Join
    <2>1. /\ demand.st = "waiting" /\ UNCHANGED <<mode, e2r, lease, bytes, sub>>
          /\ demand' = [demand EXCEPT !.st = "joined"]
        BY <1>2 DEF Join, books
    <2>2. /\ demand'.st = "joined" /\ demand'.route = demand.route
          /\ demand'.local = demand.local /\ demand'.fwd = demand.fwd
        BY <2>1, DemandType DEF DemandRecords
    <2>3. Served /\ Served'
        BY <2>1, <2>2 DEF Served
    <2>4. RowsHeld' /\ StreamOrder' /\ AllFound'
        BY <2>1, <2>2, <2>3 DEF ServedInv, RowsHeld, StreamOrder, AllFound
    <2>5. ByteTypes' /\ BytesRight'
        BY <2>1 DEF ServedInv, ByteTypes, BytesRight
    <2> QED  BY <2>4, <2>5 DEF ServedInv
  <1>3. CASE Answer
    <2>1. /\ demand.st = "settled" /\ UNCHANGED <<mode, e2r, bytes, sub>>
          /\ demand' = [demand EXCEPT !.st = "serving"]
          /\ lease' = [r \in Rows |-> lease[r] + IF mode.leases /\ Held(r) THEN 1 ELSE 0]
        BY <1>3 DEF Answer, books
    <2>2. /\ demand'.st = "serving" /\ demand'.route = demand.route
          /\ demand'.local = demand.local /\ demand'.fwd = demand.fwd
        BY <2>1, DemandType DEF DemandRecords
    <2>3. Served /\ Served'
        BY <2>1, <2>2 DEF Served
    <2>4. \A r \in Rows : /\ lease[r] \in Nat /\ lease[r] + 1 \in Nat /\ lease[r] + 0 \in Nat
                          /\ lease[r] > 0 => lease[r] + 1 > 0 /\ lease[r] + 0 > 0
        BY DEF ServedInv, ByteTypes
    <2>5. lease' \in [Rows -> Nat] /\ \A r \in Rows : lease[r] > 0 => lease'[r] > 0
        BY <2>1, <2>4
    <2>6. RowsHeld' /\ StreamOrder' /\ AllFound'
        BY <2>1, <2>2, <2>3, <2>5 DEF ServedInv, RowsHeld, StreamOrder, AllFound
    <2>7. ByteTypes' /\ BytesRight'
        BY <2>1, <2>5 DEF ServedInv, ByteTypes, BytesRight
    <2> QED  BY <2>6, <2>7 DEF ServedInv
  <1>4. CASE Retire
    <2>1. /\ demand.st = "serving" /\ UNCHANGED <<mode, e2r, bytes, sub>>
          /\ lease' = [r \in Rows |-> 0]
        BY <1>4 DEF Retire, books
    <2>2. /\ demand'.st \in {"open", "over"}
          /\ demand'.fwd \in {demand.fwd, demand.fwd + 1} /\ demand.fwd \in Nat
          /\ demand'.st = "over" => demand'.fwd = demand.fwd
      <3>1. CASE demand.fwd < NF
          BY <1>4, <3>1, DemandType DEF Retire
      <3>2. CASE ~(demand.fwd < NF)
        <4>1. demand' = [demand EXCEPT !.st = "over", !.local = NoMap, !.route = {}]
            BY <1>4, <3>2 DEF Retire
        <4> QED  BY <4>1, DemandType DEF DemandRecords
      <3> QED  BY <3>1, <3>2
    <2>3. Served /\ ~Served'
        BY <2>1, <2>2 DEF Served
    <2>4. StreamOrder'
      <3>1. \A s \in Subs : s[1] \in Nat
          BY Basics DEF Subs, Forwards
      <3>2. \A s \in Subs : s[1] < demand'.fwd => s[1] < demand.fwd \/ s[1] = demand.fwd
          BY <2>2, <3>1
      <3>3. \A s \in Subs : s[1] > demand'.fwd => s[1] > demand.fwd
          BY <2>2, <3>1
      <3> QED  BY <2>1, <2>3, <3>2, <3>3 DEF ServedInv, StreamOrder
    <2>5. RowsHeld' /\ AllFound'
        BY <2>2, <2>3 DEF RowsHeld, AllFound
    <2>6. ByteTypes' /\ BytesRight'
        BY <2>1 DEF ServedInv, ByteTypes, BytesRight
    <2> QED  BY <2>4, <2>5, <2>6 DEF ServedInv
  <1> QED  BY <1>1, <1>2, <1>3, <1>4

\* Every step keeps the promise.
LEMMA ServedStep == ASSUME BooksInv, ServedInv, LeasesOrOrder, [Next]_vars PROVE ServedInv'
  <1>1. CASE UNCHANGED vars
      BY <1>1, ServedSame DEF vars, books
  <1>2. ASSUME NEW s \in Subs, NEW seq, Submit(s, seq) PROVE ServedInv'
    <2>1. /\ demand.st = "open" /\ s[1] = demand.fwd /\ sub' = [sub EXCEPT ![s] = "submitted"]
          /\ UNCHANGED <<mode, e2r, lease, bytes, demand>>
        BY <1>2 DEF Submit, books
    <2>2. \A t \in Subs : t # s => sub'[t] = sub[t]
        BY <2>1 DEF BooksInv, LifeTypes
    <2>3. StreamOrder'
      <3>1. ~Served' /\ ~(s[1] < demand.fwd) /\ ~(s[1] > demand.fwd)
          BY <2>1, DemandType DEF Served
      <3> QED  BY <2>1, <2>2, <3>1 DEF ServedInv, StreamOrder, Served
    <2>4. ByteTypes' /\ BytesRight' /\ RowsHeld' /\ AllFound'
        BY <2>1 DEF ServedInv, ByteTypes, BytesRight, RowsHeld, AllFound, Served
    <2> QED  BY <2>3, <2>4 DEF ServedInv
  <1>3. ASSUME NEW f \in Forwards PROVE <<f, "early">> \in Subs /\ <<f, "tail">> \in Subs
      BY DEF Subs
  <1>4. CASE ReaderStep
      BY <1>4, ReaderServed DEF ReaderStep
  <1>5. CASE HandlerStep
      BY <1>5, LookupServed, HandlerServed DEF HandlerStep
  <1>6. CASE Reset
    <2>1. /\ demand.st = "open" /\ e2r' = NoMap /\ lease' = [r \in Rows |-> 0]
          /\ UNCHANGED <<mode, bytes, sub, demand>>
        BY <1>6 DEF Reset
    <2>2. StreamOrder'
        BY <2>1 DEF ServedInv, StreamOrder, Served
    <2> QED  BY <2>1, <2>2 DEF ServedInv, ByteTypes, BytesRight, RowsHeld, AllFound, Served, NoMap
  <1> QED  BY <1>1, <1>2, <1>3, <1>4, <1>5, <1>6, CallbackServed, RemapServed, HandlerServed DEF Next

-----------------------------------------------------------------------------
\* While the MoE reads its rows, each holds the bytes of its expert: no row is
\* half written, evicted or read into under it.  Leases give this when callbacks
\* run at any time; without them it needs those of a target to run before its
\* demand.
THEOREM ServedRowsAreRight ==
    ASSUME ResetsDrain, LeasesOrOrder PROVE Spec => []ServedBytes
  <1>1. Init => ServedInv
    <2> SUFFICES ASSUME Init PROVE ServedInv
        OBVIOUS
    <2> QED  BY Basics DEF Init, ServedInv, ByteTypes, BytesRight, RowsHeld, AllFound, StreamOrder,
                           Served, NoMap
  <1>2. BooksInv /\ ServedInv /\ [Next]_vars => BooksInv' /\ ServedInv'
      BY BooksStep, ServedStep
  <1>3. BooksInv /\ ServedInv => ServedBytes
    <2> SUFFICES ASSUME BooksInv, ServedInv, demand.st = "serving", NEW e \in demand.route,
                        demand.local[e] # Real
                 PROVE  demand.local[e] # None /\ bytes[demand.local[e]] = e
        BY DEF ServedBytes
    <2>1. e \in Experts /\ demand.local[e] \in Rows /\ demand.local[e] # None
        BY DemandType DEF ServedInv, AllFound
    <2>2. e2r[e] = demand.local[e]
        BY <2>1 DEF ServedInv, RowsHeld, Served
    <2> QED  BY <2>1, <2>2 DEF ServedInv, BytesRight
  <1> QED  BY <1>1, <1>2, <1>3, BooksInit, PTL DEF Spec
=============================================================================
