--------------------------- MODULE StagingProofs ---------------------------
(***************************************************************************)
(* Proofs about Staging, for every ring, submission, route and choice of   *)
(* paths: a fill owns the bank it writes, what a demand copies out of a    *)
(* bank are the bytes of the experts it asked for, the records of a target *)
(* are freed, and on consistent paths no bank stays reserved.              *)
(*                                                                         *)
(* The argument follows a row.  While it is to be read its bank belongs to *)
(* the fill; once it is ready its bytes are right and no row still to be   *)
(* read shares its place; the bank is not given back before the fill has   *)
(* ended and whoever took the row has copied it.                           *)
(***************************************************************************)
EXTENDS Staging, FiniteSetTheorems, SequenceTheorems, TLAPS

Rows == Experts \X (1 .. Cap)
FillStates == {"queued", "reserved", "reading", "ended", "done"}
Subs ==
    [t : Targets, prio : Nat, bank : Banks, ids : Seq(Experts), st : FillStates,
     rows : SUBSET Rows, writing : BOOLEAN, ready : {None} \cup SUBSET Rows,
     finished : BOOLEAN, consumed : BOOLEAN]
Live == {"queued", "taken", "copied"}

Types ==
    /\ mode \in Modes
    /\ pos \in [f : 1 .. NF, l : 1 .. NL]
    /\ pc \in {"build", "reap", "wait", "take", "over"}
    /\ pc = "reap" => arg \in [t : Targets, ids : Seq(Experts), prio : Nat]
    /\ scan \in [todo : SUBSET Banks, bank : {None} \cup Banks, rows : {None} \cup SUBSET Rows]
    /\ leases \subseteq [bank : Banks, rows : SUBSET Rows, fin : BOOLEAN]
    /\ owner \in [Banks -> {None} \cup Owners]
    /\ subs \in Seq(Subs)
    /\ bytes \in [Banks -> [1 .. Cap -> {None} \cup ((2 .. NL) \X Experts)]]
    /\ h \in [Targets -> [st : Live \cup {"none", "done", "failed", "plain"},
                          gens : SUBSET Nat, rows : SUBSET (Nat \X Rows)]]

Active(g) == subs[g].st \in {"queued", "reserved", "reading"}
Held(g) == owner[subs[g].bank] # None /\ Gen(subs[g].bank) = g

\* A ready row: its bytes are right, and nothing will be read over them.
RowOK(g, p) ==
    /\ subs[g].st # "queued"
    /\ bytes[subs[g].bank][p[2]] = <<subs[g].t[2], p[1]>>
    /\ \A q \in subs[g].rows : q[2] # p[2]

OwnerInv ==
    \A b \in Banks : owner[b] # None =>
        /\ Gen(b) \in DOMAIN subs
        /\ subs[Gen(b)].bank = b
        /\ subs[Gen(b)].t = <<owner[b].fwd, owner[b].layer>>
        /\ owner[b].st = "reserved" => ~subs[Gen(b)].consumed

FillInv ==
    \A g \in DOMAIN subs :
        /\ Active(g) => Held(g) /\ ~subs[g].finished
        /\ subs[g].writing => subs[g].st = "reading" /\ subs[g].rows # {}
        /\ \A p, q \in subs[g].rows : p[2] = q[2] => p = q
        /\ subs[g].ready # None => Held(g) /\ \A p \in subs[g].ready : RowOK(g, p)

ScanInv ==
    /\ pc \notin {"reap", "take"} => Scanned
    /\ scan.bank \notin scan.todo
    /\ \A b \in scan.todo \cup ({scan.bank} \ {None}) :
        /\ owner[b] # None
        /\ pc = "reap" => owner[b].st \in {"missed", "attached"}
        /\ pc = "take" => owner[b].layer = pos.l
    /\ scan.bank # None =>
        /\ pc = "reap" => owner[scan.bank].st = "missed"
        /\ scan.rows # None => \A p \in scan.rows : RowOK(Gen(scan.bank), p)

LeaseInv ==
    \A x \in leases :
        /\ pc = "take"
        /\ owner[x.bank] # None /\ owner[x.bank].layer = pos.l
        /\ \A p \in x.rows : RowOK(Gen(x.bank), p)
        /\ x.fin => ~Active(Gen(x.bank))

HandlerInv ==
    \A t \in Targets :
        /\ h[t].st \in Live => t[1] <= pos.f /\ mode.kinds[t[1]] = "async" /\ pc \notin {"wait", "take"}
        /\ \A g \in h[t].gens :
            /\ g \in DOMAIN subs /\ subs[g].t = t
            /\ \A b \in Banks : owner[b] # None /\ Gen(b) = g => owner[b].st # "reserved"
            /\ h[t].st \in {"queued", "taken"} =>
                Held(g) /\ owner[subs[g].bank].st = "attached" /\ ~subs[g].consumed
        /\ \A x \in h[t].rows : h[t].st = "taken" /\ x[1] \in h[t].gens /\ RowOK(x[1], x[2])

IInv == Types /\ OwnerInv /\ FillInv /\ ScanInv /\ LeaseInv /\ HandlerInv /\ CopiedBytes
-----------------------------------------------------------------------------
(* Submissions and their records.                                          *)

LEMMA ConstantFacts ==
    /\ NB \in Nat \ {0} /\ Cap \in Nat \ {0} /\ MaxForwards \in Nat \ {0} /\ NL \in Nat \ {0}
    /\ None \notin Nat /\ None \notin Owners /\ None \notin Banks
    /\ EarlyIds \subseteq Seq(Experts) /\ TailIds \subseteq Seq(Experts)
  BY StagingAssumption DEF Banks

\* A sequence of submissions is a function on 1 .. Len(subs).
LEMMA SubsFacts ==
    ASSUME subs \in Seq(Subs)
    PROVE  /\ Len(subs) \in Nat /\ DOMAIN subs = 1 .. Len(subs)
           /\ \A g \in DOMAIN subs : subs[g] \in Subs
  BY LenProperties

\* Rebuilding the records one by one leaves a sequence of the same length.
LEMMA Rebuilt ==
    ASSUME NEW S, NEW s \in Seq(S), NEW F \in [DOMAIN s -> S]
    PROVE  F \in Seq(S) /\ Len(F) = Len(s) /\ DOMAIN F = DOMAIN s
  <1>1. /\ Len(s) \in Nat /\ DOMAIN s = 1 .. Len(s)
    BY LenProperties
  <1>2. F \in Seq(S)
    BY <1>1, SeqDef
  <1>3. Len(F) \in Nat /\ DOMAIN F = 1 .. Len(F)
    BY <1>2, LenProperties
  <1>. QED  BY <1>1, <1>2, <1>3

\* What a fill works with is left alone.
Same(x, y) == y.t = x.t /\ y.bank = x.bank /\ y.st = x.st /\ y.rows = x.rows /\ y.writing = x.writing

\* The three fields that the Python thread and the handlers change.
LEMMA RecordEdits ==
    ASSUME NEW x \in Subs
    PROVE  /\ Forgotten(x) \in Subs /\ Same(x, Forgotten(x))
           /\ Forgotten(x).ready = None /\ Forgotten(x).finished = FALSE /\ Forgotten(x).consumed = FALSE
           /\ [x EXCEPT !.ready = None] \in Subs /\ Same(x, [x EXCEPT !.ready = None])
           /\ [x EXCEPT !.ready = None].ready = None
           /\ [x EXCEPT !.ready = None].finished = x.finished
           /\ [x EXCEPT !.ready = None].consumed = x.consumed
           /\ [x EXCEPT !.consumed = TRUE] \in Subs /\ Same(x, [x EXCEPT !.consumed = TRUE])
           /\ [x EXCEPT !.consumed = TRUE].ready = x.ready
           /\ [x EXCEPT !.consumed = TRUE].finished = x.finished
           /\ [x EXCEPT !.consumed = TRUE].consumed = TRUE
           /\ Same(x, x)
  BY DEF Subs, Forgotten, Same

\* Every field has its type.
LEMMA RecordFields ==
    ASSUME NEW x \in Subs
    PROVE  /\ x.t \in Targets /\ x.prio \in Nat /\ x.bank \in Banks /\ x.ids \in Seq(Experts)
           /\ x.st \in FillStates /\ x.rows \subseteq Rows /\ x.writing \in BOOLEAN
           /\ x.ready \in {None} \cup SUBSET Rows /\ x.finished \in BOOLEAN /\ x.consumed \in BOOLEAN
  BY DEF Subs

\* Same length, same work to do: only ready, finished and consumed change.
Touched ==
    /\ subs' \in Seq(Subs) /\ Len(subs') = Len(subs) /\ DOMAIN subs' = DOMAIN subs
    /\ \A g \in DOMAIN subs : Same(subs[g], subs'[g])

LEMMA ReleasedSubs ==
    ASSUME subs \in Seq(Subs), NEW B, Released(B)
    PROVE  /\ Touched
           /\ \A g \in DOMAIN subs :
                IF \E b \in B : Gen(b) = g
                THEN subs'[g].ready = None /\ subs'[g].finished = FALSE /\ subs'[g].consumed = FALSE
                ELSE subs'[g] = subs[g]
  <1>1. \A g \in DOMAIN subs : subs[g] \in Subs
    BY SubsFacts
  <1>2. subs' \in [DOMAIN subs -> Subs]
    BY <1>1, RecordEdits DEF Released
  <1>3. subs' \in Seq(Subs) /\ Len(subs') = Len(subs) /\ DOMAIN subs' = DOMAIN subs
    BY <1>2, Rebuilt
  <1>4. ASSUME NEW g \in DOMAIN subs
        PROVE  /\ Same(subs[g], subs'[g])
               /\ IF \E b \in B : Gen(b) = g
                  THEN subs'[g].ready = None /\ subs'[g].finished = FALSE /\ subs'[g].consumed = FALSE
                  ELSE subs'[g] = subs[g]
    <2>1. subs[g] \in Subs
      BY <1>1
    <2>2. CASE \E b \in B : Gen(b) = g
      <3>. DEFINE y == Forgotten(subs[g])
      <3>1. subs'[g] = y
        BY <2>2 DEF Released
      <3>2. Same(subs[g], y) /\ y.ready = None /\ y.finished = FALSE /\ y.consumed = FALSE
        BY <2>1, RecordEdits
      <3>. HIDE DEF y
      <3>3. subs'[g].finished = FALSE /\ subs'[g].consumed = FALSE
        BY <3>1, <3>2, Zenon
      <3>. QED  BY <2>2, <3>1, <3>2, <3>3
    <2>3. CASE ~(\E b \in B : Gen(b) = g)
      <3>1. subs'[g] = subs[g]
        BY <2>3 DEF Released
      <3>. QED  BY <2>1, <2>3, <3>1, RecordEdits, Zenon
    <2>. QED  BY <2>2, <2>3
  <1>. QED  BY <1>3, <1>4 DEF Touched

\* The rows of the generations of G are taken.
LEMMA TakenSubs ==
    ASSUME subs \in Seq(Subs), NEW G,
           subs' = [g \in DOMAIN subs |-> IF g \in G THEN [subs[g] EXCEPT !.ready = None] ELSE subs[g]]
    PROVE  /\ Touched
           /\ \A g \in DOMAIN subs :
                /\ subs'[g].finished = subs[g].finished /\ subs'[g].consumed = subs[g].consumed
                /\ subs'[g].ready = IF g \in G THEN None ELSE subs[g].ready
  <1>1. \A g \in DOMAIN subs : subs[g] \in Subs
    BY SubsFacts
  <1>2. subs' \in [DOMAIN subs -> Subs]
    BY <1>1, RecordEdits
  <1>3. subs' \in Seq(Subs) /\ Len(subs') = Len(subs) /\ DOMAIN subs' = DOMAIN subs
    BY <1>2, Rebuilt
  <1>4. ASSUME NEW g \in DOMAIN subs
        PROVE  /\ Same(subs[g], subs'[g])
               /\ subs'[g].finished = subs[g].finished /\ subs'[g].consumed = subs[g].consumed
               /\ subs'[g].ready = IF g \in G THEN None ELSE subs[g].ready
    <2>1. subs[g] \in Subs
      BY <1>1
    <2>2. subs'[g] = IF g \in G THEN [subs[g] EXCEPT !.ready = None] ELSE subs[g]
      OBVIOUS
    <2>. QED  BY <2>1, <2>2, RecordEdits
  <1>. QED  BY <1>3, <1>4 DEF Touched

LEMMA TakenOne ==
    ASSUME subs \in Seq(Subs), NEW i, subs' = [subs EXCEPT ![i].ready = None]
    PROVE  subs' = [g \in DOMAIN subs |-> IF g \in {i} THEN [subs[g] EXCEPT !.ready = None] ELSE subs[g]]
  BY SubsFacts

LEMMA ConsumedSubs ==
    ASSUME subs \in Seq(Subs), NEW t, Consumed(t)
    PROVE  /\ Touched
           /\ \A g \in DOMAIN subs :
                /\ subs'[g].finished = subs[g].finished /\ subs'[g].ready = subs[g].ready
                /\ g \notin h[t].gens => subs'[g].consumed = subs[g].consumed
  <1>1. \A g \in DOMAIN subs : subs[g] \in Subs
    BY SubsFacts
  <1>2. subs' \in [DOMAIN subs -> Subs]
    BY <1>1, RecordEdits DEF Consumed
  <1>3. subs' \in Seq(Subs) /\ Len(subs') = Len(subs) /\ DOMAIN subs' = DOMAIN subs
    BY <1>2, Rebuilt
  <1>4. ASSUME NEW g \in DOMAIN subs
        PROVE  /\ Same(subs[g], subs'[g])
               /\ subs'[g].finished = subs[g].finished /\ subs'[g].ready = subs[g].ready
               /\ g \notin h[t].gens => subs'[g].consumed = subs[g].consumed
    <2>1. subs[g] \in Subs
      BY <1>1
    <2>2. CASE g \in h[t].gens
      <3>. DEFINE y == [subs[g] EXCEPT !.consumed = TRUE]
      <3>1. subs'[g] = y
        BY <2>2 DEF Consumed
      <3>2. Same(subs[g], y) /\ y.ready = subs[g].ready /\ y.finished = subs[g].finished
        BY <2>1, RecordEdits
      <3>. HIDE DEF y
      <3>3. subs'[g].finished = subs[g].finished
        BY <3>1, <3>2, Zenon
      <3>. QED  BY <2>2, <3>1, <3>2, <3>3
    <2>3. CASE g \notin h[t].gens
      <3>1. subs'[g] = subs[g]
        BY <2>3 DEF Consumed
      <3>. QED  BY <2>1, <2>3, <3>1, RecordEdits, Zenon
    <2>. QED  BY <2>2, <2>3
  <1>. QED  BY <1>3, <1>4 DEF Touched

\* A ready row stays right while the rings and the readers rest.
LEMMA RowStaysOK ==
    ASSUME Touched, bytes' = bytes, NEW g \in DOMAIN subs, NEW p, RowOK(g, p)
    PROVE  RowOK(g, p)'
  BY DEF Touched, Same, RowOK
-----------------------------------------------------------------------------
(* Steps that touch neither a bank nor a submission.                       *)

LEMMA ModeFacts ==
    ASSUME mode \in Modes
    PROVE  NF \in 1 .. MaxForwards
  <1>1. PICK n \in 1 .. MaxForwards : mode.kinds \in [1 .. n -> Kinds]
    BY StagingAssumption
  <1>2. mode.kinds \in Seq(Kinds)
    BY <1>1, ConstantFacts, SeqDef
  <1>3. Len(mode.kinds) \in Nat /\ DOMAIN mode.kinds = 1 .. Len(mode.kinds)
    BY <1>2, LenProperties
  <1>4. 1 .. Len(mode.kinds) = 1 .. n /\ n \in Nat \ {0}
    BY <1>1, <1>3, ConstantFacts
  <1>5. Len(mode.kinds) = n
    BY <1>3, <1>4
  <1>. QED  BY <1>5 DEF NF

LEMMA AdvanceFacts ==
    ASSUME mode \in Modes, pos \in [f : 1 .. NF, l : 1 .. NL], Advance
    PROVE  /\ pos' \in [f : 1 .. NF, l : 1 .. NL]
           /\ pc' \in {"build", "over"} /\ pos.f <= pos'.f
  BY ModeFacts, ConstantFacts DEF Advance

\* The block at work is a target unless it is the first layer.
LEMMA HereFacts ==
    ASSUME mode \in Modes, pos \in [f : 1 .. NF, l : 1 .. NL]
    PROVE  /\ Here[1] = pos.f /\ Here[2] = pos.l
           /\ pos.l > 1 => Here \in Targets
           /\ \A l \in 2 .. NL : <<pos.f, l>> \in Targets
  BY ModeFacts, ConstantFacts DEF Here, Targets

\* Nothing that the banks and the fills are bound by has changed.
LEMMA Quiet ==
    ASSUME OwnerInv, FillInv, CopiedBytes, UNCHANGED <<owner, subs, bytes, copied>>
    PROVE  OwnerInv' /\ FillInv' /\ CopiedBytes'
  <1>1. OwnerInv'
    BY DEF OwnerInv, Gen
  <1>2. FillInv'
    <2>1. \A g \in DOMAIN subs : Active(g)' = Active(g) /\ Held(g)' = Held(g)
      BY DEF Active, Held, Gen
    <2>2. \A g \in DOMAIN subs : \A p : RowOK(g, p)' = RowOK(g, p)
      BY DEF RowOK
    <2>3. subs' = subs
      OBVIOUS
    <2>. QED  BY <2>1, <2>2, <2>3 DEF FillInv
  <1>3. CopiedBytes'
    BY DEF CopiedBytes
  <1>. QED  BY <1>1, <1>2, <1>3

\* Nor has what the handlers are bound by, when the Python thread does not
\* enter a synchronous demand.
LEMMA QuietHandlers ==
    ASSUME HandlerInv, UNCHANGED <<mode, h, owner, subs, bytes>>,
           pos.f <= pos'.f, pos.f \in Int, pos'.f \in Int, pc' \notin {"wait", "take"}
    PROVE  HandlerInv'
  BY DEF HandlerInv, RowOK, Held, Gen, Targets

LEMMA StepSubmit ==
    ASSUME IInv, NEW t \in Targets, NEW ids \in Seq(Experts), NEW prio \in Nat,
           pc = "build", StartSubmit(t, ids, prio),
           UNCHANGED <<mode, pos, leases, owner, subs, bytes, h, copied>>
    PROVE  IInv'
  <1>1. Types'
    BY DEF IInv, Types, StartSubmit, NoScan, Owned, NF
  <1>2. OwnerInv' /\ FillInv' /\ CopiedBytes'
    BY Quiet DEF IInv
  <1>3. ScanInv'
    BY ConstantFacts DEF IInv, ScanInv, StartSubmit, NoScan, Owned, Types
  <1>4. LeaseInv'
    BY DEF IInv, LeaseInv
  <1>5. HandlerInv'
    BY QuietHandlers, ModeFacts DEF IInv, Types, StartSubmit
  <1>. QED  BY <1>1, <1>2, <1>3, <1>4, <1>5 DEF IInv

LEMMA StepPredict ==
    ASSUME IInv, NEW l \in 2 .. NL, NEW ids \in EarlyIds, Predict(l, ids)
    PROVE  IInv'
  <1>1. <<pos.f, l>> \in Targets
    BY HereFacts DEF IInv, Types
  <1>2. ids \in Seq(Experts)
    BY ConstantFacts
  <1>. QED  BY <1>1, <1>2, StepSubmit DEF Predict, Building

LEMMA StepRefine ==
    ASSUME IInv, NEW ids \in TailIds, Refine(ids)
    PROVE  IInv'
  <1>1. <<pos.f, pos.l + 1>> \in Targets
    BY DEF Refine, Refinable
  <1>2. ids \in Seq(Experts)
    BY ConstantFacts
  <1>. QED  BY <1>1, <1>2, StepSubmit DEF Refine, Refinable, Building

LEMMA StepStutter ==
    ASSUME IInv,
           UNCHANGED <<mode, pos, pc, arg, scan, leases, owner, subs, bytes, h, copied>>
    PROVE  IInv'
  <1>1. Types'
    BY DEF IInv, Types, NF
  <1>2. OwnerInv' /\ FillInv' /\ CopiedBytes'
    BY Quiet DEF IInv
  <1>3. ScanInv'
    BY DEF IInv, ScanInv, Scanned, RowOK, Gen
  <1>4. LeaseInv'
    BY DEF IInv, LeaseInv, RowOK, Active, Gen
  <1>5. HandlerInv'
    BY DEF IInv, HandlerInv, RowOK, Held, Gen
  <1>. QED  BY <1>1, <1>2, <1>3, <1>4, <1>5 DEF IInv

LEMMA StepHostDemand ==
    ASSUME IInv, HostDemand
    PROVE  IInv'
  <1>. USE DEF HostDemand
  <1>0. pc = "build"
    BY DEF Building
  <1>1. /\ pos' \in [f : 1 .. NF, l : 1 .. NL] /\ pc' \in {"build", "over"} /\ pos.f <= pos'.f
    BY AdvanceFacts DEF IInv, Types
  <1>2. Types'
    BY <1>1 DEF IInv, Types, NF
  <1>3. OwnerInv' /\ FillInv' /\ CopiedBytes'
    BY Quiet DEF IInv
  <1>4. ScanInv'
    BY <1>0, <1>1 DEF IInv, ScanInv, Scanned
  <1>5. LeaseInv'
    BY <1>0 DEF IInv, LeaseInv
  <1>6. pos.f \in Int /\ pos'.f \in Int
    BY <1>1, ModeFacts DEF IInv, Types
  <1>7. HandlerInv'
    BY <1>1, <1>6, QuietHandlers DEF IInv
  <1>. QED  BY <1>2, <1>3, <1>4, <1>5, <1>7 DEF IInv

\* A synchronous demand finds no handler at work: earlier forwards are over
\* and this one is synchronous all along.
LEMMA StepSyncStart ==
    ASSUME IInv, NEW R, SyncStart(R)
    PROVE  IInv'
  <1>. USE DEF SyncStart
  <1>0. pc = "build" /\ pc' \in {"wait", "take"}
    BY DEF Building
  <1>1. Types'
    BY <1>0 DEF IInv, Types, NoScan, LayerBanks, Owned, NF
  <1>2. OwnerInv' /\ FillInv' /\ CopiedBytes'
    BY Quiet DEF IInv
  <1>3. ScanInv'
    BY <1>0, ConstantFacts DEF IInv, ScanInv, Scanned, NoScan, LayerBanks, Owned, Types
  <1>4. LeaseInv'
    BY <1>0 DEF IInv, LeaseInv
  <1>5. \A t \in Targets : h[t].st \notin Live
    <2>1. SUFFICES ASSUME NEW t \in Targets, h[t].st \in Live PROVE FALSE
      OBVIOUS
    <2>2. t[1] <= pos.f /\ mode.kinds[t[1]] = "async"
      BY <2>1 DEF IInv, HandlerInv
    <2>3. ~(t[1] < pos.f)
      BY <2>1 DEF Building, Live
    <2>4. t[1] = pos.f
      BY <2>2, <2>3, ModeFacts DEF IInv, Types, Targets
    <2>. QED  BY <2>2, <2>4 DEF Kind
  <1>6. HandlerInv'
    BY <1>5 DEF IInv, HandlerInv, RowOK, Held, Gen
  <1>. QED  BY <1>1, <1>2, <1>3, <1>4, <1>6 DEF IInv

LEMMA StepWaitOver ==
    ASSUME IInv, WaitOver
    PROVE  IInv'
  <1>. USE DEF WaitOver
  <1>1. Types'
    BY DEF IInv, Types, NoScan, LayerBanks, Owned, NF
  <1>2. OwnerInv' /\ FillInv' /\ CopiedBytes'
    BY Quiet DEF IInv
  <1>3. ScanInv'
    BY ConstantFacts DEF IInv, ScanInv, NoScan, LayerBanks, Owned, Types
  <1>4. LeaseInv'
    BY DEF IInv, LeaseInv
  <1>5. HandlerInv'
    BY DEF IInv, HandlerInv, RowOK, Held, Gen
  <1>. QED  BY <1>1, <1>2, <1>3, <1>4, <1>5 DEF IInv
-----------------------------------------------------------------------------
(* Steps of the Python thread that take rows and give banks back.          *)

\* Releasing banks whose fill has ended disturbs no fill.
LEMMA ReleaseFills ==
    ASSUME Types, OwnerInv, FillInv, NEW B \in SUBSET Banks, Released(B), UNCHANGED bytes,
           \A b \in B : owner[b] # None /\ ~Active(Gen(b))
    PROVE  /\ owner' \in [Banks -> {None} \cup Owners]
           /\ OwnerInv' /\ FillInv'
           /\ \A b \in Banks : b \notin B => owner'[b] = owner[b]
  <1>. USE DEF Types
  <1>1. /\ Touched
        /\ \A g \in DOMAIN subs :
             IF \E b \in B : Gen(b) = g
             THEN subs'[g].ready = None /\ subs'[g].finished = FALSE /\ subs'[g].consumed = FALSE
             ELSE subs'[g] = subs[g]
    BY ReleasedSubs
  <1>2. \A b \in Banks : owner'[b] = IF b \in B THEN None ELSE owner[b]
    BY DEF Released
  <1>3. owner' \in [Banks -> {None} \cup Owners]
    BY DEF Released
  <1>4. \A b, c \in Banks : owner[b] # None /\ owner[c] # None /\ Gen(b) = Gen(c) => b = c
    BY DEF OwnerInv
  <1>5. OwnerInv'
    <2>1. SUFFICES ASSUME NEW b \in Banks, owner'[b] # None
                   PROVE  /\ Gen(b)' \in DOMAIN subs'
                          /\ subs'[Gen(b)'].bank = b
                          /\ subs'[Gen(b)'].t = <<owner'[b].fwd, owner'[b].layer>>
                          /\ owner'[b].st = "reserved" => ~subs'[Gen(b)'].consumed
      BY DEF OwnerInv, Gen
    <2>2. b \notin B /\ owner'[b] = owner[b] /\ owner[b] # None /\ Gen(b)' = Gen(b)
      BY <1>2, <2>1 DEF Gen
    <2>3. Gen(b) \in DOMAIN subs
      BY <2>2 DEF OwnerInv
    <2>4. ~\E c \in B : Gen(c) = Gen(b)
      BY <1>4, <2>2
    <2>5. subs'[Gen(b)] = subs[Gen(b)]
      BY <1>1, <2>3, <2>4
    <2>. QED  BY <1>1, <2>2, <2>3, <2>5 DEF OwnerInv, Touched
  <1>6. FillInv'
    <2>1. SUFFICES ASSUME NEW g \in DOMAIN subs
                   PROVE  /\ Active(g)' => Held(g)' /\ ~subs'[g].finished
                          /\ subs'[g].writing => subs'[g].st = "reading" /\ subs'[g].rows # {}
                          /\ \A p, q \in subs'[g].rows : p[2] = q[2] => p = q
                          /\ subs'[g].ready # None => Held(g)' /\ \A p \in subs'[g].ready : RowOK(g, p)'
      BY <1>1 DEF FillInv, Touched
    <2>2. Same(subs[g], subs'[g]) /\ subs[g].bank \in Banks
      BY <1>1, SubsFacts, RecordFields DEF Touched
    <2>3. ASSUME \A b \in B : Gen(b) # g, Held(g)
          PROVE  Held(g)'
      BY <1>2, <2>2, <2>3 DEF Held, Gen, Same
    <2>4. CASE \E b \in B : Gen(b) = g
      <3>1. ~Active(g) /\ subs'[g].ready = None
        BY <1>1, <2>4
      <3>. QED  BY <2>2, <3>1 DEF FillInv, Same, Active
    <2>5. CASE ~\E b \in B : Gen(b) = g
      <3>1. subs'[g] = subs[g]
        BY <1>1, <2>5
      <3>2. \A p : RowOK(g, p) => RowOK(g, p)'
        BY <1>1, RowStaysOK
      <3>. QED  BY <2>3, <2>5, <3>1, <3>2 DEF FillInv, Active
    <2>. QED  BY <2>4, <2>5
  <1>. QED  BY <1>2, <1>3, <1>5, <1>6

\* Nor does it disturb a handler, if what is attached was consumed.
LEMMA ReleaseHandlers ==
    ASSUME Types, OwnerInv, HandlerInv, NEW B \in SUBSET Banks, Released(B),
           UNCHANGED <<mode, h, bytes>>, pos.f <= pos'.f, pos' = pos, pc \notin {"wait", "take"},
           \A b \in B : owner[b] # None /\ (owner[b].st = "attached" => subs[Gen(b)].consumed),
           pc' = pc
    PROVE  HandlerInv'
  <1>. USE DEF Types
  <1>1. /\ Touched
        /\ \A g \in DOMAIN subs :
             IF \E b \in B : Gen(b) = g
             THEN subs'[g].ready = None /\ subs'[g].finished = FALSE /\ subs'[g].consumed = FALSE
             ELSE subs'[g] = subs[g]
    BY ReleasedSubs
  <1>2. \A b \in Banks : owner'[b] = IF b \in B THEN None ELSE owner[b]
    BY DEF Released
  <1>3. ASSUME NEW t \in Targets, NEW g \in h[t].gens
        PROVE  /\ g \in DOMAIN subs' /\ subs'[g].t = t
               /\ \A b \in Banks : owner'[b] # None /\ Gen(b)' = g => owner'[b].st # "reserved"
               /\ h[t].st \in {"queued", "taken"} =>
                   Held(g)' /\ owner'[subs'[g].bank].st = "attached" /\ ~subs'[g].consumed
    <2>1. g \in DOMAIN subs /\ subs[g].t = t
      BY DEF HandlerInv
    <2>2. Same(subs[g], subs'[g]) /\ g \in DOMAIN subs' /\ subs[g].bank \in Banks
      BY <1>1, <2>1, SubsFacts, RecordFields DEF Touched
    <2>3. \A b \in Banks : owner'[b] # None /\ Gen(b)' = g => owner'[b].st # "reserved"
      BY <1>2 DEF HandlerInv, Gen
    <2>4. ASSUME h[t].st \in {"queued", "taken"}
          PROVE  Held(g)' /\ owner'[subs'[g].bank].st = "attached" /\ ~subs'[g].consumed
      <3>1. Held(g) /\ owner[subs[g].bank].st = "attached" /\ ~subs[g].consumed
        BY <2>4 DEF HandlerInv
      <3>2. ~\E b \in B : Gen(b) = g
        BY <3>1, <2>2 DEF OwnerInv, Held
      <3>3. subs'[g] = subs[g]
        BY <1>1, <2>1, <3>2
      <3>4. subs[g].bank \notin B
        BY <3>1, <3>2 DEF Held
      <3>. QED  BY <1>2, <2>2, <3>1, <3>3, <3>4 DEF Held, Gen
    <2>. QED  BY <2>1, <2>2, <2>3, <2>4 DEF Same
  <1>4. ASSUME NEW t \in Targets, NEW x \in h[t].rows
        PROVE  h[t].st = "taken" /\ x[1] \in h[t].gens /\ RowOK(x[1], x[2])'
    BY <1>1, RowStaysOK DEF HandlerInv
  <1>. QED  BY <1>3, <1>4 DEF HandlerInv

LEMMA StepReapAttached ==
    ASSUME IInv, ReapAttached
    PROVE  IInv'
  <1>. USE DEF ReapAttached
  <1>1. PICK b \in Banks : /\ First(b) /\ owner[b].st = "attached"
                           /\ Released(IF subs[Gen(b)].consumed /\ subs[Gen(b)].finished THEN {b} ELSE {})
                           /\ scan' = Rest(b)
    OBVIOUS
  <1>. DEFINE B == IF subs[Gen(b)].consumed /\ subs[Gen(b)].finished THEN {b} ELSE {}
  <1>2. b \in scan.todo /\ scan.bank = None /\ owner[b] # None /\ Gen(b) \in DOMAIN subs
    BY <1>1, ConstantFacts DEF First, IInv, ScanInv, OwnerInv
  <1>3. B \in SUBSET Banks /\ Released(B)
    BY <1>1
  <1>4. \A c \in B : c = b /\ owner[c] # None /\ ~Active(Gen(c)) /\ subs[Gen(c)].consumed
    BY <1>2 DEF IInv, FillInv
  <1>. HIDE DEF B
  <1>5. /\ owner' \in [Banks -> {None} \cup Owners]
        /\ OwnerInv' /\ FillInv'
        /\ \A c \in Banks : c \notin B => owner'[c] = owner[c]
    BY <1>3, <1>4, ReleaseFills DEF IInv
  <1>6. Touched
    BY <1>3, ReleasedSubs DEF IInv, Types
  <1>7. scan' = [todo |-> scan.todo \ {b}, bank |-> None, rows |-> None]
    BY <1>1 DEF Rest, NoScan
  <1>8. Types'
    BY <1>5, <1>6, <1>7 DEF IInv, Types, Touched, NF
  <1>9. ScanInv'
    BY <1>2, <1>4, <1>5, <1>7 DEF IInv, ScanInv, Types
  <1>10. LeaseInv'
    BY DEF IInv, LeaseInv
  <1>11. HandlerInv'
    <2>1. pos.f <= pos'.f
      BY ModeFacts DEF IInv, Types
    <2>. QED  BY <1>3, <1>4, <2>1, ReleaseHandlers DEF IInv
  <1>. QED  BY <1>5, <1>8, <1>9, <1>10, <1>11 DEF IInv, CopiedBytes

\* Taking rows away disturbs no fill.
LEMMA TakeFills ==
    ASSUME Types, OwnerInv, FillInv, Touched, UNCHANGED <<owner, bytes>>,
           \A g \in DOMAIN subs :
               /\ subs'[g].ready = None \/ subs'[g].ready = subs[g].ready
               /\ subs'[g].finished = subs[g].finished /\ subs'[g].consumed = subs[g].consumed
    PROVE  OwnerInv' /\ FillInv'
  <1>. USE DEF Types
  <1>1. \A g \in DOMAIN subs : Same(subs[g], subs'[g]) /\ subs[g].bank \in Banks
    BY SubsFacts, RecordFields DEF Touched
  <1>2. \A g \in DOMAIN subs : (Held(g) => Held(g)') /\ (\A p : RowOK(g, p) => RowOK(g, p)')
    BY <1>1, RowStaysOK DEF Held, Gen, Same
  <1>3. OwnerInv'
    <2>1. SUFFICES ASSUME NEW b \in Banks, owner[b] # None, NEW g, g = Gen(b)
                   PROVE  /\ g \in DOMAIN subs' /\ subs'[g].bank = b
                          /\ subs'[g].t = <<owner[b].fwd, owner[b].layer>>
                          /\ owner[b].st = "reserved" => ~subs'[g].consumed
      BY DEF OwnerInv, Gen
    <2>2. /\ g \in DOMAIN subs /\ subs[g].bank = b /\ subs[g].t = <<owner[b].fwd, owner[b].layer>>
          /\ owner[b].st = "reserved" => ~subs[g].consumed
      BY <2>1 DEF OwnerInv
    <2>3. owner[b].st = "reserved" => ~subs'[g].consumed
      BY <2>2, Zenon
    <2>. QED  BY <1>1, <2>2, <2>3 DEF Touched, Same
  <1>4. FillInv'
    <2>1. SUFFICES ASSUME NEW g \in DOMAIN subs
                   PROVE  /\ Active(g)' => Held(g)' /\ ~subs'[g].finished
                          /\ subs'[g].writing => subs'[g].st = "reading" /\ subs'[g].rows # {}
                          /\ \A p, q \in subs'[g].rows : p[2] = q[2] => p = q
                          /\ subs'[g].ready # None => Held(g)' /\ \A p \in subs'[g].ready : RowOK(g, p)'
      BY DEF FillInv, Touched
    <2>2. Active(g)' = Active(g) /\ subs'[g].rows = subs[g].rows
      BY <1>1 DEF Active, Same
    <2>3. Active(g) => ~subs'[g].finished
      BY Zenon DEF FillInv
    <2>4. subs'[g].ready # None => Held(g)' /\ \A p \in subs'[g].ready : RowOK(g, p)'
      BY <1>2 DEF FillInv
    <2>5. subs'[g].writing => subs'[g].st = "reading" /\ subs'[g].rows # {}
      BY <1>1 DEF FillInv, Same
    <2>. QED  BY <1>2, <2>2, <2>3, <2>4, <2>5 DEF FillInv
  <1>. QED  BY <1>3, <1>4

\* Nor a handler.
LEMMA TakeHandlers ==
    ASSUME Types, HandlerInv, Touched, UNCHANGED <<owner, bytes, mode, h>>,
           pos.f <= pos'.f, pos.f \in Int, pos'.f \in Int,
           pc' = pc \/ pc' \notin {"wait", "take"},
           \A g \in DOMAIN subs : subs'[g].consumed = subs[g].consumed
    PROVE  HandlerInv'
  <1>. USE DEF Types
  <1>1. \A g \in DOMAIN subs : Same(subs[g], subs'[g]) /\ subs[g].bank \in Banks
    BY SubsFacts, RecordFields DEF Touched
  <1>2. \A g \in DOMAIN subs : (Held(g) => Held(g)') /\ (\A p : RowOK(g, p) => RowOK(g, p)')
    BY <1>1, RowStaysOK DEF Held, Gen, Same
  <1>3. ASSUME NEW t \in Targets, NEW g \in h[t].gens
        PROVE  /\ g \in DOMAIN subs' /\ subs'[g].t = t
               /\ \A b \in Banks : owner'[b] # None /\ Gen(b)' = g => owner'[b].st # "reserved"
               /\ h[t].st \in {"queued", "taken"} =>
                   Held(g)' /\ owner'[subs'[g].bank].st = "attached" /\ ~subs'[g].consumed
    <2>1. g \in DOMAIN subs /\ subs[g].t = t
      BY DEF HandlerInv
    <2>2. Same(subs[g], subs'[g]) /\ g \in DOMAIN subs'
      BY <1>1, <2>1 DEF Touched
    <2>3. h[t].st \in {"queued", "taken"} => ~subs'[g].consumed
      BY <2>1, Zenon DEF HandlerInv
    <2>4. h[t].st \in {"queued", "taken"} => Held(g)' /\ owner'[subs'[g].bank].st = "attached"
      BY <1>2, <2>1, <2>2 DEF HandlerInv, Same
    <2>. QED  BY <2>1, <2>2, <2>3, <2>4 DEF HandlerInv, Gen, Same
  <1>4. ASSUME NEW t \in Targets, NEW x \in h[t].rows
        PROVE  h[t].st = "taken" /\ x[1] \in h[t].gens /\ RowOK(x[1], x[2])'
    BY <1>2 DEF HandlerInv
  <1>5. \A t \in Targets : h[t].st \in Live =>
            t[1] <= pos'.f /\ mode.kinds[t[1]] = "async" /\ pc' \notin {"wait", "take"}
    BY DEF HandlerInv, Targets
  <1>. QED  BY <1>3, <1>4, <1>5 DEF HandlerInv

LEMMA StepTake ==
    ASSUME IInv, Take
    PROVE  IInv'
  <1>. USE DEF Take
  <1>1. PICK b \in Banks : /\ First(b) /\ (pc = "reap" => owner[b].st = "missed")
                           /\ scan' = [Rest(b) EXCEPT !.bank = b, !.rows = subs[Gen(b)].ready]
                           /\ subs' = [subs EXCEPT ![Gen(b)].ready = None]
    OBVIOUS
  <1>2. b \in scan.todo /\ scan.bank = None /\ owner[b] # None /\ Gen(b) \in DOMAIN subs
    BY <1>1, ConstantFacts DEF First, IInv, ScanInv, OwnerInv
  <1>3. /\ Touched
        /\ \A g \in DOMAIN subs :
             /\ subs'[g].finished = subs[g].finished /\ subs'[g].consumed = subs[g].consumed
             /\ subs'[g].ready = None \/ subs'[g].ready = subs[g].ready
    <2>1. subs' = [g \in DOMAIN subs |-> IF g \in {Gen(b)} THEN [subs[g] EXCEPT !.ready = None] ELSE subs[g]]
      BY <1>1, TakenOne DEF IInv, Types
    <2>2. /\ Touched
          /\ \A g \in DOMAIN subs :
               /\ subs'[g].finished = subs[g].finished /\ subs'[g].consumed = subs[g].consumed
               /\ subs'[g].ready = IF g \in {Gen(b)} THEN None ELSE subs[g].ready
      BY <2>1, TakenSubs DEF IInv, Types
    <2>3. \A g \in DOMAIN subs : subs'[g].ready = None \/ subs'[g].ready = subs[g].ready
      BY <2>2
    <2>. QED  BY <2>2, <2>3, Zenon
  <1>4. scan' = [todo |-> scan.todo \ {b}, bank |-> b, rows |-> subs[Gen(b)].ready]
    BY <1>1 DEF Rest, NoScan
  <1>5. subs[Gen(b)].ready \in {None} \cup SUBSET Rows
    BY <1>2, SubsFacts, RecordFields DEF IInv, Types
  <1>6. OwnerInv' /\ FillInv' /\ HandlerInv'
    <2>1. pos.f <= pos'.f /\ pos.f \in Int /\ pos'.f \in Int
      BY ModeFacts DEF IInv, Types
    <2>. QED  BY <1>3, <2>1, TakeFills, TakeHandlers DEF IInv
  <1>7. Types'
    BY <1>3, <1>4, <1>5 DEF IInv, Types, Touched, NF
  <1>8. \A g \in DOMAIN subs : \A p : RowOK(g, p) => RowOK(g, p)'
    BY <1>3, RowStaysOK
  <1>9. ScanInv'
    <2>. DEFINE rows == subs[Gen(b)].ready
    <2>1. ASSUME rows # None, NEW p \in rows, NEW g, g = Gen(b)
          PROVE  RowOK(g, p)'
      <3>1. g \in DOMAIN subs /\ subs[g].ready = rows
        BY <1>2, <2>1
      <3>2. RowOK(g, p)
        BY <2>1, <3>1 DEF IInv, FillInv
      <3>. QED  BY <1>8, <3>1, <3>2
    <2>2. /\ scan'.todo = scan.todo \ {b} /\ scan'.bank = b /\ scan'.rows = rows
      BY <1>4
    <2>. HIDE DEF rows
    <2>3. scan.rows' # None => \A p \in scan.rows' : RowOK(Gen(scan.bank), p)'
      BY <2>1, <2>2 DEF Gen, RowOK
    <2>4. /\ b \notin scan'.todo /\ pc' = pc /\ pos' = pos /\ owner' = owner
          /\ pc \in {"reap", "take"}
          /\ scan'.todo \cup ({scan'.bank} \ {None}) \subseteq scan.todo
      BY <1>2, <2>2
    <2>5. /\ \A c \in scan.todo :
                /\ owner[c] # None
                /\ pc = "reap" => owner[c].st \in {"missed", "attached"}
                /\ pc = "take" => owner[c].layer = pos.l
      BY DEF IInv, ScanInv
    <2>. QED  BY <1>1, <2>2, <2>3, <2>4, <2>5 DEF ScanInv
  <1>10. LeaseInv'
    <2>1. ASSUME NEW x \in leases, NEW g, g = Gen(x.bank)
          PROVE  /\ \A p \in x.rows : RowOK(g, p)'
                 /\ x.fin => ~Active(g)'
      <3>1. x.bank \in Banks /\ owner[x.bank] # None
        BY DEF IInv, Types, LeaseInv
      <3>2. g \in DOMAIN subs
        BY <2>1, <3>1 DEF IInv, OwnerInv
      <3>3. Active(g)' = Active(g)
        BY <1>3, <3>2 DEF Active, Touched, Same
      <3>. QED  BY <1>8, <2>1, <3>2, <3>3 DEF IInv, LeaseInv
    <2>. QED  BY <2>1 DEF IInv, LeaseInv, Gen, RowOK, Active
  <1>. QED  BY <1>6, <1>7, <1>9, <1>10 DEF IInv, CopiedBytes

LEMMA StepReapMissed ==
    ASSUME IInv, ReapMissed
    PROVE  IInv'
  <1>. USE DEF ReapMissed
  <1>1. PICK b \in Banks :
          /\ TakenFrom(b)
          /\ Released(IF subs[Gen(b)].finished THEN {b} ELSE {})
          /\ copied' = IF mode.late /\ scan.rows \notin {None, {}}
                          THEN Bytes(owner[b].layer, b, scan.rows) ELSE copied
    OBVIOUS
  <1>. DEFINE B == IF subs[Gen(b)].finished THEN {b} ELSE {}
  <1>2. /\ scan.bank = b /\ b # None /\ b \notin scan.todo
        /\ owner[b] # None /\ owner[b].st = "missed" /\ Gen(b) \in DOMAIN subs
    BY <1>1, ConstantFacts DEF TakenFrom, IInv, ScanInv, OwnerInv
  <1>3. B \in SUBSET Banks /\ Released(B)
    BY <1>1
  <1>4. \A c \in B : c = b /\ owner[c] # None /\ ~Active(Gen(c)) /\ owner[c].st # "attached"
    BY <1>2 DEF IInv, FillInv
  <1>. HIDE DEF B
  <1>5. /\ owner' \in [Banks -> {None} \cup Owners]
        /\ OwnerInv' /\ FillInv'
        /\ \A c \in Banks : c \notin B => owner'[c] = owner[c]
    BY <1>3, <1>4, ReleaseFills DEF IInv
  <1>6. Touched
    BY <1>3, ReleasedSubs DEF IInv, Types
  <1>7. scan' = [todo |-> scan.todo, bank |-> None, rows |-> None]
    BY <1>1 DEF TakenFrom, IInv, Types
  <1>8. Types'
    BY <1>5, <1>6, <1>7 DEF IInv, Types, Touched, NF
  <1>9. ScanInv'
    <2>1. scan.todo \subseteq Banks
      BY DEF IInv, Types
    <2>2. \A c \in scan.todo : owner'[c] = owner[c]
      BY <1>2, <1>4, <1>5, <2>1
    <2>3. /\ scan'.todo = scan.todo /\ scan'.bank = None /\ None \notin scan.todo
          /\ pc' = "reap" /\ pc = "reap"
      BY <1>7, <2>1, ConstantFacts
    <2>. QED  BY <2>2, <2>3 DEF IInv, ScanInv
  <1>10. LeaseInv'
    BY DEF IInv, LeaseInv
  <1>11. HandlerInv'
    <2>1. pos.f <= pos'.f
      BY ModeFacts DEF IInv, Types
    <2>. QED  BY <1>3, <1>4, <2>1, ReleaseHandlers DEF IInv
  <1>12. CopiedBytes'
    <2>1. CASE mode.late /\ scan.rows \notin {None, {}}
      <3>1. copied' = {<<owner[b].layer, p[1], bytes[b][p[2]]>> : p \in scan.rows}
        BY <1>1, <2>1 DEF Bytes
      <3>2. \A p \in scan.rows : bytes[b][p[2]] = <<owner[b].layer, p[1]>>
        BY <1>2, <2>1, SMTT(20) DEF IInv, ScanInv, RowOK, OwnerInv
      <3>3. ASSUME NEW c \in copied' PROVE c[3] = <<c[1], c[2]>>
        <4>1. PICK p \in scan.rows : c = <<owner[b].layer, p[1], bytes[b][p[2]]>>
          BY <3>1, <3>3
        <4>. QED  BY <3>2, <4>1
      <3>. QED  BY <3>3 DEF CopiedBytes
    <2>2. CASE ~(mode.late /\ scan.rows \notin {None, {}})
      BY <1>1, <2>2 DEF IInv, CopiedBytes
    <2>. QED  BY <2>1, <2>2
  <1>. QED  BY <1>5, <1>8, <1>9, <1>10, <1>11, <1>12 DEF IInv

\* A submission in a free bank: a new generation, older ones keep theirs.
LEMMA BindFacts ==
    ASSUME IInv, NEW b \in Banks, owner[b] = None, NEW rec \in Subs, NEW own \in Owners,
           owner' = [owner EXCEPT ![b] = own], own.gen = Len(subs) + 1,
           subs' = Append(subs, rec), UNCHANGED bytes,
           rec.bank = b, rec.st = "queued", rec.rows = {}, ~rec.writing, rec.ready = None,
           ~rec.finished, ~rec.consumed, rec.t = <<own.fwd, own.layer>>
    PROVE  /\ owner' \in [Banks -> {None} \cup Owners] /\ subs' \in Seq(Subs)
           /\ OwnerInv' /\ FillInv'
           /\ UNCHANGED <<mode, pos, h>> /\ pc' \notin {"wait", "take"} => HandlerInv'
  <1>. DEFINE n == Len(subs) + 1
  <1>. USE DEF Types, IInv
  <1>1. /\ Len(subs) \in Nat /\ DOMAIN subs = 1 .. Len(subs) /\ n \notin DOMAIN subs
        /\ \A g \in DOMAIN subs : subs[g] \in Subs
    BY SubsFacts
  <1>2. /\ subs' \in Seq(Subs) /\ Len(subs') = n /\ subs'[n] = rec
        /\ \A g \in DOMAIN subs : subs'[g] = subs[g]
    BY <1>1, AppendProperties
  <1>3. DOMAIN subs' = 1 .. n /\ DOMAIN subs' = DOMAIN subs \cup {n}
    BY <1>1, <1>2, LenProperties
  <1>4. /\ owner' \in [Banks -> {None} \cup Owners]
        /\ owner'[b] = own /\ own # None
        /\ \A c \in Banks : c # b => owner'[c] = owner[c]
    BY ConstantFacts
  <1>. HIDE DEF n
  <1>5. OwnerInv'
    <2>1. SUFFICES ASSUME NEW c \in Banks, owner'[c] # None, NEW g, g = owner'[c].gen
                   PROVE  /\ g \in DOMAIN subs' /\ subs'[g].bank = c
                          /\ subs'[g].t = <<owner'[c].fwd, owner'[c].layer>>
                          /\ owner'[c].st = "reserved" => ~subs'[g].consumed
      BY DEF OwnerInv, Gen
    <2>2. CASE c = b
      <3>1. g = n /\ subs'[g] = rec
        BY <1>2, <1>4, <2>1, <2>2 DEF n
      <3>2. ~subs'[g].consumed
        BY <3>1, Zenon
      <3>. QED  BY <1>3, <1>4, <2>2, <3>1, <3>2
    <2>3. CASE c # b
      <3>1. owner'[c] = owner[c] /\ g = Gen(c)
        BY <1>4, <2>1, <2>3 DEF Gen
      <3>2. /\ g \in DOMAIN subs /\ subs[g].bank = c /\ subs[g].t = <<owner[c].fwd, owner[c].layer>>
            /\ owner[c].st = "reserved" => ~subs[g].consumed
        BY <2>1, <3>1 DEF OwnerInv
      <3>. QED  BY <1>2, <1>3, <3>1, <3>2
    <2>. QED  BY <2>2, <2>3
  <1>6. ASSUME NEW g \in DOMAIN subs
        PROVE  /\ Held(g) => Held(g)' /\ owner'[subs[g].bank] = owner[subs[g].bank]
               /\ \A p : RowOK(g, p) => RowOK(g, p)'
    BY <1>1, <1>2, <1>4, RecordFields DEF Held, Gen, RowOK
  <1>7. FillInv'
    <2>1. SUFFICES ASSUME NEW g \in DOMAIN subs'
                   PROVE  /\ Active(g)' => Held(g)' /\ ~subs'[g].finished
                          /\ subs'[g].writing => subs'[g].st = "reading" /\ subs'[g].rows # {}
                          /\ \A p, q \in subs'[g].rows : p[2] = q[2] => p = q
                          /\ subs'[g].ready # None => Held(g)' /\ \A p \in subs'[g].ready : RowOK(g, p)'
      BY DEF FillInv
    <2>2. CASE g = n
      <3>1. subs'[g] = rec /\ owner'[b].gen = g
        BY <1>2, <1>4, <2>2 DEF n
      <3>2. Held(g)'
        BY <1>4, <3>1 DEF Held, Gen
      <3>3. ~subs'[g].finished /\ ~subs'[g].writing
        BY <3>1, Zenon
      <3>. QED  BY <3>1, <3>2, <3>3
    <2>3. CASE g \in DOMAIN subs
      <3>1. subs'[g] = subs[g]
        BY <1>2, <2>3
      <3>. QED  BY <1>6, <2>3, <3>1 DEF FillInv, Active
    <2>. QED  BY <1>3, <2>2, <2>3
  <1>8. ASSUME UNCHANGED <<mode, pos, h>>, pc' \notin {"wait", "take"}
        PROVE  HandlerInv'
    <2>1. ASSUME NEW t \in Targets, NEW g \in h[t].gens
          PROVE  /\ g \in DOMAIN subs' /\ subs'[g].t = t
                 /\ \A c \in Banks : owner'[c] # None /\ Gen(c)' = g => owner'[c].st # "reserved"
                 /\ h[t].st \in {"queued", "taken"} =>
                     Held(g)' /\ owner'[subs'[g].bank].st = "attached" /\ ~subs'[g].consumed
      <3>1. g \in DOMAIN subs /\ subs[g].t = t
        BY DEF HandlerInv
      <3>2. subs'[g] = subs[g] /\ g \in DOMAIN subs'
        BY <1>2, <1>3, <3>1
      <3>3. ASSUME NEW c \in Banks, owner'[c] # None, Gen(c)' = g
            PROVE  owner'[c].st # "reserved"
        <4>1. c # b
          BY <1>1, <1>4, <3>1, <3>3 DEF Gen, n
        <4>2. owner'[c] = owner[c]
          BY <1>4, <4>1
        <4>. QED  BY <3>3, <4>2 DEF HandlerInv, Gen
      <3>. QED  BY <1>6, <3>1, <3>2, <3>3 DEF HandlerInv
    <2>2. ASSUME NEW t \in Targets, NEW x \in h[t].rows
          PROVE  h[t].st = "taken" /\ x[1] \in h[t].gens /\ RowOK(x[1], x[2])'
      BY <1>6 DEF HandlerInv
    <2>. QED  BY <1>8, <2>1, <2>2 DEF HandlerInv
  <1>. QED  BY <1>2, <1>4, <1>5, <1>7, <1>8

LEMMA StepBind ==
    ASSUME IInv, Bind
    PROVE  IInv'
  <1>. USE DEF Bind
  <1>1. pc = "reap" /\ pc' = "build" /\ Scanned /\ scan' = scan /\ leases' = leases
    OBVIOUS
  <1>2. ScanInv'
    BY <1>1 DEF IInv, ScanInv, Scanned
  <1>3. LeaseInv'
    BY <1>1 DEF IInv, LeaseInv
  <1>4. CASE UNCHANGED <<owner, subs, tgt>>
    <2>1. Types'
      BY <1>4, ModeFacts DEF IInv, Types, NF
    <2>2. OwnerInv' /\ FillInv' /\ CopiedBytes'
      BY <1>4, Quiet DEF IInv
    <2>3. HandlerInv'
      BY <1>4, QuietHandlers, ModeFacts DEF IInv, Types
    <2>. QED  BY <1>2, <1>3, <2>1, <2>2, <2>3 DEF IInv
  <1>5. CASE \E b \in {x \in Banks : owner[x] = None} :
               /\ owner' = [owner EXCEPT ![b] =
                     [layer |-> arg.t[2], gen |-> Len(subs) + 1, st |-> "reserved", fwd |-> arg.t[1]]]
               /\ subs' = Append(subs,
                     [t |-> arg.t, prio |-> arg.prio, bank |-> b, ids |-> arg.ids, st |-> "queued",
                      rows |-> {}, writing |-> FALSE,
                      ready |-> None, finished |-> FALSE, consumed |-> FALSE])
    <2>1. PICK b \in Banks :
             /\ owner[b] = None
             /\ owner' = [owner EXCEPT ![b] =
                   [layer |-> arg.t[2], gen |-> Len(subs) + 1, st |-> "reserved", fwd |-> arg.t[1]]]
             /\ subs' = Append(subs,
                   [t |-> arg.t, prio |-> arg.prio, bank |-> b, ids |-> arg.ids, st |-> "queued",
                    rows |-> {}, writing |-> FALSE,
                    ready |-> None, finished |-> FALSE, consumed |-> FALSE])
      BY <1>5
    <2>2. arg.t \in Targets /\ arg.prio \in Nat /\ arg.ids \in Seq(Experts) /\ Len(subs) \in Nat
      BY <1>1, SubsFacts DEF IInv, Types
    <2>3. arg.t[1] \in Nat /\ arg.t[2] \in Nat /\ arg.t = <<arg.t[1], arg.t[2]>>
      BY <2>2, ConstantFacts DEF Targets
    <2>. DEFINE own == [layer |-> arg.t[2], gen |-> Len(subs) + 1, st |-> "reserved", fwd |-> arg.t[1]]
                rec == [t |-> arg.t, prio |-> arg.prio, bank |-> b, ids |-> arg.ids, st |-> "queued",
                        rows |-> {}, writing |-> FALSE,
                        ready |-> None, finished |-> FALSE, consumed |-> FALSE]
    <2>4. own \in Owners /\ own.gen = Len(subs) + 1 /\ own.fwd = arg.t[1] /\ own.layer = arg.t[2]
      BY <2>2, <2>3 DEF Owners
    <2>5. rec \in Subs
      BY <2>2 DEF Subs, FillStates
    <2>6. /\ rec.bank = b /\ rec.st = "queued" /\ rec.rows = {} /\ ~rec.writing /\ rec.ready = None
          /\ ~rec.finished /\ ~rec.consumed /\ rec.t = arg.t
      OBVIOUS
    <2>7. owner' = [owner EXCEPT ![b] = own] /\ subs' = Append(subs, rec)
      BY <2>1
    <2>. HIDE DEF own, rec
    <2>8. rec.t = <<own.fwd, own.layer>>
      BY <2>3, <2>4, <2>6
    <2>9. /\ owner' \in [Banks -> {None} \cup Owners] /\ subs' \in Seq(Subs)
          /\ OwnerInv' /\ FillInv' /\ HandlerInv'
      BY <1>1, <2>1, <2>4, <2>5, <2>6, <2>7, <2>8, BindFacts, ZenonT(30)
    <2>10. Types'
      BY <1>1, <2>9 DEF IInv, Types, NF
    <2>. QED  BY <1>2, <1>3, <2>9, <2>10 DEF IInv, CopiedBytes
  <1>. QED  BY <1>4, <1>5

\* A change of state of some banks, which no handler waits for, is no more
\* than that: everybody keeps his bank.
LEMMA Marked ==
    ASSUME Types, OwnerInv, FillInv, UNCHANGED <<subs, bytes>>,
           owner' \in [Banks -> {None} \cup Owners],
           \A b \in Banks :
               /\ owner'[b] = None <=> owner[b] = None
               /\ owner[b] # None =>
                    /\ owner'[b].gen = owner[b].gen /\ owner'[b].layer = owner[b].layer
                    /\ owner'[b].fwd = owner[b].fwd
                    /\ owner'[b].st = "reserved" => owner[b].st = "reserved"
    PROVE  /\ OwnerInv' /\ FillInv'
           /\ \A g \in DOMAIN subs : Held(g) => Held(g)'
           /\ \A b \in Banks : owner'[b] # None => owner[b] # None /\ Gen(b)' = Gen(b)
  <1>. USE DEF Types
  <1>1. \A g \in DOMAIN subs : subs[g].bank \in Banks
    BY SubsFacts, RecordFields
  <1>2. \A g \in DOMAIN subs : Held(g) => Held(g)'
    BY <1>1 DEF Held, Gen
  <1>3. OwnerInv'
    BY DEF OwnerInv, Gen
  <1>4. FillInv'
    BY <1>2 DEF FillInv, Active, RowOK
  <1>. QED  BY <1>2, <1>3, <1>4 DEF Gen

LEMMA StepTakeReady ==
    ASSUME IInv, TakeReady
    PROVE  IInv'
  <1>. USE DEF TakeReady
  <1>1. PICK b \in Banks :
          /\ TakenFrom(b)
          /\ owner' = IF scan.rows # None /\ subs[Gen(b)].finished THEN owner
                      ELSE [owner EXCEPT ![b].st = "missed"]
          /\ leases' = IF scan.rows = None THEN leases
                       ELSE leases \cup {[bank |-> b, rows |-> scan.rows,
                                          fin |-> scan.rows # None /\ subs[Gen(b)].finished]}
    OBVIOUS
  <1>2. /\ scan.bank = b /\ b # None /\ b \notin scan.todo /\ pc = "take"
        /\ owner[b] # None /\ owner[b].layer = pos.l /\ Gen(b) \in DOMAIN subs
        /\ scan.rows # None => scan.rows \in SUBSET Rows /\ \A p \in scan.rows : RowOK(Gen(b), p)
    BY <1>1, ConstantFacts DEF TakenFrom, IInv, ScanInv, OwnerInv, Types
  <1>3. scan' = [todo |-> scan.todo, bank |-> None, rows |-> None]
    BY <1>1 DEF TakenFrom, IInv, Types
  <1>4. /\ owner' \in [Banks -> {None} \cup Owners]
        /\ \A c \in Banks :
             /\ owner'[c] = None <=> owner[c] = None
             /\ owner[c] # None =>
                  /\ owner'[c].gen = owner[c].gen /\ owner'[c].layer = owner[c].layer
                  /\ owner'[c].fwd = owner[c].fwd
                  /\ owner'[c].st = "reserved" => owner[c].st = "reserved"
    <2>1. owner \in [Banks -> {None} \cup Owners] /\ owner[b] \in Owners
      BY <1>2 DEF IInv, Types
    <2>. DEFINE o == [owner[b] EXCEPT !.st = "missed"]
    <2>2. /\ o \in Owners /\ o.gen = owner[b].gen /\ o.layer = owner[b].layer /\ o.fwd = owner[b].fwd
          /\ o.st = "missed"
      BY <2>1 DEF Owners
    <2>3. owner' = owner \/ owner' = [owner EXCEPT ![b] = o]
      BY <1>1, <2>1
    <2>4. o # None /\ owner[b] # None
      BY <2>1, <2>2, ConstantFacts
    <2>. HIDE DEF o
    <2>. QED  BY <2>1, <2>2, <2>3, <2>4
  <1>5. /\ OwnerInv' /\ FillInv'
        /\ \A c \in Banks : owner'[c] # None => owner[c] # None /\ Gen(c)' = Gen(c)
    BY <1>4, Marked DEF IInv
  <1>. DEFINE new == [bank |-> b, rows |-> scan.rows, fin |-> scan.rows # None /\ subs[Gen(b)].finished]
  <1>6. /\ scan.rows # None => new \in [bank : Banks, rows : SUBSET Rows, fin : BOOLEAN]
        /\ new.bank = b /\ new.rows = scan.rows
        /\ new.fin => subs[Gen(b)].finished
    BY <1>2
  <1>7. leases' \subseteq leases \cup {new} /\ (scan.rows = None => leases' = leases)
    BY <1>1
  <1>. HIDE DEF new
  <1>8. Types'
    BY <1>3, <1>4, <1>6, <1>7 DEF IInv, Types, NF
  <1>9. ScanInv'
    <2>1. scan.todo \subseteq Banks /\ None \notin scan.todo
      BY ConstantFacts DEF IInv, Types
    <2>2. \A c \in scan.todo : owner'[c] # None /\ owner'[c].layer = pos.l
      BY <1>2, <1>4, <2>1 DEF IInv, ScanInv
    <2>. QED  BY <1>2, <1>3, <2>1, <2>2 DEF ScanInv
  <1>10. LeaseInv'
    <2>1. SUFFICES ASSUME NEW x \in leases', NEW g, g = Gen(x.bank)'
                   PROVE  /\ pc' = "take"
                          /\ owner'[x.bank] # None /\ owner'[x.bank].layer = pos.l
                          /\ \A p \in x.rows : RowOK(g, p)'
                          /\ x.fin => ~Active(g)'
      BY DEF LeaseInv, Gen, RowOK, Active
    <2>2. /\ x.bank \in Banks /\ owner[x.bank] # None /\ owner[x.bank].layer = pos.l
          /\ \A p \in x.rows : RowOK(Gen(x.bank), p)
          /\ x.fin => ~Active(Gen(x.bank))
      <3>1. CASE x \in leases
        BY <3>1 DEF IInv, LeaseInv, Types
      <3>2. CASE x = new /\ scan.rows # None
        BY <1>2, <1>6, <3>2 DEF IInv, FillInv
      <3>. QED  BY <1>7, <3>1, <3>2
    <2>3. owner'[x.bank] # None /\ owner'[x.bank].layer = pos.l /\ g = Gen(x.bank)
      BY <1>4, <1>5, <2>1, <2>2
    <2>. QED  BY <1>2, <2>2, <2>3 DEF RowOK, Active
  <1>11. HandlerInv'
    <2>1. \A t \in Targets : h[t].st \notin Live
      BY <1>2 DEF IInv, HandlerInv
    <2>. QED  BY <1>4, <1>5, <2>1 DEF IInv, HandlerInv, Live
  <1>. QED  BY <1>5, <1>8, <1>9, <1>10, <1>11 DEF IInv, CopiedBytes

LEMMA StepSyncCopy ==
    ASSUME IInv, SyncCopy
    PROVE  IInv'
  <1>. USE DEF SyncCopy
  <1>. DEFINE B == {x.bank : x \in {y \in leases : y.fin}}
  <1>1. pc = "take" /\ Scanned /\ scan' = scan /\ leases' = {} /\ Released(B)
    OBVIOUS
  <1>2. B \in SUBSET Banks /\ \A b \in B : owner[b] # None /\ ~Active(Gen(b))
    BY DEF IInv, LeaseInv, Types
  <1>. HIDE DEF B
  <1>3. /\ owner' \in [Banks -> {None} \cup Owners]
        /\ OwnerInv' /\ FillInv'
        /\ \A b \in Banks : b \notin B => owner'[b] = owner[b]
    BY <1>1, <1>2, ReleaseFills DEF IInv
  <1>4. Touched
    BY <1>1, ReleasedSubs DEF IInv, Types
  <1>5. /\ pos' \in [f : 1 .. NF, l : 1 .. NL] /\ pc' \in {"build", "over"} /\ pos.f <= pos'.f
    BY AdvanceFacts DEF IInv, Types
  <1>6. /\ h' \in [Targets -> [st : Live \cup {"none", "done", "failed", "plain"},
                               gens : SUBSET Nat, rows : SUBSET (Nat \X Rows)]]
        /\ \A t \in Targets : /\ h'[t].gens = h[t].gens /\ h'[t].rows = h[t].rows
                              /\ h'[t].st \in Live => h[t].st \in Live
    <2>1. h \in [Targets -> [st : Live \cup {"none", "done", "failed", "plain"},
                             gens : SUBSET Nat, rows : SUBSET (Nat \X Rows)]]
      BY DEF IInv, Types
    <2>2. PICK s \in {"done", "plain"} : h' = [h EXCEPT ![Here].st = s]
      OBVIOUS
    <2>3. ASSUME NEW t \in Targets
          PROVE  /\ h'[t] \in [st : Live \cup {"none", "done", "failed", "plain"},
                               gens : SUBSET Nat, rows : SUBSET (Nat \X Rows)]
                 /\ h'[t].gens = h[t].gens /\ h'[t].rows = h[t].rows
                 /\ h'[t].st \in Live => h[t].st \in Live
      <3>1. h[t] \in [st : Live \cup {"none", "done", "failed", "plain"},
                      gens : SUBSET Nat, rows : SUBSET (Nat \X Rows)]
        BY <2>1
      <3>2. h'[t] = h[t] \/ h'[t] = [h[t] EXCEPT !.st = s]
        BY <2>1, <2>2
      <3>. QED  BY <3>1, <3>2 DEF Live
    <2>4. DOMAIN h' = Targets /\ h' = [t \in Targets |-> h'[t]]
      BY <2>1, <2>2
    <2>. QED  BY <2>3, <2>4
  <1>7. Types'
    BY <1>1, <1>3, <1>4, <1>5, <1>6 DEF IInv, Types, Touched, NF
  <1>8. ScanInv'
    BY <1>1, <1>5 DEF IInv, ScanInv, Scanned
  <1>9. LeaseInv'
    BY <1>1 DEF LeaseInv
  <1>10. HandlerInv'
    <2>1. \A t \in Targets : h[t].st \notin Live /\ h[t].rows = {}
      BY <1>1 DEF IInv, HandlerInv, Live
    <2>2. \A b \in Banks : owner'[b] = None \/ owner'[b] = owner[b]
      BY <1>1, <1>3 DEF Released
    <2>3. ASSUME NEW t \in Targets, NEW g \in h[t].gens
          PROVE  /\ g \in DOMAIN subs' /\ subs'[g].t = t
                 /\ \A b \in Banks : owner'[b] # None /\ Gen(b)' = g => owner'[b].st # "reserved"
      BY <1>4, <2>2 DEF IInv, HandlerInv, Touched, Same, Gen
    <2>. QED  BY <1>6, <2>1, <2>3 DEF HandlerInv, Live
  <1>11. CopiedBytes'
    <2>1. ASSUME NEW c \in copied' PROVE c[3] = <<c[1], c[2]>>
      <3>1. PICK x \in leases : c \in Bytes(pos.l, x.bank, x.rows)
        BY <2>1
      <3>2. PICK p \in x.rows : c = <<pos.l, p[1], bytes[x.bank][p[2]]>>
        BY <3>1 DEF Bytes
      <3>3. /\ x.bank \in Banks /\ owner[x.bank] # None /\ owner[x.bank].layer = pos.l
            /\ RowOK(Gen(x.bank), p)
        BY DEF IInv, LeaseInv, Types
      <3>4. bytes[x.bank][p[2]] = <<pos.l, p[1]>>
        BY <3>3 DEF IInv, OwnerInv, RowOK
      <3>. QED  BY <3>2, <3>4
    <2>. QED  BY <2>1 DEF CopiedBytes
  <1>. QED  BY <1>3, <1>7, <1>8, <1>9, <1>10, <1>11 DEF IInv

\* The banks a handler is given are of its target, and nobody else's.
LEMMA StepAttach ==
    ASSUME IInv, Attach
    PROVE  IInv'
  <1>. USE DEF Attach
  <1>. DEFINE B == {b \in Owned : owner[b].layer = pos.l /\ owner[b].st = "reserved" /\ owner[b].fwd = pos.f}
              new == [st |-> "queued", gens |-> {Gen(b) : b \in B}, rows |-> {}]
  <1>1. /\ pc = "build" /\ Kind = "async" /\ pos.l > 1
        /\ owner' = [b \in Banks |-> IF b \in B THEN [owner[b] EXCEPT !.st = "attached"] ELSE owner[b]]
        /\ h' = [h EXCEPT ![Here] = new]
    BY DEF Building
  <1>2. \A b \in B : /\ b \in Banks /\ owner[b] # None /\ owner[b] \in Owners
                     /\ owner[b].layer = pos.l /\ owner[b].st = "reserved" /\ owner[b].fwd = pos.f
    BY DEF Owned, IInv, Types
  <1>3. Here \in Targets /\ Here = <<pos.f, pos.l>> /\ Here[1] = pos.f
    BY <1>1, HereFacts DEF IInv, Types, Here
  <1>4. new.st = "queued" /\ new.gens = {Gen(b) : b \in B} /\ new.rows = {}
    OBVIOUS
  <1>5. new.gens \subseteq DOMAIN subs /\ DOMAIN subs \subseteq Nat
    BY <1>2, SubsFacts DEF IInv, OwnerInv, Types
  <1>6. new \in [st : Live \cup {"none", "done", "failed", "plain"},
                 gens : SUBSET Nat, rows : SUBSET (Nat \X Rows)]
    BY <1>5 DEF Live
  <1>. HIDE DEF B, new
  <1>7. \A b \in B : /\ [owner[b] EXCEPT !.st = "attached"] \in Owners
                     /\ [owner[b] EXCEPT !.st = "attached"].gen = owner[b].gen
                     /\ [owner[b] EXCEPT !.st = "attached"].layer = owner[b].layer
                     /\ [owner[b] EXCEPT !.st = "attached"].fwd = owner[b].fwd
                     /\ [owner[b] EXCEPT !.st = "attached"].st = "attached"
    BY <1>2 DEF Owners
  <1>8. \A b \in Banks : IF b \in B THEN /\ owner'[b] \in Owners /\ owner'[b] # None
                                         /\ owner'[b].gen = owner[b].gen
                                         /\ owner'[b].layer = owner[b].layer
                                         /\ owner'[b].fwd = owner[b].fwd
                                         /\ owner'[b].st = "attached"
                         ELSE owner'[b] = owner[b]
    <2>1. ASSUME NEW b \in B
          PROVE  /\ owner'[b] \in Owners /\ owner'[b].gen = owner[b].gen
                 /\ owner'[b].layer = owner[b].layer
                 /\ owner'[b].fwd = owner[b].fwd
                 /\ owner'[b].st = "attached"
      <3>1. owner'[b] = [owner[b] EXCEPT !.st = "attached"]
        BY <1>1, <1>2
      <3>. QED  BY <1>7, <3>1
    <2>2. \A b \in Banks : b \notin B => owner'[b] = owner[b]
      BY <1>1
    <2>. QED  BY <2>1, <2>2, ConstantFacts
  <1>9. owner' \in [Banks -> {None} \cup Owners]
    BY <1>1, <1>8 DEF IInv, Types
  <1>10. /\ OwnerInv' /\ FillInv'
         /\ \A g \in DOMAIN subs : Held(g) => Held(g)'
         /\ \A b \in Banks : owner'[b] # None => owner[b] # None /\ Gen(b)' = Gen(b)
    BY <1>2, <1>8, <1>9, Marked DEF IInv
  <1>11. /\ pos' \in [f : 1 .. NF, l : 1 .. NL] /\ pc' \in {"build", "over"} /\ pos.f <= pos'.f
    BY AdvanceFacts DEF IInv, Types
  <1>12. Types'
    <2>1. h' \in [Targets -> [st : Live \cup {"none", "done", "failed", "plain"},
                              gens : SUBSET Nat, rows : SUBSET (Nat \X Rows)]]
      BY <1>1, <1>6, ZenonT(30) DEF IInv, Types
    <2>. QED  BY <1>9, <1>11, <2>1 DEF IInv, Types, NF
  <1>13. ScanInv'
    BY <1>1, <1>11 DEF IInv, ScanInv, Scanned
  <1>14. LeaseInv'
    BY <1>1 DEF IInv, LeaseInv
  <1>15. HandlerInv'
    <2>1. pos.f \in Int /\ pos'.f \in Int
      BY <1>11, ModeFacts DEF IInv, Types
    <2>2. /\ \A t \in Targets : t # Here => h'[t] = h[t]
          /\ h'[Here] = new
      BY <1>1, <1>3 DEF IInv, Types
    <2>3. ASSUME NEW t \in Targets, t # Here
          PROVE  /\ h'[t].st \in Live => t[1] <= pos'.f /\ mode.kinds[t[1]] = "async"
                 /\ \A g \in h'[t].gens :
                     /\ g \in DOMAIN subs /\ subs[g].t = t
                     /\ \A b \in Banks : owner'[b] # None /\ Gen(b)' = g => owner'[b].st # "reserved"
                     /\ h'[t].st \in {"queued", "taken"} =>
                         Held(g)' /\ owner'[subs[g].bank].st = "attached" /\ ~subs[g].consumed
                 /\ \A x \in h'[t].rows : h'[t].st = "taken" /\ x[1] \in h'[t].gens /\ RowOK(x[1], x[2])'
      <3>1. h'[t] = h[t] /\ t[1] \in Int
        BY <2>2, <2>3 DEF Targets
      <3>2. ASSUME NEW g \in h[t].gens
            PROVE  /\ g \in DOMAIN subs /\ subs[g].t = t
                   /\ \A b \in Banks : owner'[b] # None /\ Gen(b)' = g => owner'[b].st # "reserved"
                   /\ h[t].st \in {"queued", "taken"} =>
                       Held(g)' /\ owner'[subs[g].bank].st = "attached" /\ ~subs[g].consumed
        <4>1. /\ g \in DOMAIN subs /\ subs[g].t = t /\ subs[g].bank \in Banks
              /\ \A b \in Banks : owner[b] # None /\ Gen(b) = g => owner[b].st # "reserved"
              /\ h[t].st \in {"queued", "taken"} => ~subs[g].consumed
          BY SubsFacts, RecordFields DEF IInv, HandlerInv, Types
        <4>2. h[t].st \in {"queued", "taken"} => Held(g) /\ owner[subs[g].bank].st = "attached"
          BY DEF IInv, HandlerInv
        <4>3. \A b \in Banks : owner'[b] # None /\ Gen(b)' = g => owner'[b].st # "reserved"
          BY <1>8, <1>10, <4>1
        <4>4. h[t].st \in {"queued", "taken"} => Held(g)' /\ owner'[subs[g].bank].st = "attached"
          BY <1>8, <1>10, <4>1, <4>2
        <4>. QED  BY <4>1, <4>3, <4>4
      <3>3. h[t].st \in Live => t[1] <= pos'.f /\ mode.kinds[t[1]] = "async"
        BY <1>11, <2>1, <3>1 DEF IInv, HandlerInv
      <3>4. \A x \in h[t].rows : h[t].st = "taken" /\ x[1] \in h[t].gens /\ RowOK(x[1], x[2])'
        BY DEF IInv, HandlerInv, RowOK
      <3>. QED  BY <3>1, <3>2, <3>3, <3>4
    <2>4. ASSUME NEW g \in new.gens
          PROVE  /\ g \in DOMAIN subs /\ subs[g].t = Here
                 /\ \A b \in Banks : owner'[b] # None /\ Gen(b)' = g => owner'[b].st # "reserved"
                 /\ Held(g)' /\ owner'[subs[g].bank].st = "attached" /\ ~subs[g].consumed
      <3>1. PICK b \in B : g = Gen(b)
        BY <1>4
      <3>2. /\ g \in DOMAIN subs /\ subs[g].bank = b /\ subs[g].t = Here /\ ~subs[g].consumed
        BY <1>2, <1>3, <3>1 DEF IInv, OwnerInv
      <3>3. Held(g)' /\ owner'[b].st = "attached"
        <4>1. Held(g)
          BY <1>2, <3>1, <3>2 DEF Held
        <4>. QED  BY <1>2, <1>8, <1>10, <3>2, <4>1
      <3>4. ASSUME NEW c \in Banks, owner'[c] # None, Gen(c)' = g
            PROVE  owner'[c].st # "reserved"
        <4>1. c = b
          BY <1>10, <3>2, <3>4 DEF IInv, OwnerInv
        <4>. QED  BY <3>3, <4>1
      <3>. QED  BY <3>2, <3>3, <3>4
    <2>5. Here[1] <= pos'.f /\ mode.kinds[Here[1]] = "async"
      BY <1>1, <1>3, <1>11 DEF Kind
    <2>6. pc' \notin {"wait", "take"} /\ subs' = subs /\ mode' = mode
      BY <1>11
    <2>7. ASSUME NEW t \in Targets
          PROVE  /\ h'[t].st \in Live => t[1] <= pos'.f /\ mode.kinds[t[1]] = "async"
                 /\ \A g \in h'[t].gens :
                     /\ g \in DOMAIN subs /\ subs[g].t = t
                     /\ \A b \in Banks : owner'[b] # None /\ Gen(b)' = g => owner'[b].st # "reserved"
                     /\ h'[t].st \in {"queued", "taken"} =>
                         Held(g)' /\ owner'[subs[g].bank].st = "attached" /\ ~subs[g].consumed
                 /\ \A x \in h'[t].rows : h'[t].st = "taken" /\ x[1] \in h'[t].gens /\ RowOK(x[1], x[2])'
      <3>1. CASE t # Here
        BY <2>3, <3>1
      <3>2. CASE t = Here
        <4>1. h'[t] = new
          BY <2>2, <3>2
        <4>. QED  BY <1>4, <2>4, <2>5, <3>2, <4>1
      <3>. QED  BY <3>1, <3>2
    <2>8. ASSUME NEW t \in Targets
          PROVE  /\ h'[t].st \in Live => /\ t[1] <= pos'.f /\ mode'.kinds[t[1]] = "async"
                                         /\ pc' \notin {"wait", "take"}
                 /\ \A g \in h'[t].gens :
                     /\ g \in DOMAIN subs' /\ subs'[g].t = t
                     /\ \A b \in Banks : owner'[b] # None /\ Gen(b)' = g => owner'[b].st # "reserved"
                     /\ h'[t].st \in {"queued", "taken"} =>
                         Held(g)' /\ owner'[subs'[g].bank].st = "attached" /\ ~subs'[g].consumed
                 /\ \A x \in h'[t].rows : h'[t].st = "taken" /\ x[1] \in h'[t].gens /\ RowOK(x[1], x[2])'
      <3>1. h'[t].st \in Live => t[1] <= pos'.f /\ mode'.kinds[t[1]] = "async" /\ pc' \notin {"wait", "take"}
        BY <2>6, <2>7
      <3>2. ASSUME NEW g \in h'[t].gens
            PROVE  /\ g \in DOMAIN subs' /\ subs'[g].t = t
                   /\ \A b \in Banks : owner'[b] # None /\ Gen(b)' = g => owner'[b].st # "reserved"
                   /\ h'[t].st \in {"queued", "taken"} =>
                       Held(g)' /\ owner'[subs'[g].bank].st = "attached" /\ ~subs'[g].consumed
        <4>1. /\ g \in DOMAIN subs /\ subs[g].t = t
              /\ \A b \in Banks : owner'[b] # None /\ Gen(b)' = g => owner'[b].st # "reserved"
              /\ h'[t].st \in {"queued", "taken"} =>
                  Held(g)' /\ owner'[subs[g].bank].st = "attached" /\ ~subs[g].consumed
          BY <2>7
        <4>. QED  BY <2>6, <4>1, Zenon
      <3>3. \A x \in h'[t].rows : h'[t].st = "taken" /\ x[1] \in h'[t].gens /\ RowOK(x[1], x[2])'
        BY <2>7
      <3>. QED  BY <3>1, <3>2, <3>3
    <2>. QED  BY <2>8 DEF HandlerInv
  <1>. QED  BY <1>10, <1>12, <1>13, <1>14, <1>15 DEF IInv, CopiedBytes

LEMMA StepPromote ==
    ASSUME IInv, Promote
    PROVE  IInv'
  <1>. USE DEF Promote
  <1>1. pc = "build" /\ Advance
    BY DEF Building
  <1>2. /\ pos' \in [f : 1 .. NF, l : 1 .. NL] /\ pc' \in {"build", "over"} /\ pos.f <= pos'.f
    BY <1>1, AdvanceFacts DEF IInv, Types
  <1>3. pos.f \in Int /\ pos'.f \in Int
    BY <1>2, ModeFacts DEF IInv, Types
  <1>4. ScanInv'
    BY <1>1, <1>2 DEF IInv, ScanInv, Scanned
  <1>5. LeaseInv'
    BY <1>1 DEF IInv, LeaseInv
  <1>6. CASE UNCHANGED <<subs, copied>>
    <2>1. Types'
      BY <1>2, <1>6 DEF IInv, Types, NF
    <2>2. OwnerInv' /\ FillInv' /\ CopiedBytes'
      BY <1>6, Quiet DEF IInv
    <2>3. HandlerInv'
      BY <1>2, <1>3, <1>6, QuietHandlers DEF IInv
    <2>. QED  BY <1>4, <1>5, <2>1, <2>2, <2>3 DEF IInv
  <1>7. CASE \E g \in DOMAIN subs :
               /\ subs[g].t[2] = pos.l /\ subs[g].ready # None
               /\ copied' = Bytes(pos.l, subs[g].bank, subs[g].ready)
               /\ subs' = [subs EXCEPT ![g].ready = None]
    <2>1. PICK g \in DOMAIN subs :
               /\ subs[g].t[2] = pos.l /\ subs[g].ready # None
               /\ copied' = Bytes(pos.l, subs[g].bank, subs[g].ready)
               /\ subs' = [subs EXCEPT ![g].ready = None]
      BY <1>7
    <2>2. subs' = [k \in DOMAIN subs |-> IF k \in {g} THEN [subs[k] EXCEPT !.ready = None] ELSE subs[k]]
      BY <2>1, TakenOne DEF IInv, Types
    <2>3. /\ Touched
          /\ \A k \in DOMAIN subs :
               /\ subs'[k].finished = subs[k].finished /\ subs'[k].consumed = subs[k].consumed
               /\ subs'[k].ready = IF k \in {g} THEN None ELSE subs[k].ready
      BY <2>2, TakenSubs DEF IInv, Types
    <2>4. \A k \in DOMAIN subs : subs'[k].ready = None \/ subs'[k].ready = subs[k].ready
      BY <2>3
    <2>5. OwnerInv' /\ FillInv'
      BY <2>3, <2>4, TakeFills DEF IInv
    <2>6. HandlerInv'
      BY <1>2, <1>3, <2>3, <2>4, TakeHandlers DEF IInv
    <2>7. Types'
      BY <1>2, <2>3 DEF IInv, Types, Touched, NF
    <2>8. CopiedBytes'
      <3>1. ASSUME NEW c \in copied' PROVE c[3] = <<c[1], c[2]>>
        <4>1. PICK p \in subs[g].ready : c = <<pos.l, p[1], bytes[subs[g].bank][p[2]]>>
          BY <2>1, <3>1 DEF Bytes
        <4>2. RowOK(g, p)
          BY <2>1 DEF IInv, FillInv
        <4>. QED  BY <2>1, <4>1, <4>2 DEF RowOK
      <3>. QED  BY <3>1 DEF CopiedBytes
    <2>. QED  BY <1>4, <1>5, <2>5, <2>6, <2>7, <2>8 DEF IInv
  <1>. QED  BY <1>6, <1>7
-----------------------------------------------------------------------------
(* Fills.                                                                  *)

\* The rows given to the first new ids are rows of the bank, one each.
LEMMA FirstRowsFacts ==
    ASSUME NEW ids \in Seq(Experts), NEW known
    PROVE  /\ FirstRows(ids, known) \subseteq Rows
           /\ \A p, q \in FirstRows(ids, known) : p[2] = q[2] => p = q
  <1>. DEFINE new == {k \in DOMAIN ids : ids[k] \notin known /\ \A i \in 1 .. k - 1 : ids[i] # ids[k]}
              upto(k) == {i \in new : i <= k}
  <1>1. /\ Len(ids) \in Nat /\ DOMAIN ids = 1 .. Len(ids)
        /\ \A k \in DOMAIN ids : ids[k] \in Experts
    BY LenProperties
  <1>2. new \subseteq 1 .. Len(ids)
    BY <1>1
  <1>3. FirstRows(ids, known) = {<<ids[k], Cardinality(upto(k))>> : k \in {i \in new : Cardinality(upto(i)) <= Cap}}
    BY DEF FirstRows
  <1>. HIDE DEF new
  <1>4. \A k \in new : k \in Int /\ k \in DOMAIN ids
    BY <1>1, <1>2
  <1>5. IsFiniteSet(1 .. Len(ids))
    BY <1>1, FS_Interval
  <1>6. ASSUME NEW k \in new
        PROVE  IsFiniteSet(upto(k)) /\ Cardinality(upto(k)) \in Nat \ {0}
    <2>1. IsFiniteSet(upto(k))
      BY <1>2, <1>5, FS_Subset
    <2>2. k \in upto(k)
      BY <1>4
    <2>. QED  BY <2>1, <2>2, FS_EmptySet, FS_CardinalityType
  <1>7. ASSUME NEW k \in new, NEW m \in new, Cardinality(upto(k)) = Cardinality(upto(m)), k < m
        PROVE  FALSE
    <2>1. upto(k) \subseteq upto(m)
      BY <1>4, <1>7
    <2>2. m \in upto(m) /\ m \notin upto(k)
      BY <1>4, <1>7
    <2>. QED  BY <1>6, <1>7, <2>1, <2>2, FS_Subset
  <1>8. ASSUME NEW k \in new, NEW m \in new, Cardinality(upto(k)) = Cardinality(upto(m))
        PROVE  k = m
    <2>1. ~(k < m) /\ ~(m < k)
      BY <1>7, <1>8
    <2>. QED  BY <1>4, <2>1
  <1>. HIDE DEF upto
  <1>9. \A k \in new : ids[k] \in Experts /\ (Cardinality(upto(k)) <= Cap => Cardinality(upto(k)) \in 1 .. Cap)
    BY <1>1, <1>4, <1>6, ConstantFacts
  <1>10. FirstRows(ids, known) \subseteq Rows
    BY <1>3, <1>9 DEF Rows
  <1>11. ASSUME NEW p \in FirstRows(ids, known), NEW q \in FirstRows(ids, known), p[2] = q[2]
         PROVE  p = q
    <2>1. PICK k \in new : p = <<ids[k], Cardinality(upto(k))>>
      BY <1>3
    <2>2. PICK m \in new : q = <<ids[m], Cardinality(upto(m))>>
      BY <1>3
    <2>3. k = m
      BY <1>8, <1>11, <2>1, <2>2
    <2>. QED  BY <2>1, <2>2, <2>3
  <1>. QED  BY <1>10, <1>11

\* Owners and generations belong together as long as neither changes.
LEMMA OwnersStay ==
    ASSUME OwnerInv, owner' = owner, DOMAIN subs' = DOMAIN subs,
           \A g \in DOMAIN subs : /\ subs'[g].bank = subs[g].bank /\ subs'[g].t = subs[g].t
                                 /\ subs'[g].consumed = subs[g].consumed
    PROVE  OwnerInv'
  <1>1. SUFFICES ASSUME NEW b \in Banks, owner[b] # None, NEW g, g = Gen(b)
                 PROVE  /\ g \in DOMAIN subs' /\ subs'[g].bank = b
                        /\ subs'[g].t = <<owner[b].fwd, owner[b].layer>>
                        /\ owner[b].st = "reserved" => ~subs'[g].consumed
    BY DEF OwnerInv, Gen
  <1>2. /\ g \in DOMAIN subs /\ subs[g].bank = b /\ subs[g].t = <<owner[b].fwd, owner[b].layer>>
        /\ owner[b].st = "reserved" => ~subs[g].consumed
    BY <1>1 DEF OwnerInv
  <1>3. owner[b].st = "reserved" => ~subs'[g].consumed
    BY <1>2, Zenon
  <1>. QED  BY <1>2, <1>3

LEMMA RowOfOwner ==
    ASSUME owner' = owner, NEW b, NEW p, NEW g, g = Gen(b), RowOK(g, p)'
    PROVE  RowOK(Gen(b), p)'
  BY DEF RowOK, Gen

\* One submission goes on reading: what others hold, and what it has ready
\* itself, stays right.
LEMMA FillFrame ==
    ASSUME IInv, NEW g \in DOMAIN subs, NEW y \in Subs,
           subs' = [subs EXCEPT ![g] = y], UNCHANGED <<mode, python, h, copied>>,
           y.t = subs[g].t, y.bank = subs[g].bank, y.consumed = subs[g].consumed, y.st # "queued",
           y.st \in {"reserved", "reading"} => Active(g) /\ ~y.finished,
           y.writing => y.st = "reading" /\ y.rows # {},
           subs[g].st = "queued" \/ y.rows \subseteq subs[g].rows,
           \A p, q \in y.rows : p[2] = q[2] => p = q,
           bytes' \in [Banks -> [1 .. Cap -> {None} \cup ((2 .. NL) \X Experts)]],
           \A b \in Banks, i \in 1 .. Cap :
               bytes'[b][i] # bytes[b][i] =>
                   Active(g) /\ b = subs[g].bank /\ \E q \in subs[g].rows : q[2] = i,
           y.ready # None => /\ Held(g)
                             /\ \A p \in y.ready : \/ subs[g].ready # None /\ p \in subs[g].ready
                                                   \/ RowOK(g, p)'
    PROVE  IInv'
  <1>0. /\ mode' = mode /\ pos' = pos /\ pc' = pc /\ arg' = arg /\ scan' = scan /\ leases' = leases
        /\ owner' = owner /\ h' = h /\ copied' = copied
    BY DEF python
  <1>. USE <1>0
  <1>1. /\ Len(subs) \in Nat /\ DOMAIN subs = 1 .. Len(subs)
        /\ \A k \in DOMAIN subs : subs[k] \in Subs
    BY SubsFacts DEF IInv, Types
  <1>2. /\ subs' \in Seq(Subs) /\ Len(subs') = Len(subs)
        /\ subs'[g] = y /\ \A k \in DOMAIN subs : k # g => subs'[k] = subs[k]
    BY <1>1, ExceptSeq DEF IInv, Types
  <1>3. DOMAIN subs' = DOMAIN subs
    BY <1>1
  <1>4. \A k \in DOMAIN subs : Held(k)' = Held(k) /\ subs'[k].bank = subs[k].bank /\ subs'[k].t = subs[k].t
    BY <1>2 DEF Held, Gen
  <1>5. \A k \in DOMAIN subs : Active(k)' => Active(k)
    BY <1>2 DEF Active
  <1>6. ASSUME NEW k \in DOMAIN subs, NEW p \in Rows, RowOK(k, p), Held(k)
        PROVE  RowOK(k, p)'
    <2>1. subs[k].bank \in Banks /\ p[2] \in 1 .. Cap
      BY <1>1, RecordFields DEF Rows
    <2>2. ASSUME bytes'[subs[k].bank][p[2]] # bytes[subs[k].bank][p[2]]
          PROVE  FALSE
      <3>1. Active(g) /\ subs[k].bank = subs[g].bank /\ \E q \in subs[g].rows : q[2] = p[2]
        BY <2>1, <2>2
      <3>2. Held(g)
        BY <3>1 DEF IInv, FillInv
      <3>3. k = g
        BY <1>6, <3>1, <3>2 DEF Held
      <3>. QED  BY <1>6, <3>1, <3>3 DEF RowOK
    <2>3. CASE k = g
      BY <1>2, <1>6, <2>2, <2>3 DEF RowOK
    <2>4. CASE k # g
      BY <1>2, <1>6, <2>2, <2>4 DEF RowOK
    <2>. QED  BY <2>3, <2>4
  <1>7. Types'
    BY <1>2 DEF IInv, Types, NF
  <1>8. OwnerInv'
    <2>1. ASSUME NEW k \in DOMAIN subs
          PROVE  subs'[k].consumed = subs[k].consumed
      BY <1>2, Zenon
    <2>. QED  BY <1>3, <1>4, <2>1, OwnersStay DEF IInv
  <1>9. FillInv'
    <2>1. SUFFICES ASSUME NEW k \in DOMAIN subs
                   PROVE  /\ Active(k)' => Held(k)' /\ ~subs'[k].finished
                          /\ subs'[k].writing => subs'[k].st = "reading" /\ subs'[k].rows # {}
                          /\ \A p, q \in subs'[k].rows : p[2] = q[2] => p = q
                          /\ subs'[k].ready # None => Held(k)' /\ \A p \in subs'[k].ready : RowOK(k, p)'
      BY <1>3 DEF FillInv
    <2>2. subs[k].ready # None => Held(k) /\ \A p \in subs[k].ready : p \in Rows /\ RowOK(k, p)'
      BY <1>1, <1>6, RecordFields DEF IInv, FillInv
    <2>3. CASE k = g
      <3>1. Active(k)' => Active(g) /\ ~y.finished
        BY <1>2, <2>3 DEF Active
      <3>2. Active(g) => Held(g)
        BY DEF IInv, FillInv
      <3>3. subs'[k] = y
        BY <1>2, <2>3
      <3>. QED  BY <1>4, <2>2, <2>3, <3>1, <3>2, <3>3
    <2>4. CASE k # g
      BY <1>2, <1>4, <2>2, <2>4 DEF IInv, FillInv, Active
    <2>. QED  BY <2>3, <2>4
  <1>10. \A b \in Banks, p \in Rows : owner[b] # None /\ RowOK(Gen(b), p) => RowOK(Gen(b), p)'
    <2>1. SUFFICES ASSUME NEW b \in Banks, NEW p \in Rows, owner[b] # None, RowOK(Gen(b), p)
                   PROVE  RowOK(Gen(b), p)'
      BY Zenon
    <2>2. PICK k : k = Gen(b)
      OBVIOUS
    <2>3. k \in DOMAIN subs /\ Held(k) /\ RowOK(k, p)
      BY <2>1, <2>2 DEF IInv, OwnerInv, Held
    <2>4. RowOK(k, p)'
      BY <1>6, <2>3
    <2>. QED  BY <2>2, <2>4, RowOfOwner
  <1>11. ScanInv'
    <2>1. ASSUME scan.bank # None, scan.rows # None, NEW p \in scan.rows
          PROVE  RowOK(Gen(scan.bank), p)'
      <3>1. scan.bank \in Banks /\ p \in Rows /\ owner[scan.bank] # None /\ RowOK(Gen(scan.bank), p)
        BY <2>1 DEF IInv, ScanInv, Types
      <3>. QED  BY <1>10, <3>1, ZenonT(30) DEF RowOK, Gen
    <2>. QED  BY <2>1 DEF IInv, ScanInv, Scanned
  <1>12. LeaseInv'
    <2>1. ASSUME NEW x \in leases
          PROVE  /\ \A p \in x.rows : RowOK(Gen(x.bank), p)'
                 /\ x.fin => ~Active(Gen(x.bank))'
      <3>1. x.bank \in Banks /\ x.rows \subseteq Rows /\ owner[x.bank] # None
        BY DEF IInv, LeaseInv, Types
      <3>2. Gen(x.bank) \in DOMAIN subs
        BY <3>1 DEF IInv, OwnerInv
      <3>3. Active(Gen(x.bank))' => Active(Gen(x.bank))
        BY <1>5, <3>2 DEF Active, Gen
      <3>4. \A p \in x.rows : RowOK(Gen(x.bank), p)'
        BY <1>10, <3>1 DEF IInv, LeaseInv
      <3>. QED  BY <3>3, <3>4 DEF IInv, LeaseInv
    <2>. QED  BY <2>1 DEF IInv, LeaseInv
  <1>13. HandlerInv'
    <2>1. ASSUME NEW t \in Targets, NEW k \in h[t].gens
          PROVE  /\ k \in DOMAIN subs' /\ subs'[k].t = t
                 /\ \A b \in Banks : owner[b] # None /\ Gen(b)' = k => owner[b].st # "reserved"
                 /\ h[t].st \in {"queued", "taken"} =>
                     Held(k)' /\ owner[subs'[k].bank].st = "attached" /\ ~subs'[k].consumed
      <3>1. k \in DOMAIN subs /\ subs[k].t = t
        BY DEF IInv, HandlerInv
      <3>2. subs'[k].consumed = subs[k].consumed
        BY <1>2, <3>1, Zenon
      <3>3. h[t].st \in {"queued", "taken"} => ~subs'[k].consumed
        BY <3>2, Zenon DEF IInv, HandlerInv
      <3>4. h[t].st \in {"queued", "taken"} => Held(k)' /\ owner[subs'[k].bank].st = "attached"
        BY <1>4, <3>1 DEF IInv, HandlerInv
      <3>5. \A b \in Banks : owner[b] # None /\ Gen(b)' = k => owner[b].st # "reserved"
        BY DEF IInv, HandlerInv, Gen
      <3>. QED  BY <1>3, <1>4, <3>1, <3>3, <3>4, <3>5
    <2>2. ASSUME NEW t \in Targets, NEW x \in h[t].rows
          PROVE  h[t].st = "taken" /\ x[1] \in h[t].gens /\ RowOK(x[1], x[2])'
      <3>1. h[t].st = "taken" /\ x[1] \in h[t].gens /\ RowOK(x[1], x[2])
        BY DEF IInv, HandlerInv
      <3>2. x[1] \in DOMAIN subs /\ Held(x[1])
        BY <3>1 DEF IInv, HandlerInv
      <3>3. x[2] \in Rows
        BY DEF IInv, Types
      <3>. QED  BY <1>6, <3>1, <3>2, <3>3
    <2>3. \A t \in Targets : h[t].st \in Live =>
              t[1] <= pos.f /\ mode.kinds[t[1]] = "async" /\ pc \notin {"wait", "take"}
      BY DEF IInv, HandlerInv
    <2>. QED  BY <2>1, <2>2, <2>3 DEF HandlerInv
  <1>. QED  BY <1>7, <1>8, <1>9, <1>11, <1>12, <1>13 DEF IInv, CopiedBytes

LEMMA StepFillBegin ==
    ASSUME IInv, NEW g \in DOMAIN subs, NEW present, FillBegin(g, present)
    PROVE  IInv'
  <1>. DEFINE rows == FirstRows(subs[g].ids, present \cup tgt[subs[g].t].seen)
              y == [subs[g] EXCEPT !.st = "reserved", !.rows = rows]
  <1>1. subs[g] \in Subs /\ subs[g].ids \in Seq(Experts) /\ subs[g].st = "queued"
    BY SubsFacts, RecordFields DEF IInv, Types, FillBegin
  <1>2. rows \subseteq Rows /\ \A p, q \in rows : p[2] = q[2] => p = q
    BY <1>1, FirstRowsFacts
  <1>3. subs' = [subs EXCEPT ![g] = y] /\ UNCHANGED <<mode, python, h, copied>> /\ bytes' = bytes
    BY <1>1 DEF FillBegin
  <1>. HIDE DEF rows
  <1>4. /\ y \in Subs /\ y.t = subs[g].t /\ y.bank = subs[g].bank /\ y.consumed = subs[g].consumed
        /\ y.st = "reserved" /\ y.rows = rows /\ y.ready = subs[g].ready
        /\ y.finished = subs[g].finished /\ y.writing = subs[g].writing
    BY <1>1, <1>2 DEF Subs, FillStates
  <1>5. Active(g) /\ ~y.finished
    BY <1>1, <1>4 DEF IInv, FillInv, Active
  <1>6. ~y.writing
    BY <1>1, <1>4 DEF IInv, FillInv
  <1>7. y.ready # None => Held(g) /\ \A p \in y.ready : subs[g].ready # None /\ p \in subs[g].ready
    BY <1>4 DEF IInv, FillInv
  <1>8. bytes' \in [Banks -> [1 .. Cap -> {None} \cup ((2 .. NL) \X Experts)]]
    BY <1>3 DEF IInv, Types
  <1>. HIDE DEF y
  <1>. QED  BY <1>1, <1>2, <1>3, <1>4, <1>5, <1>6, <1>7, <1>8, FillFrame

LEMMA StepOpenFails ==
    ASSUME IInv, NEW g \in DOMAIN subs, OpenFails(g)
    PROVE  IInv'
  <1>. DEFINE y == [subs[g] EXCEPT !.st = "ended", !.rows = {}, !.finished = TRUE]
  <1>1. subs[g] \in Subs /\ subs[g].st = "reserved"
    BY SubsFacts DEF IInv, Types, OpenFails
  <1>2. subs' = [subs EXCEPT ![g] = y] /\ UNCHANGED <<mode, python, h, copied>> /\ bytes' = bytes
    BY <1>1 DEF OpenFails
  <1>3. /\ y \in Subs /\ y.t = subs[g].t /\ y.bank = subs[g].bank /\ y.consumed = subs[g].consumed
        /\ y.st = "ended" /\ y.rows = {} /\ y.ready = subs[g].ready /\ y.writing = subs[g].writing
    BY <1>1 DEF Subs, FillStates
  <1>4. ~y.writing
    BY <1>1, <1>3 DEF IInv, FillInv
  <1>5. y.ready # None => Held(g) /\ \A p \in y.ready : subs[g].ready # None /\ p \in subs[g].ready
    BY <1>3 DEF IInv, FillInv
  <1>6. bytes' \in [Banks -> [1 .. Cap -> {None} \cup ((2 .. NL) \X Experts)]]
    BY <1>2 DEF IInv, Types
  <1>. HIDE DEF y
  <1>. QED  BY <1>2, <1>3, <1>4, <1>5, <1>6, FillFrame

LEMMA StepReadBegin ==
    ASSUME IInv, NEW g \in DOMAIN subs, ReadBegin(g)
    PROVE  IInv'
  <1>. DEFINE y == [subs[g] EXCEPT !.st = "reading", !.writing = TRUE]
  <1>1. subs[g] \in Subs /\ subs[g].bank \in Banks /\ Active(g) /\ ~subs[g].finished
    BY SubsFacts, RecordFields DEF IInv, Types, ReadBegin, Filling, Active, FillInv
  <1>2. PICK p \in subs[g].rows : bytes' = [bytes EXCEPT ![subs[g].bank][p[2]] = None]
    BY DEF ReadBegin
  <1>3. subs' = [subs EXCEPT ![g] = y] /\ UNCHANGED <<mode, python, h, copied>>
    BY <1>1 DEF ReadBegin
  <1>4. /\ y \in Subs /\ y.t = subs[g].t /\ y.bank = subs[g].bank /\ y.consumed = subs[g].consumed
        /\ y.st = "reading" /\ y.rows = subs[g].rows /\ y.ready = subs[g].ready
        /\ y.finished = subs[g].finished
    BY <1>1 DEF Subs, FillStates
  <1>5. y.ready # None => Held(g) /\ \A q \in y.ready : subs[g].ready # None /\ q \in subs[g].ready
    BY <1>4 DEF IInv, FillInv
  <1>6. \A q, r \in y.rows : q[2] = r[2] => q = r
    BY <1>4 DEF IInv, FillInv
  <1>7. /\ bytes' \in [Banks -> [1 .. Cap -> {None} \cup ((2 .. NL) \X Experts)]]
        /\ \A b \in Banks, i \in 1 .. Cap :
               bytes'[b][i] # bytes[b][i] => b = subs[g].bank /\ p[2] = i
    BY <1>1, <1>2 DEF IInv, Types
  <1>8. ~y.finished
    BY <1>1, <1>4, Zenon
  <1>. HIDE DEF y
  <1>9. \A b \in Banks, i \in 1 .. Cap :
            bytes'[b][i] # bytes[b][i] =>
                Active(g) /\ b = subs[g].bank /\ \E q \in subs[g].rows : q[2] = i
    BY <1>1, <1>2, <1>7
  <1>10. y.rows # {} /\ y.rows \subseteq subs[g].rows /\ \A q, r \in y.rows : q[2] = r[2] => q = r
    BY <1>2, <1>4, <1>6
  <1>. QED  BY <1>1, <1>3, <1>4, <1>5, <1>7, <1>8, <1>9, <1>10, FillFrame

\* The row that has been read is right, and no other row to be read is in its place.
LEMMA StepReadEnd ==
    ASSUME IInv, NEW g \in DOMAIN subs, NEW ok \in BOOLEAN, ReadEnd(g, ok)
    PROVE  IInv'
  <1>1. /\ subs[g] \in Subs /\ subs[g].bank \in Banks /\ subs[g].t \in Targets
        /\ subs[g].st = "reading" /\ Active(g) /\ Held(g) /\ ~subs[g].finished
        /\ subs[g].rows \subseteq Rows /\ subs[g].ready \in {None} \cup SUBSET Rows
    BY SubsFacts, RecordFields DEF IInv, Types, ReadEnd, Active, FillInv
  <1>2. PICK p \in subs[g].rows :
          /\ subs' = [subs EXCEPT ![g].writing = FALSE, ![g].rows = @ \ {p},
                        ![g].ready = IF ok THEN (IF @ = None THEN {p} ELSE @ \cup {p}) ELSE @]
          /\ bytes' = [bytes EXCEPT ![subs[g].bank][p[2]] = IF ok THEN <<subs[g].t[2], p[1]>> ELSE @]
    BY DEF ReadEnd
  <1>. DEFINE ready == IF ok THEN (IF subs[g].ready = None THEN {p} ELSE subs[g].ready \cup {p})
                       ELSE subs[g].ready
              y == [subs[g] EXCEPT !.writing = FALSE, !.rows = @ \ {p}, !.ready = ready]
  <1>3. subs' = [subs EXCEPT ![g] = y] /\ UNCHANGED <<mode, python, h, copied>>
    BY <1>1, <1>2 DEF ReadEnd
  <1>4. /\ ready \in {None} \cup SUBSET Rows
        /\ ready # None => \A q \in ready : \/ q = p /\ ok
                                            \/ subs[g].ready # None /\ q \in subs[g].ready
    BY <1>1, <1>2
  <1>. HIDE DEF ready
  <1>5. /\ y \in Subs /\ y.t = subs[g].t /\ y.bank = subs[g].bank /\ y.consumed = subs[g].consumed
        /\ y.st = "reading" /\ y.rows = subs[g].rows \ {p} /\ y.ready = ready
        /\ y.finished = subs[g].finished /\ y.writing = FALSE
    BY <1>1, <1>4 DEF Subs, FillStates
  <1>. HIDE DEF y
  <1>6. p[2] \in 1 .. Cap /\ p[1] \in Experts /\ subs[g].t[2] \in 2 .. NL
    BY <1>1, <1>2 DEF Rows, Targets
  <1>7. /\ bytes' \in [Banks -> [1 .. Cap -> {None} \cup ((2 .. NL) \X Experts)]]
        /\ \A b \in Banks, i \in 1 .. Cap :
               bytes'[b][i] # bytes[b][i] => b = subs[g].bank /\ p[2] = i
        /\ ok => bytes'[subs[g].bank][p[2]] = <<subs[g].t[2], p[1]>>
    <2>. DEFINE v == IF ok THEN <<subs[g].t[2], p[1]>> ELSE bytes[subs[g].bank][p[2]]
    <2>1. bytes \in [Banks -> [1 .. Cap -> {None} \cup ((2 .. NL) \X Experts)]]
      BY DEF IInv, Types
    <2>2. bytes' = [bytes EXCEPT ![subs[g].bank][p[2]] = v]
      BY <1>1, <1>2, <1>6, <2>1
    <2>3. v \in {None} \cup ((2 .. NL) \X Experts) /\ (ok => v = <<subs[g].t[2], p[1]>>)
      BY <1>1, <1>6, <2>1, ZenonT(30)
    <2>. HIDE DEF v
    <2>. QED  BY <1>1, <1>6, <2>1, <2>2, <2>3
  <1>8. subs'[g] = y
    BY <1>3
  <1>9. \A q, r \in subs[g].rows : q[2] = r[2] => q = r
    BY DEF IInv, FillInv
  <1>10. ok => RowOK(g, p)'
    BY <1>2, <1>5, <1>7, <1>8, <1>9 DEF RowOK
  <1>11. ~y.finished
    BY <1>1, <1>5, Zenon
  <1>12. y.ready # None => /\ Held(g)
                           /\ \A q \in y.ready : \/ subs[g].ready # None /\ q \in subs[g].ready
                                                 \/ RowOK(g, q)'
    BY <1>1, <1>4, <1>5, <1>10
  <1>13. \A b \in Banks, i \in 1 .. Cap :
            bytes'[b][i] # bytes[b][i] =>
                Active(g) /\ b = subs[g].bank /\ \E q \in subs[g].rows : q[2] = i
    BY <1>1, <1>2, <1>7
  <1>14. y.rows \subseteq subs[g].rows /\ \A q, r \in y.rows : q[2] = r[2] => q = r
    BY <1>5, <1>9
  <1>. QED  BY <1>1, <1>3, <1>5, <1>7, <1>11, <1>12, <1>13, <1>14, FillFrame

LEMMA StepFillEnd ==
    ASSUME IInv, NEW g \in DOMAIN subs, FillEnd(g)
    PROVE  IInv'
  <1>. DEFINE ready == IF subs[g].ready = None THEN {} ELSE subs[g].ready
              y == [subs[g] EXCEPT !.st = "ended", !.finished = TRUE, !.ready = ready]
  <1>1. /\ subs[g] \in Subs /\ Active(g) /\ Held(g) /\ subs[g].rows = {}
        /\ subs[g].ready \in {None} \cup SUBSET Rows
    BY SubsFacts, RecordFields DEF IInv, Types, FillEnd, Filling, Active, FillInv
  <1>2. subs' = [subs EXCEPT ![g] = y] /\ UNCHANGED <<mode, python, h, copied>> /\ bytes' = bytes
    BY <1>1 DEF FillEnd
  <1>3. /\ ready \in {None} \cup SUBSET Rows
        /\ ready # None => \A q \in ready : subs[g].ready # None /\ q \in subs[g].ready
    BY <1>1
  <1>. HIDE DEF ready
  <1>4. /\ y \in Subs /\ y.t = subs[g].t /\ y.bank = subs[g].bank /\ y.consumed = subs[g].consumed
        /\ y.st = "ended" /\ y.rows = {} /\ y.ready = ready /\ y.writing = subs[g].writing
    BY <1>1, <1>3 DEF Subs, FillStates
  <1>5. bytes' \in [Banks -> [1 .. Cap -> {None} \cup ((2 .. NL) \X Experts)]]
    BY <1>2 DEF IInv, Types
  <1>. HIDE DEF y
  <1>6. ~y.writing
    BY <1>1, <1>4 DEF IInv, FillInv
  <1>. QED  BY <1>1, <1>2, <1>3, <1>4, <1>5, <1>6, FillFrame

\* The reader thread takes its leave.
LEMMA StepInflightDone ==
    ASSUME IInv, NEW g \in DOMAIN subs, InflightDone(g)
    PROVE  IInv'
  <1>. DEFINE y == [subs[g] EXCEPT !.st = "done"]
  <1>1. subs[g] \in Subs /\ subs[g].st = "ended" /\ subs[g].ready \in {None} \cup SUBSET Rows
    BY SubsFacts, RecordFields DEF IInv, Types, InflightDone
  <1>2. subs' = [subs EXCEPT ![g] = y] /\ UNCHANGED <<mode, python, h, copied>> /\ bytes' = bytes
    BY <1>1 DEF InflightDone
  <1>3. /\ y \in Subs /\ y.t = subs[g].t /\ y.bank = subs[g].bank /\ y.consumed = subs[g].consumed
        /\ y.st = "done" /\ y.rows = subs[g].rows /\ y.ready = subs[g].ready
        /\ y.writing = subs[g].writing
    BY <1>1 DEF Subs, FillStates
  <1>4. ~y.writing
    BY <1>1, <1>3 DEF IInv, FillInv
  <1>5. /\ y.ready # None => Held(g) /\ \A p \in y.ready : subs[g].ready # None /\ p \in subs[g].ready
        /\ \A p, q \in y.rows : p[2] = q[2] => p = q
    BY <1>3 DEF IInv, FillInv
  <1>6. bytes' \in [Banks -> [1 .. Cap -> {None} \cup ((2 .. NL) \X Experts)]]
    BY <1>2 DEF IInv, Types
  <1>. HIDE DEF y
  <1>. QED  BY <1>1, <1>2, <1>3, <1>4, <1>5, <1>6, FillFrame
-----------------------------------------------------------------------------
(* Handlers.                                                               *)

\* A handler keeps to its target: what the others hold is theirs.
LEMMA HandlerFrame ==
    ASSUME IInv, NEW t \in Targets, NEW r, Touched, UNCHANGED <<mode, python, bytes>>,
           h' = [h EXCEPT ![t] = r],
           r \in [st : Live \cup {"none", "done", "failed", "plain"},
                  gens : SUBSET Nat, rows : SUBSET (Nat \X Rows)],
           r.gens = h[t].gens, h[t].st \in Live,
           \A g \in DOMAIN subs :
               /\ subs'[g].ready = None \/ subs'[g].ready = subs[g].ready
               /\ subs'[g].finished = subs[g].finished
               /\ g \notin h[t].gens \/ r.st = "taken" => subs'[g].consumed = subs[g].consumed,
           r.st = "taken" => h[t].st = "queued", r.st # "queued",
           \A x \in r.rows : r.st = "taken" /\ x[1] \in r.gens /\ RowOK(x[1], x[2]),
           CopiedBytes'
    PROVE  IInv'
  <1>. USE DEF IInv
  <1>0. /\ mode' = mode /\ pos' = pos /\ pc' = pc /\ arg' = arg /\ scan' = scan /\ leases' = leases
        /\ owner' = owner /\ bytes' = bytes
    BY DEF python
  <1>1. \A g \in DOMAIN subs : Same(subs[g], subs'[g]) /\ subs[g].bank \in Banks
    BY SubsFacts, RecordFields DEF Touched, Types
  <1>2. ASSUME NEW g \in DOMAIN subs
        PROVE  (Held(g) => Held(g)') /\ (\A p : RowOK(g, p) => RowOK(g, p)') /\ (Active(g)' => Active(g))
    BY <1>0, <1>1, RowStaysOK DEF Held, Gen, Same, Active
  <1>3. Types'
    BY <1>0 DEF Types, Touched, NF
  <1>4. OwnerInv'
    <2>1. SUFFICES ASSUME NEW b \in Banks, owner[b] # None, NEW g, g = Gen(b)
                   PROVE  /\ g \in DOMAIN subs' /\ subs'[g].bank = b
                          /\ subs'[g].t = <<owner[b].fwd, owner[b].layer>>
                          /\ owner[b].st = "reserved" => ~subs'[g].consumed
      BY <1>0 DEF OwnerInv, Gen
    <2>2. /\ g \in DOMAIN subs /\ subs[g].bank = b /\ subs[g].t = <<owner[b].fwd, owner[b].layer>>
          /\ owner[b].st = "reserved" => ~subs[g].consumed
      BY <2>1 DEF OwnerInv
    <2>3. ASSUME owner[b].st = "reserved"
          PROVE  ~subs'[g].consumed
      <3>1. g \notin h[t].gens
        BY <2>1, <2>3 DEF HandlerInv
      <3>2. subs'[g].consumed = subs[g].consumed /\ ~subs[g].consumed
        BY <2>2, <2>3, <3>1, Zenon
      <3>. QED  BY <3>2, Zenon
    <2>. QED  BY <1>1, <2>2, <2>3 DEF Touched, Same
  <1>5. FillInv'
    <2>1. SUFFICES ASSUME NEW g \in DOMAIN subs
                   PROVE  /\ Active(g)' => Held(g)' /\ ~subs'[g].finished
                          /\ subs'[g].writing => subs'[g].st = "reading" /\ subs'[g].rows # {}
                          /\ \A p, q \in subs'[g].rows : p[2] = q[2] => p = q
                          /\ subs'[g].ready # None => Held(g)' /\ \A p \in subs'[g].ready : RowOK(g, p)'
      BY DEF FillInv, Touched
    <2>2. Active(g)' => ~subs'[g].finished
      <3>1. Active(g) => ~subs[g].finished
        BY Zenon DEF FillInv
      <3>2. subs'[g].finished = subs[g].finished
        BY Zenon
      <3>. QED  BY <1>2, <3>1, <3>2, Zenon
    <2>3. subs'[g].ready # None => Held(g)' /\ \A p \in subs'[g].ready : RowOK(g, p)'
      BY <1>2 DEF FillInv
    <2>4. subs'[g].writing => subs'[g].st = "reading" /\ subs'[g].rows # {}
      BY <1>1 DEF FillInv, Same
    <2>. QED  BY <1>1, <1>2, <2>2, <2>3, <2>4 DEF FillInv, Same
  <1>6. \A b \in Banks : \A p : owner[b] # None /\ RowOK(Gen(b), p) => RowOK(Gen(b), p)'
    <2>1. SUFFICES ASSUME NEW b \in Banks, NEW p, owner[b] # None, RowOK(Gen(b), p)
                   PROVE  RowOK(Gen(b), p)'
      BY Zenon
    <2>2. PICK k : k = Gen(b)
      OBVIOUS
    <2>3. k \in DOMAIN subs /\ RowOK(k, p)
      BY <2>1, <2>2 DEF OwnerInv
    <2>4. RowOK(k, p)'
      BY <1>2, <2>3
    <2>. QED  BY <1>0, <2>2, <2>4, RowOfOwner
  <1>7. ScanInv'
    <2>1. ASSUME scan.bank # None, scan.rows # None, NEW p \in scan.rows
          PROVE  RowOK(Gen(scan.bank), p)'
      <3>1. scan.bank \in Banks /\ owner[scan.bank] # None /\ RowOK(Gen(scan.bank), p)
        BY <2>1 DEF ScanInv, Types
      <3>. QED  BY <1>0, <1>6, <3>1, ZenonT(30) DEF RowOK, Gen
    <2>. QED  BY <1>0, <2>1 DEF ScanInv, Scanned
  <1>8. LeaseInv'
    <2>1. ASSUME NEW x \in leases
          PROVE  /\ \A p \in x.rows : RowOK(Gen(x.bank), p)'
                 /\ x.fin => ~Active(Gen(x.bank))'
      <3>1. x.bank \in Banks /\ owner[x.bank] # None
        BY DEF LeaseInv, Types
      <3>2. Gen(x.bank) \in DOMAIN subs
        BY <3>1 DEF OwnerInv
      <3>3. Active(Gen(x.bank))' => Active(Gen(x.bank))
        BY <1>0, <1>2, <3>2 DEF Active, Gen
      <3>4. \A p \in x.rows : RowOK(Gen(x.bank), p)'
        BY <1>6, <3>1 DEF LeaseInv
      <3>. QED  BY <3>3, <3>4 DEF LeaseInv
    <2>. QED  BY <1>0, <2>1 DEF LeaseInv
  <1>9. HandlerInv'
    <2>1. h'[t] = r /\ \A s \in Targets : s # t => h'[s] = h[s]
      BY DEF Types
    <2>2. ASSUME NEW s \in Targets
          PROVE  /\ h'[s].gens = h[s].gens
                 /\ h'[s].st \in Live => h[s].st \in Live
                 /\ h'[s].st \in {"queued", "taken"} => h[s].st \in {"queued", "taken"}
      BY <2>1 DEF Live
    <2>3. ASSUME NEW s \in Targets, NEW g \in h[s].gens
          PROVE  /\ g \in DOMAIN subs' /\ subs'[g].t = s
                 /\ \A b \in Banks : owner[b] # None /\ Gen(b)' = g => owner[b].st # "reserved"
                 /\ h'[s].st \in {"queued", "taken"} =>
                     Held(g)' /\ owner[subs'[g].bank].st = "attached" /\ ~subs'[g].consumed
      <3>1. g \in DOMAIN subs /\ subs[g].t = s
        BY DEF HandlerInv
      <3>2. \A b \in Banks : owner[b] # None /\ Gen(b)' = g => owner[b].st # "reserved"
        BY <1>0 DEF HandlerInv, Gen
      <3>3. ASSUME h'[s].st \in {"queued", "taken"}
            PROVE  ~subs'[g].consumed
        <4>1. ~subs[g].consumed
          BY <2>2, <3>3, Zenon DEF HandlerInv
        <4>2. g \notin h[t].gens \/ r.st = "taken"
          BY <2>1, <3>1, <3>3 DEF HandlerInv
        <4>3. subs'[g].consumed = subs[g].consumed
          BY <3>1, <4>2, Zenon
        <4>. QED  BY <4>1, <4>3, Zenon
      <3>4. h'[s].st \in {"queued", "taken"} => Held(g)' /\ owner[subs'[g].bank].st = "attached"
        BY <1>1, <1>2, <2>2, <3>1 DEF HandlerInv, Same
      <3>. QED  BY <1>1, <3>1, <3>2, <3>3, <3>4 DEF Touched, Same
    <2>4. ASSUME NEW s \in Targets, NEW x \in h'[s].rows
          PROVE  h'[s].st = "taken" /\ x[1] \in h'[s].gens /\ RowOK(x[1], x[2])'
      <3>1. h'[s].st = "taken" /\ x[1] \in h[s].gens /\ RowOK(x[1], x[2])
        BY <2>1, <2>4 DEF HandlerInv
      <3>2. x[1] \in DOMAIN subs
        BY <3>1 DEF HandlerInv
      <3>. QED  BY <1>2, <2>2, <3>1, <3>2
    <2>5. \A s \in Targets : h'[s].st \in Live =>
              s[1] <= pos.f /\ mode.kinds[s[1]] = "async" /\ pc \notin {"wait", "take"}
      BY <2>2 DEF HandlerInv
    <2>. QED  BY <1>0, <2>2, <2>3, <2>4, <2>5 DEF HandlerInv
  <1>. QED  BY <1>3, <1>4, <1>5, <1>7, <1>8, <1>9

LEMMA HandlerRecords ==
    ASSUME IInv, NEW t \in Targets
    PROVE  h[t] \in [st : Live \cup {"none", "done", "failed", "plain"},
                     gens : SUBSET Nat, rows : SUBSET (Nat \X Rows)]
  BY DEF IInv, Types

LEMMA StepHandlerTake ==
    ASSUME IInv, NEW t \in Targets, HandlerTake(t)
    PROVE  IInv'
  <1>. DEFINE rows == UNION {{<<g, p>> : p \in subs[g].ready} : g \in {k \in h[t].gens : subs[k].ready # None}}
              r == [h[t] EXCEPT !.st = "taken", !.rows = rows]
  <1>1. /\ h[t].st = "queued" /\ UNCHANGED <<mode, python, bytes>> /\ copied' = copied
        /\ h' = [h EXCEPT ![t] = r]
    BY DEF HandlerTake, IInv, Types
  <1>2. subs' = [g \in DOMAIN subs |-> IF g \in h[t].gens THEN [subs[g] EXCEPT !.ready = None] ELSE subs[g]]
    BY DEF HandlerTake
  <1>3. /\ Touched
        /\ \A g \in DOMAIN subs :
             /\ subs'[g].finished = subs[g].finished /\ subs'[g].consumed = subs[g].consumed
             /\ subs'[g].ready = IF g \in h[t].gens THEN None ELSE subs[g].ready
    BY <1>2, TakenSubs DEF IInv, Types
  <1>4. \A g \in DOMAIN subs : subs'[g].ready = None \/ subs'[g].ready = subs[g].ready
    BY <1>3
  <1>5. ASSUME NEW x \in rows
        PROVE  x \in Nat \X Rows /\ x[1] \in h[t].gens /\ RowOK(x[1], x[2])
    <2>1. PICK g \in h[t].gens : subs[g].ready # None /\ \E p \in subs[g].ready : x = <<g, p>>
      BY <1>5
    <2>2. PICK p \in subs[g].ready : x = <<g, p>>
      BY <2>1
    <2>3. g \in DOMAIN subs /\ g \in Nat
      BY SubsFacts DEF IInv, HandlerInv, Types
    <2>4. p \in Rows /\ RowOK(g, p)
      BY <2>1, <2>3, SubsFacts, RecordFields DEF IInv, FillInv, Types
    <2>. QED  BY <2>2, <2>3, <2>4
  <1>6. rows \in SUBSET (Nat \X Rows)
    BY <1>5
  <1>. HIDE DEF rows
  <1>7. /\ r \in [st : Live \cup {"none", "done", "failed", "plain"},
                  gens : SUBSET Nat, rows : SUBSET (Nat \X Rows)]
        /\ r.gens = h[t].gens /\ r.st = "taken" /\ r.rows = rows
    BY <1>6, HandlerRecords DEF Live
  <1>. HIDE DEF r
  <1>8. \A x \in r.rows : r.st = "taken" /\ x[1] \in r.gens /\ RowOK(x[1], x[2])
    BY <1>5, <1>7
  <1>9. h[t].st \in Live /\ CopiedBytes'
    BY <1>1 DEF Live, IInv, CopiedBytes
  <1>. QED  BY <1>1, <1>3, <1>4, <1>7, <1>8, <1>9, HandlerFrame

LEMMA ConsumedStep ==
    ASSUME IInv, NEW t \in Targets, Consumed(t), NEW s \in {"copied", "failed"}, h[t].st \in Live,
           h' = [h EXCEPT ![t].st = s, ![t].rows = {}], UNCHANGED <<mode, python, bytes>>, CopiedBytes'
    PROVE  IInv'
  <1>. DEFINE r == [h[t] EXCEPT !.st = s, !.rows = {}]
  <1>1. h' = [h EXCEPT ![t] = r]
    BY DEF IInv, Types
  <1>2. /\ Touched
        /\ \A g \in DOMAIN subs :
             /\ subs'[g].finished = subs[g].finished /\ subs'[g].ready = subs[g].ready
             /\ g \notin h[t].gens => subs'[g].consumed = subs[g].consumed
    BY ConsumedSubs DEF IInv, Types
  <1>3. /\ r \in [st : Live \cup {"none", "done", "failed", "plain"},
                  gens : SUBSET Nat, rows : SUBSET (Nat \X Rows)]
        /\ r.gens = h[t].gens /\ r.st = s /\ r.rows = {}
    BY HandlerRecords DEF Live
  <1>. HIDE DEF r
  <1>4. r.st # "taken" /\ r.st # "queued"
    BY <1>3
  <1>. QED  BY <1>1, <1>2, <1>3, <1>4, HandlerFrame

LEMMA StepHandlerCopy ==
    ASSUME IInv, NEW t \in Targets, HandlerCopy(t)
    PROVE  IInv'
  <1>1. /\ h[t].st = "taken" /\ Consumed(t) /\ UNCHANGED <<mode, python, bytes>>
        /\ h' = [h EXCEPT ![t].st = "copied", ![t].rows = {}]
    BY DEF HandlerCopy
  <1>2. ASSUME NEW c \in copied' PROVE c[3] = <<c[1], c[2]>>
    <2>1. PICK x \in h[t].rows : c = <<t[2], x[2][1], bytes[subs[x[1]].bank][x[2][2]]>>
      BY <1>2 DEF HandlerCopy
    <2>2. x[1] \in h[t].gens /\ RowOK(x[1], x[2])
      BY DEF IInv, HandlerInv
    <2>3. subs[x[1]].t = t
      BY <2>2 DEF IInv, HandlerInv
    <2>. QED  BY <2>1, <2>2, <2>3 DEF RowOK
  <1>3. CopiedBytes'
    BY <1>2 DEF CopiedBytes
  <1>4. h[t].st \in Live
    BY <1>1 DEF Live
  <1>. QED  BY <1>1, <1>3, <1>4, ConsumedStep

LEMMA StepHandlerThrows ==
    ASSUME IInv, NEW t \in Targets, HandlerThrows(t)
    PROVE  IInv'
  <1>1. /\ h[t].st \in Live /\ Consumed(t) /\ UNCHANGED <<mode, python, bytes>>
        /\ h' = [h EXCEPT ![t].st = "failed", ![t].rows = {}] /\ copied' = copied
    BY DEF HandlerThrows, Live
  <1>2. CopiedBytes'
    BY <1>1 DEF IInv, CopiedBytes
  <1>. QED  BY <1>1, <1>2, ConsumedStep

LEMMA StepHandlerFinish ==
    ASSUME IInv, NEW t \in Targets, HandlerFinish(t)
    PROVE  IInv'
  <1>. DEFINE r == [h[t] EXCEPT !.st = "done"]
  <1>1. /\ h[t].st = "copied" /\ UNCHANGED <<mode, python, bytes>> /\ copied' = copied /\ subs' = subs
        /\ h' = [h EXCEPT ![t] = r]
    BY DEF HandlerFinish, IInv, Types
  <1>2. /\ r \in [st : Live \cup {"none", "done", "failed", "plain"},
                  gens : SUBSET Nat, rows : SUBSET (Nat \X Rows)]
        /\ r.gens = h[t].gens /\ r.st = "done" /\ r.rows = h[t].rows
    BY DEF IInv, Types, Live
  <1>. HIDE DEF r
  <1>3. h[t].rows = {}
    BY <1>1 DEF IInv, HandlerInv
  <1>4. Touched
    BY <1>1, SubsFacts DEF Touched, Same, IInv, Types
  <1>5. h[t].st \in Live /\ CopiedBytes'
    BY <1>1 DEF Live, IInv, CopiedBytes
  <1>6. \A g \in DOMAIN subs : /\ subs'[g].ready = subs[g].ready /\ subs'[g].finished = subs[g].finished
                               /\ subs'[g].consumed = subs[g].consumed
    BY <1>1
  <1>. QED  BY <1>1, <1>2, <1>3, <1>4, <1>5, <1>6, HandlerFrame
-----------------------------------------------------------------------------
(* The theorems.                                                           *)

LEMMA InitEstablishes == Init => IInv
  <1>. SUFFICES ASSUME Init PROVE IInv
    OBVIOUS
  <1>. USE DEF Init
  <1>1. Types
    <2>1. NF \in 1 .. MaxForwards /\ 1 \in 1 .. NF /\ 1 \in 1 .. NL
      BY ModeFacts, ConstantFacts
    <2>2. subs \in Seq(Subs)
      BY EmptySeq
    <2>. QED  BY <2>1, <2>2 DEF Types, NoScan, Live
  <1>2. DOMAIN subs = {}
    BY EmptySeq
  <1>3. OwnerInv
    BY DEF OwnerInv
  <1>4. FillInv
    BY <1>2 DEF FillInv
  <1>5. ScanInv /\ LeaseInv
    BY DEF ScanInv, LeaseInv, Scanned, NoScan
  <1>6. HandlerInv /\ CopiedBytes
    BY DEF HandlerInv, CopiedBytes, Live
  <1>. QED  BY <1>1, <1>3, <1>4, <1>5, <1>6 DEF IInv

LEMMA NextPreserves == IInv /\ [Next]_vars => IInv'
  <1>. SUFFICES ASSUME IInv, [Next]_vars PROVE IInv'
    OBVIOUS
  <1>1. ASSUME NEW l \in 2 .. NL, NEW ids \in EarlyIds, Predict(l, ids) PROVE IInv'
    BY <1>1, StepPredict
  <1>2. ASSUME NEW ids \in TailIds, Refine(ids) PROVE IInv'
    BY <1>2, StepRefine
  <1>3. CASE RefineNoIO
    BY <1>3, StepStutter DEF RefineNoIO
  <1>4. CASE HostDemand
    BY <1>4, StepHostDemand
  <1>5. CASE Attach
    BY <1>5, StepAttach
  <1>6. CASE Promote
    BY <1>6, StepPromote
  <1>7. ASSUME NEW R \in Routes, SyncStart(R) PROVE IInv'
    BY <1>7, StepSyncStart
  <1>8. CASE Python
    BY <1>8, StepReapAttached, StepTake, StepReapMissed, StepBind, StepWaitOver, StepTakeReady,
       StepSyncCopy DEF Python
  <1>9. ASSUME NEW g \in Generations, Fill(g) PROVE IInv'
    <2>1. g \in DOMAIN subs
      BY <1>9 DEF Fill
    <2>2. ASSUME NEW present \in Residents, FillBegin(g, present) PROVE IInv'
      BY <2>1, <2>2, StepFillBegin
    <2>3. ASSUME NEW ok \in BOOLEAN, ReadEnd(g, ok) PROVE IInv'
      BY <2>1, <2>3, StepReadEnd
    <2>. QED  BY <1>9, <2>1, <2>2, <2>3, StepOpenFails, StepReadBegin, StepFillEnd, StepInflightDone DEF Fill
  <1>10. ASSUME NEW t \in Targets, Handler(t) PROVE IInv'
    BY <1>10, StepHandlerTake, StepHandlerCopy, StepHandlerFinish, StepHandlerThrows DEF Handler
  <1>11. CASE UNCHANGED vars
    BY <1>11, StepStutter DEF vars, python
  <1>. QED  BY <1>1, <1>2, <1>3, <1>4, <1>5, <1>6, <1>7, <1>8, <1>9, <1>10, <1>11 DEF Next

\* Bytes in flight are never overwritten: the bank of a fill that has not
\* ended has not been given back, by whichever of the three paths.
THEOREM FillsKeepTheirBank == Spec => []FillOwnsBank
  <1>1. IInv => FillOwnsBank
    BY DEF IInv, FillInv, FillOwnsBank, Active, Held
  <1>. QED  BY <1>1, InitEstablishes, NextPreserves, PTL DEF Spec

\* Every row a demand, a handler or a late promotion copies into the pool
\* holds the bytes of its expert in its layer.
THEOREM CopiesAreRight == Spec => []CopiedBytes
  <1>1. IInv => CopiedBytes
    BY DEF IInv
  <1>. QED  BY <1>1, InitEstablishes, NextPreserves, PTL DEF Spec
-----------------------------------------------------------------------------
(* The records of a target.                                                *)

\* Submissions of a target whose reader has not taken its leave.
Open(t) == {g \in DOMAIN subs : subs[g].t = t /\ subs[g].st # "done"}

\* The Python thread has built the demand of this target.
Past(t) == pc = "over" \/ t[1] < pos.f \/ (t[1] = pos.f /\ t[2] < pos.l)

Empty(r) == r.seen = {} /\ r.pending = {} /\ r.complete = {} /\ ~r.barrier

RecordTypes ==
    tgt \in [Targets -> [seen : SUBSET Experts, pending : SUBSET Experts, complete : SUBSET Experts,
                         inflight : Int, barrier : BOOLEAN, over : BOOLEAN]]
CountInv == \A t \in Targets : Tracked(t) => tgt[t].inflight = Cardinality(Open(t))
OrderInv ==
    /\ \A t \in Targets : h[t].st # "none" => Past(t)
    /\ pc = "reap" => ~Past(arg.t)
FreedInv ==
    \A t \in Targets : EndedWell(t) =>
        IF tgt[t].inflight = 0 THEN Empty(tgt[t]) ELSE tgt[t].over

RInv == RecordTypes /\ CountInv /\ OrderInv /\ FreedInv

LEMMA OpenFinite ==
    ASSUME IInv, NEW t
    PROVE  IsFiniteSet(Open(t)) /\ Cardinality(Open(t)) \in Nat
  <1>1. /\ Len(subs) \in Nat /\ Open(t) \subseteq 1 .. Len(subs)
    BY SubsFacts DEF IInv, Types, Open
  <1>2. IsFiniteSet(1 .. Len(subs))
    BY <1>1, FS_Interval
  <1>3. IsFiniteSet(Open(t))
    BY <1>1, <1>2, FS_Subset
  <1>. QED  BY <1>3, FS_CardinalityType

\* Nobody enters or leaves.
LEMMA OpenStays ==
    ASSUME DOMAIN subs' = DOMAIN subs,
           \A g \in DOMAIN subs : subs'[g].t = subs[g].t /\ (subs'[g].st = "done" <=> subs[g].st = "done")
    PROVE  \A t : Open(t)' = Open(t)
  BY DEF Open

LEMMA TouchedOpen == Touched => \A t : Open(t)' = Open(t)
  BY OpenStays DEF Touched, Same

\* The records of no target change, and no demand ends well.
LEMMA RecordsStay ==
    ASSUME RInv, OrderInv', UNCHANGED <<mode, tgt>>, \A t : Open(t)' = Open(t),
           \A t \in Targets : EndedWell(t)' => EndedWell(t)
    PROVE  RInv'
  <1>1. RecordTypes' /\ FreedInv'
    BY DEF RInv, RecordTypes, FreedInv, Empty
  <1>2. CountInv'
    BY DEF RInv, CountInv, Tracked
  <1>. QED  BY <1>1, <1>2 DEF RInv

LEMMA EndedStays ==
    ASSUME UNCHANGED <<mode, h>>
    PROVE  \A t \in Targets : EndedWell(t)' => EndedWell(t)
  BY DEF EndedWell

\* What lies behind stays behind, and the block that has been left joins it.
LEMMA OrderAdvance ==
    ASSUME IInv, RInv, Advance, pc # "over",
           \A t \in Targets : h'[t].st # "none" => h[t].st # "none" \/ t = Here
    PROVE  OrderInv'
  <1>1. pc' # "reap"
    BY DEF Advance
  <1>2. pos.f \in Int /\ pos.l \in Int /\ pos = [f |-> pos.f, l |-> pos.l]
    BY ModeFacts, ConstantFacts DEF IInv, Types
  <1>3. ASSUME NEW t \in Targets, Past(t) \/ t = Here
        PROVE  Past(t)'
    <2>1. t[1] \in Int /\ t[2] \in Int /\ (t[1] < pos.f \/ (t[1] = pos.f /\ t[2] <= pos.l))
      BY <1>2, <1>3, ConstantFacts DEF Past, Here, Targets
    <2>. QED  BY <1>2, <2>1, ConstantFacts DEF Advance, Past
  <1>4. ASSUME NEW t \in Targets, h'[t].st # "none"
        PROVE  Past(t)'
    BY <1>3, <1>4 DEF RInv, OrderInv
  <1>. QED  BY <1>1, <1>4 DEF OrderInv

LEMMA OrderStays ==
    ASSUME RInv, UNCHANGED <<pos, pc, arg>>,
           \A t \in Targets : h'[t].st # "none" => h[t].st # "none"
    PROVE  OrderInv'
  BY DEF RInv, OrderInv, Past

\* A block predicts targets further on.
LEMMA RecordsSubmit ==
    ASSUME IInv, RInv, NEW l \in Int, l > pos.l, pc = "build", NEW ids, NEW prio,
           StartSubmit(<<pos.f, l>>, ids, prio), UNCHANGED <<mode, pos, subs, tgt, h>>
    PROVE  RInv'
  <1>1. pos.f \in Int /\ pos.l \in Int
    BY ModeFacts, ConstantFacts DEF IInv, Types
  <1>2. pc' = "reap" /\ arg'.t = <<pos.f, l>>
    BY DEF StartSubmit
  <1>3. OrderInv'
    BY <1>1, <1>2 DEF RInv, OrderInv, Past
  <1>4. \A t : Open(t)' = Open(t)
    BY DEF Open
  <1>. QED  BY <1>3, <1>4, EndedStays, RecordsStay

LEMMA RecordsPredict ==
    ASSUME IInv, RInv, NEW l \in 2 .. NL, NEW ids, Predict(l, ids)
    PROVE  RInv'
  <1>1. Ahead[l] \in Nat \ {0} /\ l \in Int /\ l > pos.l
    BY StagingAssumption, ConstantFacts DEF Predict
  <1>. QED  BY <1>1, RecordsSubmit DEF Predict, Building

LEMMA RecordsRefine ==
    ASSUME IInv, RInv, NEW ids, Refine(ids)
    PROVE  RInv'
  <1>1. pos.l + 1 \in Int /\ pos.l + 1 > pos.l
    BY ConstantFacts DEF IInv, Types
  <1>. QED  BY <1>1, RecordsSubmit DEF Refine, Refinable, Building

\* The other steps that leave the records alone.
LEMMA RecordsQuiet ==
    ASSUME IInv, RInv,
           \/ RefineNoIO \/ HostDemand \/ WaitOver \/ TakeReady \/ Take \/ ReapAttached \/ ReapMissed
           \/ Promote \/ (\E R \in Routes : SyncStart(R)) \/ UNCHANGED vars
    PROVE  RInv'
  <1>1. CASE RefineNoIO
    BY <1>1, OrderStays, EndedStays, RecordsStay DEF RefineNoIO, Open
  <1>2. CASE HostDemand
    BY <1>2, OrderAdvance, EndedStays, RecordsStay DEF HostDemand, Building, Open
  <1>3. CASE WaitOver
    <2>1. OrderInv'
      BY <1>3 DEF WaitOver, RInv, OrderInv, Past
    <2>. QED  BY <1>3, <2>1, EndedStays, RecordsStay DEF WaitOver, Open
  <1>4. CASE TakeReady
    BY <1>4, OrderStays, EndedStays, RecordsStay DEF TakeReady, Open
  <1>5. CASE Take
    <2>1. PICK b \in Banks : subs' = [subs EXCEPT ![Gen(b)].ready = None]
      BY <1>5 DEF Take
    <2>2. Touched
      BY <2>1, TakenOne, TakenSubs DEF IInv, Types
    <2>. QED  BY <1>5, <2>2, TouchedOpen, OrderStays, EndedStays, RecordsStay DEF Take
  <1>6. CASE ReapAttached
    <2>1. PICK b \in Banks : Released(IF subs[Gen(b)].consumed /\ subs[Gen(b)].finished THEN {b} ELSE {})
      BY <1>6 DEF ReapAttached
    <2>2. Touched
      BY <2>1, ReleasedSubs DEF IInv, Types
    <2>. QED  BY <1>6, <2>2, TouchedOpen, OrderStays, EndedStays, RecordsStay DEF ReapAttached
  <1>7. CASE ReapMissed
    <2>1. PICK b \in Banks : Released(IF subs[Gen(b)].finished THEN {b} ELSE {})
      BY <1>7 DEF ReapMissed
    <2>2. Touched
      BY <2>1, ReleasedSubs DEF IInv, Types
    <2>. QED  BY <1>7, <2>2, TouchedOpen, OrderStays, EndedStays, RecordsStay DEF ReapMissed
  <1>8. CASE Promote
    <2>1. \A t : Open(t)' = Open(t)
      <3>1. CASE subs' = subs
        BY <3>1 DEF Open
      <3>2. CASE \E g \in DOMAIN subs : subs' = [subs EXCEPT ![g].ready = None]
        BY <3>2, TakenOne, TakenSubs, TouchedOpen DEF IInv, Types
      <3>. QED  BY <1>8, <3>1, <3>2 DEF Promote
    <2>2. pc = "build" /\ Advance /\ UNCHANGED <<mode, h, tgt>>
      BY <1>8 DEF Promote, Building
    <2>. QED  BY <2>1, <2>2, OrderAdvance, EndedStays, RecordsStay
  <1>9. CASE \E R \in Routes : SyncStart(R)
    <2>1. PICK R \in Routes : SyncStart(R)
      BY <1>9
    <2>2. OrderInv'
      BY <2>1 DEF SyncStart, Building, RInv, OrderInv, Past
    <2>. QED  BY <2>1, <2>2, EndedStays, RecordsStay DEF SyncStart, Open
  <1>10. CASE UNCHANGED vars
    BY <1>10, OrderStays, EndedStays, RecordsStay DEF vars, python, Open
  <1>. QED  BY <1>1, <1>2, <1>3, <1>4, <1>5, <1>6, <1>7, <1>8, <1>9, <1>10

RecordType == [seen : SUBSET Experts, pending : SUBSET Experts, complete : SUBSET Experts,
               inflight : Int, barrier : BOOLEAN, over : BOOLEAN]

\* DemandFinished frees the records, or leaves that to the last reader.
LEMMA FinishedFacts ==
    ASSUME RecordTypes, NEW t \in Targets
    PROVE  /\ DemandFinished(t) \in RecordType
           /\ DemandFinished(t).inflight = tgt[t].inflight
           /\ IF tgt[t].inflight = 0 THEN Empty(DemandFinished(t)) ELSE DemandFinished(t).over
  BY DEF RecordTypes, RecordType, DemandFinished, Cleared, Empty

\* The demand of t is over: its records are freed or marked.
LEMMA RecordsFinish ==
    ASSUME IInv, RInv, OrderInv', NEW t \in Targets, mode' = mode, \A s : Open(s)' = Open(s),
           tgt' = [tgt EXCEPT ![t] = DemandFinished(t)],
           \A s \in Targets : s # t => (EndedWell(s)' => EndedWell(s))
    PROVE  RInv'
  <1>1. /\ DemandFinished(t) \in RecordType
        /\ DemandFinished(t).inflight = tgt[t].inflight
        /\ IF tgt[t].inflight = 0 THEN Empty(DemandFinished(t)) ELSE DemandFinished(t).over
    BY FinishedFacts DEF RInv
  <1>2. RecordTypes'
    BY <1>1 DEF RInv, RecordTypes, RecordType
  <1>3. /\ tgt'[t] = DemandFinished(t)
        /\ \A s \in Targets : s # t => tgt'[s] = tgt[s]
    BY DEF RInv, RecordTypes
  <1>4. CountInv'
    BY <1>1, <1>3 DEF RInv, CountInv, Tracked
  <1>5. ASSUME NEW s \in Targets, EndedWell(s)'
        PROVE  IF tgt'[s].inflight = 0 THEN Empty(tgt'[s]) ELSE tgt'[s].over
    <2>1. CASE s = t
      BY <1>1, <1>3, <2>1
    <2>2. CASE s # t
      BY <1>3, <1>5, <2>2 DEF RInv, FreedInv
    <2>. QED  BY <2>1, <2>2
  <1>6. FreedInv'
    BY <1>5 DEF FreedInv, Empty
  <1>. QED  BY <1>2, <1>4, <1>6 DEF RInv

LEMMA RecordsSyncCopy ==
    ASSUME IInv, RInv, SyncCopy
    PROVE  RInv'
  <1>. DEFINE B == {x.bank : x \in {y \in leases : y.fin}}
  <1>1. /\ pc = "take" /\ Released(B) /\ mode' = mode /\ Advance
        /\ tgt' = IF plan[Here].refined THEN [tgt EXCEPT ![Here] = DemandFinished(Here)] ELSE tgt
        /\ h' = [h EXCEPT ![Here].st = IF plan[Here].refined THEN "done" ELSE "plain"]
    BY DEF SyncCopy
  <1>. HIDE DEF B
  <1>2. \A t : Open(t)' = Open(t)
    BY <1>1, ReleasedSubs, TouchedOpen DEF IInv, Types
  <1>3. \A t \in Targets : t # Here => h'[t] = h[t]
    BY <1>1 DEF IInv, Types
  <1>4. OrderInv'
    BY <1>1, <1>3, OrderAdvance
  <1>5. \A t \in Targets : t # Here => (EndedWell(t)' => EndedWell(t))
    BY <1>1, <1>3 DEF EndedWell
  <1>6. CASE plan[Here].refined /\ Here \in Targets
    BY <1>1, <1>2, <1>4, <1>5, <1>6, RecordsFinish
  <1>7. CASE Here \notin Targets
    <2>1. tgt' = tgt
      BY <1>1, <1>7 DEF RInv, RecordTypes
    <2>. QED  BY <1>1, <1>2, <1>4, <1>5, <1>7, <2>1, RecordsStay
  <1>8. CASE ~plan[Here].refined /\ Here \in Targets
    <2>1. tgt' = tgt
      BY <1>1, <1>8
    <2>2. h'[Here].st = "plain"
      BY <1>1, <1>8 DEF IInv, Types
    <2>3. \A t \in Targets : EndedWell(t)' => EndedWell(t)
      BY <1>5, <2>2 DEF EndedWell
    <2>. QED  BY <1>1, <1>2, <1>4, <2>1, <2>3, RecordsStay
  <1>. QED  BY <1>6, <1>7, <1>8

LEMMA RecordsAttach ==
    ASSUME IInv, RInv, Attach
    PROVE  RInv'
  <1>1. PICK gens : h' = [h EXCEPT ![Here] = [st |-> "queued", gens |-> gens, rows |-> {}]]
    BY DEF Attach
  <1>2. pc = "build" /\ Advance /\ UNCHANGED <<mode, subs, tgt>>
    BY DEF Attach, Building
  <1>3. \A t \in Targets : IF t = Here THEN h'[t].st = "queued" ELSE h'[t] = h[t]
    BY <1>1 DEF IInv, Types
  <1>4. OrderInv'
    BY <1>2, <1>3, OrderAdvance
  <1>5. \A t \in Targets : EndedWell(t)' => EndedWell(t)
    BY <1>2, <1>3 DEF EndedWell
  <1>6. \A t : Open(t)' = Open(t)
    BY <1>2 DEF Open
  <1>. QED  BY <1>2, <1>4, <1>5, <1>6, RecordsStay

\* A submission is counted for a target whose demand is still to come.
LEMMA RecordsBind ==
    ASSUME IInv, RInv, Bind
    PROVE  RInv'
  <1>1. pc = "reap" /\ pc' = "build" /\ UNCHANGED <<mode, pos, h>>
    BY DEF Bind
  <1>2. OrderInv'
    BY <1>1 DEF RInv, OrderInv, Past
  <1>3. CASE UNCHANGED <<subs, tgt>>
    BY <1>1, <1>2, <1>3, EndedStays, RecordsStay DEF Open
  <1>4. ASSUME NEW b \in Banks,
               subs' = Append(subs,
                   [t |-> arg.t, prio |-> arg.prio, bank |-> b, ids |-> arg.ids, st |-> "queued",
                    rows |-> {}, writing |-> FALSE,
                    ready |-> None, finished |-> FALSE, consumed |-> FALSE]),
               tgt' = [tgt EXCEPT ![arg.t].inflight = IF Tracked(arg.t) THEN @ + 1 ELSE @]
        PROVE  RInv'
    <2>. DEFINE rec == [t |-> arg.t, prio |-> arg.prio, bank |-> b, ids |-> arg.ids, st |-> "queued",
                        rows |-> {}, writing |-> FALSE,
                        ready |-> None, finished |-> FALSE, consumed |-> FALSE]
                n == Len(subs) + 1
    <2>1. arg.t \in Targets /\ arg.prio \in Nat /\ arg.ids \in Seq(Experts)
      BY <1>1 DEF IInv, Types
    <2>2. rec \in Subs /\ rec.t = arg.t /\ rec.st = "queued"
      BY <2>1 DEF Subs, FillStates
    <2>3. subs' = Append(subs, rec)
      BY <1>4
    <2>. HIDE DEF rec
    <2>4. /\ Len(subs) \in Nat /\ DOMAIN subs = 1 .. Len(subs) /\ subs \in Seq(Subs)
      BY SubsFacts DEF IInv, Types
    <2>5. /\ subs' \in Seq(Subs) /\ Len(subs') = n /\ subs'[n] = rec
          /\ \A g \in DOMAIN subs : subs'[g] = subs[g]
      BY <2>2, <2>3, <2>4, AppendProperties
    <2>6. DOMAIN subs' = DOMAIN subs \cup {n} /\ n \notin DOMAIN subs
      BY <2>4, <2>5, LenProperties
    <2>. HIDE DEF n
    <2>7. \A t : t # arg.t => Open(t)' = Open(t)
      BY <2>2, <2>5, <2>6 DEF Open
    <2>8. ASSUME NEW t, t = arg.t
          PROVE  Open(t)' = Open(t) \cup {n} /\ n \notin Open(t)
      BY <2>2, <2>5, <2>6, <2>8 DEF Open
    <2>9. PICK t \in Targets : t = arg.t
      BY <2>1
    <2>10. tgt' = [tgt EXCEPT ![t] = [tgt[t] EXCEPT !.inflight = IF Tracked(t) THEN @ + 1 ELSE @]]
      BY <1>4, <2>9 DEF RInv, RecordTypes
    <2>11. h[t].st = "none"
      BY <1>1, <2>9 DEF RInv, OrderInv
    <2>12. RecordTypes'
      BY <2>10 DEF RInv, RecordTypes
    <2>13. ASSUME NEW s \in Targets, Tracked(s)
           PROVE  tgt'[s].inflight = Cardinality(Open(s)')
      <3>1. CASE s = t
        <4>1. tgt'[s].inflight = tgt[s].inflight + 1
          BY <2>10, <2>13, <3>1 DEF RInv, RecordTypes
        <4>2. IsFiniteSet(Open(s)) /\ Open(s)' = Open(s) \cup {n} /\ n \notin Open(s)
          BY <2>8, <2>9, <3>1, OpenFinite
        <4>3. Cardinality(Open(s) \cup {n}) = Cardinality(Open(s)) + 1
          BY <4>2, FS_AddElement
        <4>4. tgt[s].inflight = Cardinality(Open(s))
          BY <2>13 DEF RInv, CountInv
        <4>. QED  BY <4>1, <4>2, <4>3, <4>4
      <3>2. CASE s # t
        BY <2>7, <2>9, <2>10, <2>13, <3>2 DEF RInv, CountInv, RecordTypes
      <3>. QED  BY <3>1, <3>2
    <2>14. CountInv'
      BY <1>1, <2>13 DEF CountInv, Tracked
    <2>15. FreedInv'
      BY <1>1, <2>10, <2>11 DEF RInv, FreedInv, EndedWell, RecordTypes, Empty
    <2>. QED  BY <1>2, <2>12, <2>14, <2>15 DEF RInv
  <1>. QED  BY <1>3, <1>4 DEF Bind
-----------------------------------------------------------------------------
(* Readers and handlers work on the records of one target.                 *)

LEMMA RecordsFrame ==
    ASSUME RInv, NEW t \in Targets, NEW r \in RecordType, tgt' = [tgt EXCEPT ![t] = r],
           UNCHANGED <<mode, python, h>>, \A s : s # t => Open(s)' = Open(s),
           Tracked(t) => r.inflight = Cardinality(Open(t)'),
           EndedWell(t) => IF r.inflight = 0 THEN Empty(r) ELSE r.over
    PROVE  RInv'
  <1>1. OrderInv'
    BY OrderStays DEF python
  <1>2. RecordTypes'
    BY DEF RInv, RecordTypes, RecordType
  <1>3. tgt'[t] = r /\ \A s \in Targets : s # t => tgt'[s] = tgt[s]
    BY DEF RInv, RecordTypes
  <1>4. CountInv'
    BY <1>3 DEF RInv, CountInv, Tracked
  <1>5. \A s \in Targets : EndedWell(s)' => IF tgt'[s].inflight = 0 THEN Empty(tgt'[s]) ELSE tgt'[s].over
    BY <1>3, EndedStays DEF RInv, FreedInv
  <1>6. FreedInv'
    BY <1>5 DEF FreedInv, Empty
  <1>. QED  BY <1>1, <1>2, <1>4, <1>6 DEF RInv

\* A reader that is counted keeps the records of a demand that is over, to
\* free them when it leaves.
LEMMA RecordsReader ==
    ASSUME IInv, RInv, NEW g \in DOMAIN subs, NEW t, t = subs[g].t, subs[g].st # "done", NEW r \in RecordType,
           tgt' = [tgt EXCEPT ![t] = r], r.inflight = tgt[t].inflight, r.over = tgt[t].over,
           ~Tracked(t) => (Empty(tgt[t]) => Empty(r)),
           UNCHANGED <<mode, python, h>>, \A s : Open(s)' = Open(s)
    PROVE  RInv'
  <1>1. t \in Targets
    BY SubsFacts, RecordFields DEF IInv, Types
  <1>2. Tracked(t) => r.inflight = Cardinality(Open(t)')
    BY <1>1 DEF RInv, CountInv
  <1>3. Tracked(t) => tgt[t].inflight # 0
    <2>1. g \in Open(t) /\ IsFiniteSet(Open(t))
      BY OpenFinite DEF Open
    <2>2. Cardinality(Open(t)) # 0
      BY <2>1, FS_EmptySet
    <2>. QED  BY <1>1, <2>2 DEF RInv, CountInv
  <1>4. EndedWell(t) => IF r.inflight = 0 THEN Empty(r) ELSE r.over
    BY <1>1, <1>3 DEF RInv, FreedInv
  <1>. QED  BY <1>1, <1>2, <1>4, RecordsFrame

LEMMA RecordsFillBegin ==
    ASSUME IInv, RInv, NEW g \in DOMAIN subs, NEW present, FillBegin(g, present)
    PROVE  RInv'
  <1>1. PICK t : t = subs[g].t
    OBVIOUS
  <1>. DEFINE rows == FirstRows(subs[g].ids, present \cup tgt[t].seen)
              es == {p[1] : p \in rows}
              r == [tgt[t] EXCEPT !.seen = @ \cup es, !.pending = @ \cup es, !.barrier = @ \/ subs[g].prio > 0]
  <1>2. t \in Targets /\ subs[g].ids \in Seq(Experts) /\ subs[g].st = "queued"
    BY <1>1, SubsFacts, RecordFields DEF IInv, Types, FillBegin
  <1>3. /\ subs' = [subs EXCEPT ![g].st = "reserved", ![g].rows = rows] /\ UNCHANGED <<mode, python, h>>
        /\ tgt' = IF ~Tracked(t) THEN tgt
                  ELSE [tgt EXCEPT ![t].seen = @ \cup es, ![t].pending = @ \cup es,
                                   ![t].barrier = @ \/ subs[g].prio > 0]
    BY <1>1 DEF FillBegin
  <1>4. es \subseteq Experts
    BY <1>2, FirstRowsFacts DEF Rows
  <1>. HIDE DEF rows
  <1>5. \A s : Open(s)' = Open(s)
    <2>1. \A k \in DOMAIN subs : subs[k] \in Subs
      BY SubsFacts DEF IInv, Types
    <2>2. /\ DOMAIN subs' = DOMAIN subs
          /\ \A k \in DOMAIN subs : subs'[k].t = subs[k].t /\ (subs'[k].st = "done" <=> subs[k].st = "done")
      BY <1>2, <1>3, <2>1 DEF Subs
    <2>. QED  BY <2>2, OpenStays
  <1>6. CASE ~Tracked(t)
    BY <1>3, <1>5, <1>6, OrderStays, EndedStays, RecordsStay DEF python
  <1>7. CASE Tracked(t)
    <2>. HIDE DEF es
    <2>1. /\ r \in RecordType /\ r.inflight = tgt[t].inflight
          /\ r.over = tgt[t].over
      BY <1>2, <1>4 DEF RInv, RecordTypes, RecordType
    <2>2. tgt' = [tgt EXCEPT ![t] = r]
      BY <1>2, <1>3, <1>7 DEF RInv, RecordTypes
    <2>3. subs[g].st # "done" /\ UNCHANGED <<mode, python, h>>
      BY <1>2, <1>3
    <2>4. ~Tracked(t) => (Empty(tgt[t]) => Empty(r))
      BY <1>7
    <2>. HIDE DEF r
    <2>. QED  BY <1>1, <1>5, <2>1, <2>2, <2>3, <2>4, RecordsReader
  <1>. QED  BY <1>6, <1>7

LEMMA RecordsOpenFails ==
    ASSUME IInv, RInv, NEW g \in DOMAIN subs, OpenFails(g)
    PROVE  RInv'
  <1>1. PICK t : t = subs[g].t
    OBVIOUS
  <1>. DEFINE r == [tgt[t] EXCEPT !.pending = @ \ {p[1] : p \in subs[g].rows}]
  <1>2. t \in Targets /\ subs[g].st = "reserved"
    BY <1>1, SubsFacts, RecordFields DEF IInv, Types, OpenFails
  <1>3. /\ subs' = [subs EXCEPT ![g].st = "ended", ![g].rows = {}, ![g].finished = TRUE]
        /\ UNCHANGED <<mode, python, h>>
        /\ tgt' = [tgt EXCEPT ![t].pending = @ \ {p[1] : p \in subs[g].rows}]
    BY <1>1 DEF OpenFails
  <1>4. \A s : Open(s)' = Open(s)
    <2>1. \A k \in DOMAIN subs : subs[k] \in Subs
      BY SubsFacts DEF IInv, Types
    <2>2. /\ DOMAIN subs' = DOMAIN subs
          /\ \A k \in DOMAIN subs : subs'[k].t = subs[k].t /\ (subs'[k].st = "done" <=> subs[k].st = "done")
      BY <1>2, <1>3, <2>1 DEF Subs
    <2>. QED  BY <2>2, OpenStays
  <1>5. /\ r \in RecordType /\ r.inflight = tgt[t].inflight
        /\ r.over = tgt[t].over /\ (Empty(tgt[t]) => Empty(r))
    BY <1>2 DEF RInv, RecordTypes, RecordType, Empty
  <1>6. tgt' = [tgt EXCEPT ![t] = r]
    BY <1>2, <1>3 DEF RInv, RecordTypes
  <1>. HIDE DEF r
  <1>. QED  BY <1>1, <1>2, <1>3, <1>4, <1>5, <1>6, RecordsReader

LEMMA RecordsReadBegin ==
    ASSUME IInv, RInv, NEW g \in DOMAIN subs, ReadBegin(g)
    PROVE  RInv'
  <1>1. subs' = [subs EXCEPT ![g].st = "reading", ![g].writing = TRUE] /\ UNCHANGED <<mode, python, h, tgt>>
    BY DEF ReadBegin
  <1>2. subs[g].st # "done" /\ \A k \in DOMAIN subs : subs[k] \in Subs
    BY SubsFacts DEF IInv, Types, ReadBegin, Filling
  <1>3. /\ DOMAIN subs' = DOMAIN subs
        /\ \A k \in DOMAIN subs : subs'[k].t = subs[k].t /\ (subs'[k].st = "done" <=> subs[k].st = "done")
    BY <1>1, <1>2 DEF Subs
  <1>. QED  BY <1>1, <1>3, OpenStays, OrderStays, EndedStays, RecordsStay DEF python

LEMMA RecordsFillEnd ==
    ASSUME IInv, RInv, NEW g \in DOMAIN subs, FillEnd(g)
    PROVE  RInv'
  <1>1. /\ subs' = [subs EXCEPT ![g].st = "ended", ![g].finished = TRUE,
                                ![g].ready = IF @ = None THEN {} ELSE @]
        /\ UNCHANGED <<mode, python, h, tgt>>
    BY DEF FillEnd
  <1>2. subs[g].st # "done" /\ \A k \in DOMAIN subs : subs[k] \in Subs
    BY SubsFacts DEF IInv, Types, FillEnd, Filling
  <1>3. /\ DOMAIN subs' = DOMAIN subs
        /\ \A k \in DOMAIN subs : subs'[k].t = subs[k].t /\ (subs'[k].st = "done" <=> subs[k].st = "done")
    BY <1>1, <1>2 DEF Subs
  <1>. QED  BY <1>1, <1>3, OpenStays, OrderStays, EndedStays, RecordsStay DEF python

LEMMA RecordsReadEnd ==
    ASSUME IInv, RInv, NEW g \in DOMAIN subs, NEW ok \in BOOLEAN, ReadEnd(g, ok)
    PROVE  RInv'
  <1>1. PICK t : t = subs[g].t
    OBVIOUS
  <1>2. PICK p \in subs[g].rows :
          /\ subs' = [subs EXCEPT ![g].writing = FALSE, ![g].rows = @ \ {p},
                        ![g].ready = IF ok THEN (IF @ = None THEN {p} ELSE @ \cup {p}) ELSE @]
          /\ tgt' = [tgt EXCEPT ![t].pending = @ \ {p[1]},
                                ![t].complete = @ \cup (IF ok /\ Tracked(t) THEN {p[1]} ELSE {})]
    BY <1>1, ZenonT(30) DEF ReadEnd
  <1>. DEFINE r == [tgt[t] EXCEPT !.pending = @ \ {p[1]},
                                  !.complete = @ \cup (IF ok /\ Tracked(t) THEN {p[1]} ELSE {})]
  <1>3. t \in Targets /\ subs[g].st # "done" /\ p[1] \in Experts
    BY <1>1, SubsFacts, RecordFields DEF IInv, Types, ReadEnd, FillInv, Rows
  <1>4. UNCHANGED <<mode, python, h>>
    BY DEF ReadEnd
  <1>5. \A s : Open(s)' = Open(s)
    <2>1. \A k \in DOMAIN subs : subs[k] \in Subs
      BY SubsFacts DEF IInv, Types
    <2>2. /\ DOMAIN subs' = DOMAIN subs
          /\ \A k \in DOMAIN subs : subs'[k].t = subs[k].t /\ (subs'[k].st = "done" <=> subs[k].st = "done")
      BY <1>2, <1>3, <2>1 DEF Subs
    <2>. QED  BY <2>2, OpenStays
  <1>6. /\ r \in RecordType /\ r.inflight = tgt[t].inflight
        /\ r.over = tgt[t].over /\ (~Tracked(t) => (Empty(tgt[t]) => Empty(r)))
    BY <1>3 DEF RInv, RecordTypes, RecordType, Empty
  <1>7. tgt' = [tgt EXCEPT ![t] = r]
    BY <1>2, <1>3 DEF RInv, RecordTypes
  <1>. HIDE DEF r
  <1>. QED  BY <1>1, <1>3, <1>4, <1>5, <1>6, <1>7, RecordsReader

\* The last reader frees what a demand that is over has left.
LEMMA RecordsInflightDone ==
    ASSUME IInv, RInv, NEW g \in DOMAIN subs, InflightDone(g)
    PROVE  RInv'
  <1>1. PICK t : t = subs[g].t
    OBVIOUS
  <1>. DEFINE left == [tgt[t] EXCEPT !.inflight = @ - 1]
              r == IF ~Tracked(t) THEN tgt[t]
                   ELSE IF left.inflight = 0 /\ left.over THEN Cleared(left) ELSE left
  <1>2. t \in Targets /\ subs[g].st = "ended" /\ \A k \in DOMAIN subs : subs[k] \in Subs
    BY <1>1, SubsFacts, RecordFields DEF IInv, Types, InflightDone
  <1>3. /\ subs' = [subs EXCEPT ![g].st = "done"] /\ UNCHANGED <<mode, python, h>>
        /\ tgt' = [tgt EXCEPT ![t] = r]
    BY <1>1 DEF InflightDone
  <1>4. /\ DOMAIN subs' = DOMAIN subs
        /\ \A k \in DOMAIN subs :
             subs'[k].t = subs[k].t /\ (subs'[k].st = "done" <=> subs[k].st = "done" \/ k = g)
    BY <1>2, <1>3 DEF Subs
  <1>5. \A s : Open(s)' = Open(s) \ {g}
    BY <1>4 DEF Open
  <1>6. \A s : s # t => Open(s)' = Open(s)
    BY <1>1, <1>5 DEF Open
  <1>7. Cardinality(Open(t)') = Cardinality(Open(t)) - 1 /\ Cardinality(Open(t)) \in Nat \ {0}
    <2>1. g \in Open(t) /\ IsFiniteSet(Open(t)) /\ Cardinality(Open(t)) \in Nat
      BY <1>1, <1>2, OpenFinite DEF Open
    <2>2. Cardinality(Open(t)) # 0
      BY <2>1, FS_EmptySet
    <2>3. Cardinality(Open(t) \ {g}) = Cardinality(Open(t)) - 1
      BY <2>1, FS_RemoveElement
    <2>. QED  BY <1>5, <2>1, <2>2, <2>3
  <1>8. tgt[t] \in RecordType
    BY <1>2 DEF RInv, RecordTypes, RecordType
  <1>9. left \in RecordType /\ left.inflight = tgt[t].inflight - 1 /\ left.over = tgt[t].over
    BY <1>8 DEF RecordType
  <1>. HIDE DEF left
  <1>10. Cleared(left) \in RecordType /\ Cleared(left).inflight = left.inflight /\ Empty(Cleared(left))
    BY <1>9 DEF RecordType, Cleared, Empty
  <1>11. r \in RecordType /\ (Tracked(t) => r.inflight = tgt[t].inflight - 1)
    BY <1>8, <1>9, <1>10
  <1>12. Tracked(t) => r.inflight = Cardinality(Open(t)')
    BY <1>2, <1>7, <1>11 DEF RInv, CountInv
  <1>13. ASSUME EndedWell(t)
         PROVE  IF r.inflight = 0 THEN Empty(r) ELSE r.over
    <2>1. CASE ~Tracked(t)
      BY <1>2, <1>13, <2>1 DEF RInv, FreedInv
    <2>2. CASE Tracked(t)
      <3>1. tgt[t].inflight = Cardinality(Open(t)) /\ tgt[t].over
        BY <1>2, <1>7, <1>13, <2>2 DEF RInv, CountInv, FreedInv
      <3>. QED  BY <1>9, <1>10, <2>2, <3>1
    <2>. QED  BY <2>1, <2>2
  <1>. HIDE DEF r
  <1>. QED  BY <1>2, <1>3, <1>6, <1>11, <1>12, <1>13, RecordsFrame

\* A handler ends well when it has handed over what it was given.
LEMMA RecordsHandler ==
    ASSUME IInv, RInv, NEW t \in Targets, Handler(t)
    PROVE  RInv'
  <1>1. UNCHANGED <<mode, python>> /\ h[t].st # "none"
    BY DEF Handler, HandlerTake, HandlerCopy, HandlerFinish, HandlerThrows
  <1>2. \A s \in Targets : s # t => h'[s] = h[s]
    BY DEF Handler, HandlerTake, HandlerCopy, HandlerFinish, HandlerThrows, IInv, Types
  <1>3. OrderInv'
    BY <1>1, <1>2, OrderStays DEF python
  <1>4. ASSUME Touched, tgt' = tgt, h'[t].st # "done"
        PROVE  RInv'
    <2>1. \A s \in Targets : EndedWell(s)' => EndedWell(s)
      BY <1>1, <1>2, <1>4 DEF EndedWell
    <2>. QED  BY <1>1, <1>3, <1>4, <2>1, TouchedOpen, RecordsStay
  <1>5. CASE HandlerTake(t)
    <2>1. Touched /\ tgt' = tgt
      BY <1>5, TakenSubs DEF HandlerTake, IInv, Types
    <2>2. h'[t].st = "taken"
      BY <1>5 DEF HandlerTake, IInv, Types
    <2>. QED  BY <1>4, <2>1, <2>2
  <1>6. CASE HandlerCopy(t)
    <2>1. Touched /\ tgt' = tgt
      BY <1>6, ConsumedSubs DEF HandlerCopy, IInv, Types
    <2>2. h'[t].st = "copied"
      BY <1>6 DEF HandlerCopy, IInv, Types
    <2>. QED  BY <1>4, <2>1, <2>2
  <1>7. CASE HandlerThrows(t)
    <2>1. Touched /\ tgt' = tgt
      BY <1>7, ConsumedSubs DEF HandlerThrows, IInv, Types
    <2>2. h'[t].st = "failed"
      BY <1>7 DEF HandlerThrows, IInv, Types
    <2>. QED  BY <1>4, <2>1, <2>2
  <1>8. CASE HandlerFinish(t)
    <2>1. /\ h[t].st = "copied" /\ h' = [h EXCEPT ![t].st = "done"] /\ subs' = subs
          /\ tgt' = IF h[t].gens # {} THEN [tgt EXCEPT ![t] = DemandFinished(t)] ELSE tgt
      BY <1>8 DEF HandlerFinish
    <2>2. \A s : Open(s)' = Open(s)
      BY <2>1 DEF Open
    <2>3. \A s \in Targets : s # t => (EndedWell(s)' => EndedWell(s))
      BY <1>1, <1>2 DEF EndedWell
    <2>4. CASE h[t].gens # {}
      BY <1>1, <1>3, <2>1, <2>2, <2>3, <2>4, RecordsFinish
    <2>5. CASE h[t].gens = {}
      <3>1. mode.kinds[t[1]] = "async"
        BY <2>1 DEF IInv, HandlerInv, Live
      <3>2. h'[t].gens = {}
        BY <2>1, <2>5 DEF IInv, Types
      <3>3. \A s \in Targets : EndedWell(s)' => EndedWell(s)
        BY <1>1, <2>3, <3>1, <3>2 DEF EndedWell
      <3>. QED  BY <1>1, <1>3, <2>1, <2>2, <2>5, <3>3, RecordsStay
    <2>. QED  BY <2>4, <2>5
  <1>. QED  BY <1>5, <1>6, <1>7, <1>8 DEF Handler

LEMMA InitRecords == Init => RInv
  <1>. SUFFICES ASSUME Init PROVE RInv
    OBVIOUS
  <1>1. DOMAIN subs = {}
    BY EmptySeq DEF Init
  <1>2. \A t : Open(t) = {}
    BY <1>1 DEF Open
  <1>3. RecordTypes /\ FreedInv /\ OrderInv
    BY DEF Init, RecordTypes, FreedInv, EndedWell, OrderInv
  <1>4. CountInv
    BY <1>2, FS_EmptySet DEF Init, CountInv
  <1>. QED  BY <1>3, <1>4 DEF RInv

LEMMA NextRecords == IInv /\ RInv /\ [Next]_vars => RInv'
  <1>. SUFFICES ASSUME IInv, RInv, [Next]_vars PROVE RInv'
    OBVIOUS
  <1>1. ASSUME NEW l \in 2 .. NL, NEW ids \in EarlyIds, Predict(l, ids) PROVE RInv'
    BY <1>1, RecordsPredict
  <1>2. ASSUME NEW ids \in TailIds, Refine(ids) PROVE RInv'
    BY <1>2, RecordsRefine
  <1>3. CASE Attach
    BY <1>3, RecordsAttach
  <1>4. CASE Python
    BY <1>4, RecordsQuiet, RecordsBind, RecordsSyncCopy DEF Python
  <1>5. ASSUME NEW g \in Generations, Fill(g) PROVE RInv'
    <2>1. g \in DOMAIN subs
      BY <1>5 DEF Fill
    <2>2. ASSUME NEW present \in Residents, FillBegin(g, present) PROVE RInv'
      BY <2>1, <2>2, RecordsFillBegin
    <2>3. ASSUME NEW ok \in BOOLEAN, ReadEnd(g, ok) PROVE RInv'
      BY <2>1, <2>3, RecordsReadEnd
    <2>. QED  BY <1>5, <2>1, <2>2, <2>3, RecordsOpenFails, RecordsReadBegin, RecordsFillEnd,
                 RecordsInflightDone DEF Fill
  <1>6. ASSUME NEW t \in Targets, Handler(t) PROVE RInv'
    BY <1>6, RecordsHandler
  <1>7. CASE RefineNoIO \/ HostDemand \/ Promote \/ (\E R \in Routes : SyncStart(R)) \/ UNCHANGED vars
    BY <1>7, RecordsQuiet
  <1>. QED  BY <1>1, <1>2, <1>3, <1>4, <1>5, <1>6, <1>7 DEF Next

\* After a demand that ended well the records of its target are freed, by the
\* demand or by the last of the readers that were still at work on it.
THEOREM RecordsAreFreed == Spec => []TargetRecordsFreed
  <1>1. RInv => TargetRecordsFreed
    BY DEF RInv, FreedInv, TargetRecordsFreed, Empty
  <1>. QED  BY <1>1, InitEstablishes, NextPreserves, InitRecords, NextRecords, PTL DEF Spec
-----------------------------------------------------------------------------
(* Banks come back.                                                        *)

\* Forwards that leave predictions to the next ones are not followed by one
\* that only takes what is its own.
ConsistentPaths ==
    \A m \in Modes : \A j \in DOMAIN m.kinds :
        m.kinds[j] = "async" => \A i \in 1 .. j - 1 : m.kinds[i] \in {"sync", "async"}

Reserved(b) == owner[b] # None /\ owner[b].st = "reserved"

\* Every demand behind us was taken by its handler or copied by Python.
PastInv ==
    \A t \in Targets : t[1] <= NF /\ Past(t) /\ mode.kinds[t[1]] \in {"sync", "async"} => h[t].st # "none"
\* A synchronous demand leaves none of its layer's banks reserved.
SweptInv ==
    pc = "take" => \A b \in Banks : Reserved(b) /\ owner[b].layer = pos.l =>
        b \in scan.todo \/ b = scan.bank \/ \E x \in leases : x.bank = b /\ x.fin

SInv == PastInv /\ SweptInv /\ NoBankStranded

LEMMA OwnerTargets ==
    ASSUME IInv, NEW b \in Banks, owner[b] # None
    PROVE  /\ owner[b].fwd \in 1 .. MaxForwards /\ owner[b].layer \in 2 .. NL
           /\ \A f \in owner[b].fwd .. NF : <<f, owner[b].layer>> \in Targets
  <1>1. PICK g \in DOMAIN subs : subs[g].t = <<owner[b].fwd, owner[b].layer>>
    BY DEF IInv, OwnerInv
  <1>2. subs[g] \in Subs
    BY SubsFacts DEF IInv, Types
  <1>3. <<owner[b].fwd, owner[b].layer>> \in Targets
    BY <1>1, <1>2, RecordFields
  <1>. QED  BY <1>3, ModeFacts, ConstantFacts DEF IInv, Types, Targets

\* No bank is newly reserved, and a demand that is made passes none by.
LEMMA StrandedStay ==
    ASSUME IInv, NoBankStranded, mode' = mode,
           \A b \in Banks : Reserved(b)' => Reserved(b) /\ owner'[b] = owner[b],
           \A t \in Targets : h'[t].st # "none" =>
               \/ h[t].st # "none"
               \/ \A b \in Banks : Reserved(b)' /\ owner'[b].layer = t[2] => ~(owner'[b].fwd <= t[1])
    PROVE  NoBankStranded'
  <1>1. ASSUME NEW b \in Banks, Reserved(b)', NEW f \in owner'[b].fwd .. NF
        PROVE  h'[<<f, owner'[b].layer>>].st = "none"
    <2>1. Reserved(b) /\ owner'[b] = owner[b]
      BY <1>1
    <2>2. PICK t \in Targets : t = <<f, owner[b].layer>>
      BY <1>1, <2>1, OwnerTargets DEF Reserved
    <2>3. h[t].st = "none"
      BY <1>1, <2>1, <2>2 DEF NoBankStranded, PassedBy, Reserved
    <2>4. t[2] = owner'[b].layer /\ owner'[b].fwd <= t[1]
      BY <1>1, <2>1, <2>2
    <2>. QED  BY <1>1, <2>1, <2>2, <2>3, <2>4
  <1>2. \A b \in Banks : Reserved(b)' <=> owner'[b] # None /\ owner'[b].st = "reserved"
    BY DEF Reserved
  <1>. QED  BY <1>1, <1>2 DEF NoBankStranded, PassedBy, NF

\* A step inside a block.
LEMMA StrandFrame ==
    ASSUME IInv, SInv, UNCHANGED <<mode, pos>>, pc' = "over" <=> pc = "over", SweptInv',
           \A b \in Banks : Reserved(b)' => Reserved(b) /\ owner'[b] = owner[b],
           \A t \in Targets : h'[t].st = "none" <=> h[t].st = "none"
    PROVE  SInv'
  <1>1. NoBankStranded'
    BY StrandedStay DEF SInv
  <1>2. PastInv'
    BY DEF SInv, PastInv, Past, NF
  <1>. QED  BY <1>1, <1>2 DEF SInv

\* A step that ends one.
LEMMA StrandAdvance ==
    ASSUME IInv, SInv, Advance, pc # "over", mode' = mode,
           \A b \in Banks : Reserved(b)' => Reserved(b) /\ owner'[b] = owner[b],
           \A t \in Targets : t # Here => (h'[t].st = "none" <=> h[t].st = "none"),
           Here \in Targets => IF Kind \in {"sync", "async"} THEN h'[Here].st # "none" ELSE h'[Here] = h[Here],
           Here \in Targets /\ Kind \in {"sync", "async"} =>
               \A b \in Banks : Reserved(b)' /\ owner'[b].layer = pos.l => ~(owner'[b].fwd <= pos.f)
    PROVE  SInv'
  <1>1. SweptInv'
    BY DEF Advance, SweptInv
  <1>2. NoBankStranded'
    <2>1. ASSUME NEW t \in Targets, h'[t].st # "none"
          PROVE  \/ h[t].st # "none"
                 \/ \A b \in Banks : Reserved(b)' /\ owner'[b].layer = t[2] => ~(owner'[b].fwd <= t[1])
      BY <2>1 DEF Here
    <2>. QED  BY <2>1, StrandedStay DEF SInv
  <1>3. ASSUME NEW t \in Targets, t[1] <= NF, Past(t)', mode.kinds[t[1]] \in {"sync", "async"}
        PROVE  h'[t].st # "none"
    <2>1. CASE t = Here
      BY <1>3, <2>1 DEF Here, Kind
    <2>2. CASE t # Here
      <3>1. /\ pos.f \in 1 .. NF /\ pos.l \in 1 .. NL /\ NF \in Nat /\ pos = [f |-> pos.f, l |-> pos.l]
            /\ t[1] \in Int /\ t[2] \in 2 .. NL /\ t = <<t[1], t[2]>>
        BY ModeFacts, ConstantFacts DEF IInv, Types, Targets
      <3>2. Past(t)
        BY <1>3, <2>2, <3>1, ConstantFacts DEF Past, Advance, Here
      <3>. QED  BY <1>3, <2>2, <3>2 DEF SInv, PastInv
    <2>. QED  BY <2>1, <2>2
  <1>4. PastInv'
    BY <1>3 DEF PastInv, NF
  <1>. QED  BY <1>1, <1>2, <1>4 DEF SInv

\* A prediction is made for a demand that is still to come.
LEMMA StrandBind ==
    ASSUME IInv, RInv, SInv, Bind
    PROVE  SInv'
  <1>1. pc = "reap" /\ pc' = "build" /\ UNCHANGED <<mode, pos, h>>
    BY DEF Bind
  <1>2. SweptInv' /\ PastInv'
    BY <1>1 DEF SInv, SweptInv, PastInv, Past, NF
  <1>3. CASE owner' = owner
    BY <1>1, <1>2, <1>3 DEF SInv, NoBankStranded, PassedBy, NF
  <1>4. ASSUME NEW b \in Banks, NEW gen,
               owner' = [owner EXCEPT ![b] =
                   [layer |-> arg.t[2], gen |-> gen, st |-> "reserved", fwd |-> arg.t[1]]]
        PROVE  SInv'
    <2>1. PICK t \in Targets : t = arg.t
      BY <1>1 DEF IInv, Types
    <2>2. /\ owner'[b] = [layer |-> t[2], gen |-> gen, st |-> "reserved", fwd |-> t[1]]
          /\ \A c \in Banks : c # b => owner'[c] = owner[c]
      BY <1>4, <2>1 DEF IInv, Types
    <2>3. ASSUME NEW f \in t[1] .. NF
          PROVE  h[<<f, t[2]>>].st = "none"
      <3>1. NF \in 1 .. MaxForwards /\ t[1] \in 1 .. MaxForwards /\ t[2] \in 2 .. NL
        BY ModeFacts DEF IInv, Types, Targets
      <3>2. PICK s \in Targets : s = <<f, t[2]>>
        <4>1. f \in 1 .. MaxForwards
          BY <3>1, ConstantFacts
        <4>. QED  BY <3>1, <4>1 DEF Targets
      <3>3. ~Past(t) /\ (h[s].st # "none" => Past(s))
        BY <1>1, <2>1 DEF RInv, OrderInv
      <3>4. Past(s) => Past(t)
        BY <3>1, <3>2, ConstantFacts DEF Past, IInv, Types
      <3>. QED  BY <3>2, <3>3, <3>4
    <2>4. ASSUME NEW c \in Banks, owner'[c] # None, owner'[c].st = "reserved", NEW f \in owner'[c].fwd .. NF
          PROVE  h[<<f, owner'[c].layer>>].st = "none"
      <3>1. CASE c = b
        BY <2>2, <2>3, <2>4, <3>1
      <3>2. CASE c # b
        BY <2>2, <2>4, <3>2 DEF SInv, NoBankStranded, PassedBy
      <3>. QED  BY <3>1, <3>2
    <2>5. NoBankStranded'
      BY <1>1, <2>4 DEF NoBankStranded, PassedBy, NF
    <2>. QED  BY <1>2, <2>5 DEF SInv
  <1>. QED  BY <1>3, <1>4 DEF Bind

LEMMA ReservedReleased ==
    ASSUME NEW B, Released(B)
    PROVE  \A b \in Banks : /\ owner'[b] = IF b \in B THEN None ELSE owner[b]
                            /\ Reserved(b)' => Reserved(b) /\ owner'[b] = owner[b] /\ b \notin B
  BY DEF Released, Reserved

\* The demand has taken every bank of its layer.
LEMMA StrandSyncCopy ==
    ASSUME IInv, SInv, SyncCopy, Here \in Targets, Kind \in {"sync", "async"}
    PROVE  SInv'
  <1>. DEFINE B == {x.bank : x \in {y \in leases : y.fin}}
  <1>1. /\ pc = "take" /\ Scanned /\ Released(B) /\ mode' = mode /\ Advance
        /\ h' = [h EXCEPT ![Here].st = IF plan[Here].refined THEN "done" ELSE "plain"]
    BY DEF SyncCopy
  <1>2. \A b \in Banks : Reserved(b) /\ owner[b].layer = pos.l => b \in B
    BY <1>1, ConstantFacts DEF SInv, SweptInv, Scanned
  <1>. HIDE DEF B
  <1>3. \A b \in Banks : Reserved(b)' => Reserved(b) /\ owner'[b] = owner[b] /\ b \notin B
    BY <1>1, ReservedReleased
  <1>4. h'[Here].st # "none" /\ \A t \in Targets : t # Here => h'[t] = h[t]
    BY <1>1 DEF IInv, Types
  <1>. QED  BY <1>1, <1>2, <1>3, <1>4, StrandAdvance

\* What this forward did not reserve was taken by the forward that did.
LEMMA StrandAttach ==
    ASSUME ConsistentPaths, IInv, SInv, Attach
    PROVE  SInv'
  <1>1. /\ pc = "build" /\ Kind = "async" /\ pos.l > 1 /\ mode' = mode /\ Advance
        /\ owner' = [b \in Banks |->
             IF b \in {c \in Owned : owner[c].layer = pos.l /\ owner[c].st = "reserved" /\ owner[c].fwd = pos.f}
             THEN [owner[b] EXCEPT !.st = "attached"] ELSE owner[b]]
    BY DEF Attach, Building
  <1>2. PICK gens : h' = [h EXCEPT ![Here] = [st |-> "queued", gens |-> gens, rows |-> {}]]
    BY DEF Attach
  <1>3. Here \in Targets /\ Here = <<pos.f, pos.l>> /\ pos.f \in 1 .. NF /\ NF \in Nat /\ mode \in Modes
    BY <1>1, HereFacts, ModeFacts DEF IInv, Types, Here
  <1>4. h'[Here].st # "none" /\ \A t \in Targets : t # Here => h'[t] = h[t]
    BY <1>2, <1>3 DEF IInv, Types
  <1>5. ASSUME NEW b \in Banks, Reserved(b)'
        PROVE  /\ Reserved(b) /\ owner'[b] = owner[b]
               /\ ~(owner[b].layer = pos.l /\ owner[b].fwd = pos.f)
    <2>1. owner[b] \in {None} \cup Owners
      BY DEF IInv, Types
    <2>2. CASE b \in Owned /\ owner[b].layer = pos.l /\ owner[b].st = "reserved" /\ owner[b].fwd = pos.f
      <3>1. owner'[b] = [owner[b] EXCEPT !.st = "attached"] /\ owner[b] \in Owners
        BY <1>1, <2>1, <2>2 DEF Owned
      <3>2. owner'[b].st = "attached"
        BY <3>1 DEF Owners
      <3>. QED  BY <1>5, <3>2 DEF Reserved
    <2>3. CASE ~(b \in Owned /\ owner[b].layer = pos.l /\ owner[b].st = "reserved" /\ owner[b].fwd = pos.f)
      <3>1. owner'[b] = owner[b]
        BY <1>1, <2>3
      <3>. QED  BY <1>5, <2>3, <3>1 DEF Reserved, Owned
    <2>. QED  BY <2>2, <2>3
  <1>6. ASSUME NEW b \in Banks, Reserved(b), owner[b].layer = pos.l, owner[b].fwd <= pos.f, owner[b].fwd # pos.f
        PROVE  FALSE
    <2>1. owner[b].fwd \in 1 .. MaxForwards /\ \A f \in owner[b].fwd .. NF : <<f, owner[b].layer>> \in Targets
      BY <1>6, OwnerTargets DEF Reserved
    <2>2. owner[b].fwd \in 1 .. pos.f - 1 /\ owner[b].fwd \in owner[b].fwd .. NF /\ owner[b].fwd \in 1 .. NF
      BY <1>3, <1>6, <2>1, ConstantFacts
    <2>3. PICK t \in Targets : t = <<owner[b].fwd, pos.l>>
      BY <1>6, <2>1, <2>2
    <2>4. pos.f \in DOMAIN mode.kinds
      <3>1. PICK n \in 1 .. MaxForwards : mode.kinds \in [1 .. n -> Kinds]
        BY <1>3, StagingAssumption
      <3>2. mode.kinds \in Seq(Kinds)
        BY <3>1, ConstantFacts, SeqDef
      <3>. QED  BY <1>3, <3>2, LenProperties DEF NF
    <2>5. mode.kinds[t[1]] \in {"sync", "async"}
      BY <1>1, <1>3, <2>2, <2>3, <2>4 DEF ConsistentPaths, Kind
    <2>6. t[1] <= NF /\ Past(t)
      BY <1>3, <2>2, <2>3, ConstantFacts DEF Past
    <2>7. h[t].st # "none"
      BY <2>5, <2>6 DEF SInv, PastInv
    <2>. QED  BY <1>6, <2>2, <2>3, <2>7 DEF SInv, NoBankStranded, PassedBy, Reserved
  <1>. QED  BY <1>1, <1>3, <1>4, <1>5, <1>6, StrandAdvance

\* The other steps reserve nothing; those of a demand let go of one bank.
LEMMA StrandTakeReady ==
    ASSUME IInv, SInv, TakeReady
    PROVE  SInv'
  <1>1. PICK b \in Banks :
          /\ TakenFrom(b)
          /\ owner' = IF scan.rows # None /\ subs[Gen(b)].finished THEN owner
                      ELSE [owner EXCEPT ![b].st = "missed"]
          /\ leases' = IF scan.rows = None THEN leases
                       ELSE leases \cup {[bank |-> b, rows |-> scan.rows,
                                          fin |-> scan.rows # None /\ subs[Gen(b)].finished]}
    BY DEF TakeReady
  <1>2. pc = "take" /\ UNCHANGED <<mode, pos, pc, h>>
    BY DEF TakeReady
  <1>3. /\ scan.bank = b /\ scan'.todo = scan.todo /\ owner[b] # None /\ owner[b] \in Owners
    <2>1. scan.bank = b /\ scan'.todo = scan.todo
      BY <1>1 DEF TakenFrom, IInv, Types
    <2>2. owner[b] # None
      BY <2>1, ConstantFacts DEF IInv, ScanInv
    <2>. QED  BY <2>1, <2>2 DEF IInv, Types
  <1>4. \A c \in Banks : c # b => owner'[c] = owner[c]
    BY <1>1 DEF IInv, Types
  <1>5. CASE scan.rows # None /\ subs[Gen(b)].finished
    <2>1. \E x \in leases' : x.bank = b /\ x.fin
      <3>1. [bank |-> b, rows |-> scan.rows, fin |-> scan.rows # None /\ subs[Gen(b)].finished] \in leases'
        BY <1>1, <1>5
      <3>2. PICK x \in leases' :
              x = [bank |-> b, rows |-> scan.rows, fin |-> scan.rows # None /\ subs[Gen(b)].finished]
        BY <3>1
      <3>3. x.bank = b
        BY <3>2
      <3>4. x.fin = (scan.rows # None /\ subs[Gen(b)].finished)
        BY <3>2, Zenon
      <3>. QED  BY <1>5, <3>3, <3>4, Zenon
    <2>2. owner' = owner /\ leases \subseteq leases'
      BY <1>1, <1>5
    <2>3. SweptInv'
      BY <1>2, <1>3, <2>1, <2>2 DEF SInv, SweptInv, Reserved
    <2>4. \A c \in Banks : Reserved(c)' => Reserved(c) /\ owner'[c] = owner[c]
      BY <2>2 DEF Reserved
    <2>. QED  BY <1>2, <2>3, <2>4, StrandFrame
  <1>6. CASE ~(scan.rows # None /\ subs[Gen(b)].finished)
    <2>1. owner'[b].st = "missed"
      BY <1>1, <1>3, <1>6 DEF IInv, Types, Owners
    <2>2. leases \subseteq leases'
      BY <1>1
    <2>3. \A c \in Banks : Reserved(c)' => c # b /\ Reserved(c) /\ owner'[c] = owner[c]
      BY <1>4, <2>1 DEF Reserved
    <2>4. SweptInv'
      BY <1>2, <1>3, <2>2, <2>3 DEF SInv, SweptInv
    <2>. QED  BY <1>2, <2>3, <2>4, StrandFrame
  <1>. QED  BY <1>5, <1>6

LEMMA StrandTake ==
    ASSUME IInv, SInv, Take
    PROVE  SInv'
  <1>1. PICK b \in Banks : First(b) /\ scan' = [Rest(b) EXCEPT !.bank = b, !.rows = subs[Gen(b)].ready]
    BY DEF Take
  <1>2. UNCHANGED <<mode, pos, pc, h, owner, leases>>
    BY DEF Take
  <1>3. scan.bank = None /\ scan'.bank = b /\ scan'.todo = scan.todo \ {b}
    BY <1>1 DEF First, Rest, NoScan
  <1>4. SweptInv'
    BY <1>2, <1>3, ConstantFacts DEF SInv, SweptInv, Reserved
  <1>. QED  BY <1>2, <1>4, StrandFrame DEF Reserved

LEMMA StrandQuiet ==
    ASSUME IInv, SInv, UNCHANGED <<mode, pos, h, owner>>, pc # "over", pc' \in {"build", "reap", "wait"}
    PROVE  SInv'
  <1>1. SweptInv'
    BY DEF SweptInv
  <1>. QED  BY <1>1, StrandFrame DEF Reserved

LEMMA StrandEnter ==
    ASSUME IInv, SInv, UNCHANGED <<mode, pos, h, owner>>, pc # "over", pc' = "take", scan'.todo = LayerBanks
    PROVE  SInv'
  <1>1. SweptInv'
    BY DEF SweptInv, LayerBanks, Owned, Reserved
  <1>. QED  BY <1>1, StrandFrame DEF Reserved

LEMMA StrandReap ==
    ASSUME IInv, SInv, pc = "reap", UNCHANGED <<mode, pos, pc, h>>, NEW B, Released(B)
    PROVE  SInv'
  <1>1. SweptInv'
    BY DEF SweptInv
  <1>2. \A b \in Banks : Reserved(b)' => Reserved(b) /\ owner'[b] = owner[b]
    BY ReservedReleased
  <1>. QED  BY <1>1, <1>2, StrandFrame

LEMMA StrandRest ==
    ASSUME IInv, SInv, UNCHANGED <<mode, python>>, \A t \in Targets : h'[t].st = "none" <=> h[t].st = "none"
    PROVE  SInv'
  <1>1. SweptInv'
    BY DEF SInv, SweptInv, python, Reserved
  <1>. QED  BY <1>1, StrandFrame DEF python, Reserved

\* A synchronous demand is in no other phase than its own.
KindInv == pc \in {"wait", "take"} => Kind = "sync" /\ pos.l > 1

LEMMA KindStep == Types /\ KindInv /\ [Next]_vars => KindInv'
  <1>. SUFFICES ASSUME Types, KindInv, [Next]_vars PROVE KindInv'
    OBVIOUS
  <1>. USE DEF KindInv, Kind
  <1>1. ASSUME NEW l \in 2 .. NL, NEW ids \in EarlyIds, Predict(l, ids) PROVE KindInv'
    BY <1>1 DEF Predict, StartSubmit
  <1>2. ASSUME NEW ids \in TailIds, Refine(ids) PROVE KindInv'
    BY <1>2 DEF Refine, StartSubmit
  <1>3. CASE Attach \/ HostDemand \/ Promote \/ SyncCopy
    BY <1>3 DEF Attach, HostDemand, Promote, SyncCopy, Advance
  <1>4. CASE RefineNoIO \/ Take \/ TakeReady \/ ReapAttached \/ ReapMissed \/ Bind \/ WaitOver
    BY <1>4 DEF RefineNoIO, Take, TakeReady, ReapAttached, ReapMissed, Bind, WaitOver
  <1>5. ASSUME NEW R \in Routes, SyncStart(R) PROVE KindInv'
    BY <1>5 DEF SyncStart
  <1>6. ASSUME NEW g \in Generations, Fill(g) PROVE KindInv'
    BY <1>6 DEF Fill, FillBegin, OpenFails, ReadBegin, ReadEnd, FillEnd, InflightDone, python
  <1>7. ASSUME NEW t \in Targets, Handler(t) PROVE KindInv'
    BY <1>7 DEF Handler, HandlerTake, HandlerCopy, HandlerFinish, HandlerThrows, python
  <1>8. CASE UNCHANGED vars
    BY <1>8 DEF vars, python
  <1>. QED  BY <1>1, <1>2, <1>3, <1>4, <1>5, <1>6, <1>7, <1>8 DEF Next, Python

LEMMA NextStrands == ConsistentPaths /\ IInv /\ RInv /\ KindInv /\ SInv /\ [Next]_vars => SInv'
  <1>. SUFFICES ASSUME ConsistentPaths, IInv, RInv, KindInv, SInv, [Next]_vars PROVE SInv'
    OBVIOUS
  <1>1. ASSUME NEW l \in 2 .. NL, NEW ids \in EarlyIds, Predict(l, ids) PROVE SInv'
    BY <1>1, StrandQuiet DEF Predict, StartSubmit, Building
  <1>2. ASSUME NEW ids \in TailIds, Refine(ids) PROVE SInv'
    BY <1>2, StrandQuiet DEF Refine, Refinable, StartSubmit, Building
  <1>3. CASE RefineNoIO
    BY <1>3, StrandQuiet DEF RefineNoIO, Refinable, Building
  <1>4. CASE HostDemand \/ Promote
    <2>1. /\ pc = "build" /\ Advance /\ UNCHANGED <<mode, owner, h>>
          /\ Kind \in {"host", "promote"} \/ pos.l = 1
      BY <1>4 DEF HostDemand, Promote, Building
    <2>2. Here \in Targets => Kind \notin {"sync", "async"}
      BY <2>1 DEF Here, Targets
    <2>. QED  BY <2>1, <2>2, StrandAdvance DEF Reserved
  <1>5. CASE Attach
    BY <1>5, StrandAttach
  <1>6. ASSUME NEW R \in Routes, SyncStart(R) PROVE SInv'
    <2>1. pc = "build" /\ UNCHANGED <<mode, pos, h, owner>>
      BY <1>6 DEF SyncStart, Building
    <2>2. pc' = "wait" \/ (pc' = "take" /\ scan'.todo = LayerBanks)
      BY <1>6 DEF SyncStart, NoScan
    <2>. QED  BY <2>1, <2>2, StrandQuiet, StrandEnter
  <1>7. CASE WaitOver
    BY <1>7, StrandEnter DEF WaitOver, NoScan
  <1>8. CASE ReapAttached \/ ReapMissed
    BY <1>8, StrandReap DEF ReapAttached, ReapMissed
  <1>9. CASE SyncCopy
    <2>1. Here \in Targets /\ Kind = "sync"
      BY <1>9, HereFacts DEF SyncCopy, KindInv, IInv, Types
    <2>. QED  BY <1>9, <2>1, StrandSyncCopy
  <1>10. CASE Python
    BY <1>7, <1>8, <1>9, <1>10, StrandTake, StrandTakeReady, StrandBind DEF Python
  <1>11. ASSUME NEW g \in Generations, Fill(g) PROVE SInv'
    <2>1. UNCHANGED <<mode, python, h>>
      BY <1>11 DEF Fill, FillBegin, OpenFails, ReadBegin, ReadEnd, FillEnd, InflightDone
    <2>. QED  BY <2>1, StrandRest
  <1>12. ASSUME NEW t \in Targets, Handler(t) PROVE SInv'
    <2>1. UNCHANGED <<mode, python>> /\ h[t].st # "none"
      BY <1>12 DEF Handler, HandlerTake, HandlerCopy, HandlerFinish, HandlerThrows
    <2>2. h'[t].st # "none" /\ \A s \in Targets : s # t => h'[s] = h[s]
      BY <1>12 DEF Handler, HandlerTake, HandlerCopy, HandlerFinish, HandlerThrows, IInv, Types
    <2>. QED  BY <2>1, <2>2, StrandRest
  <1>13. CASE UNCHANGED vars
    BY <1>13, StrandRest DEF vars
  <1>. QED  BY <1>1, <1>2, <1>3, <1>4, <1>5, <1>6, <1>10, <1>11, <1>12, <1>13 DEF Next

LEMMA InitStrands == Init => SInv /\ KindInv
  <1>. SUFFICES ASSUME Init PROVE SInv /\ KindInv
    OBVIOUS
  <1>1. NF \in Nat /\ NL \in Nat
    BY ModeFacts, ConstantFacts DEF Init
  <1>2. SweptInv /\ KindInv /\ NoBankStranded
    BY DEF Init, SweptInv, KindInv, NoBankStranded
  <1>3. PastInv
    BY DEF Init, PastInv, Past, Targets
  <1>. QED  BY <1>2, <1>3 DEF SInv

\* Banks come back where no forward leaves its predictions to another kind of
\* demand: none stays reserved for a prediction that a demand has passed by.
THEOREM BanksComeBack == ASSUME ConsistentPaths PROVE Spec => []NoBankStranded
  <1>1. SInv => NoBankStranded
    BY DEF SInv
  <1>2. IInv /\ KindInv /\ [Next]_vars => KindInv'
    BY KindStep DEF IInv
  <1>. QED  BY <1>1, <1>2, InitEstablishes, NextPreserves, InitRecords, NextRecords, InitStrands, NextStrands, PTL DEF Spec
====
