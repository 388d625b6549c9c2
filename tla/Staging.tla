------------------------------ MODULE Staging ------------------------------
(***************************************************************************)
(* Staging banks (core/prefetch/native_staging.py, prefetch/prefetch.cpp): *)
(* the Python thread leases a bank to every predicted submission, a reader *)
(* fills its rows when the callback has run, and the demand of the target  *)
(* layer copies the rows that are complete.  A bank comes back when its    *)
(* fill has finished and nobody will copy from it.                         *)
(*                                                                         *)
(* A target <<f, l>> is the demand of layer l in forward f.  Layer 1 is    *)
(* predicted by nobody.  The rest of the pool is in RealPool.              *)
(***************************************************************************)
EXTENDS Integers, Sequences, FiniteSets

CONSTANTS
    Experts,
    NB,         \* banks of the ring
    Cap,        \* rows of a bank that a submission may fill
    MaxForwards, NL,
    Ahead,      \* ahead_for: how many layers before its target an early prediction runs
    EarlyIds,   \* score-ordered ids an early prediction may carry
    TailIds,    \* the same for the late part of a refinement
    Residents,  \* what the pool may hold when a callback runs
    Routes,     \* sets of experts a demand may need
    Modes,      \* switches: kind of demand of each forward, layers predicted,
                \* exact-no-I/O refinement, late promotion; may reads fail
    None

Kinds == {"sync", "async", "host", "promote"}

\* What _bank_owner keeps of a bank in use.
Owners == [layer : Nat, gen : Nat, st : {"reserved", "missed", "attached"}, fwd : Nat]

ASSUME StagingAssumption ==
    /\ {NB, Cap, MaxForwards, NL} \subseteq Nat \ {0}
    /\ EarlyIds \cup TailIds \subseteq Seq(Experts)
    /\ Residents \cup Routes \subseteq SUBSET Experts
    /\ Modes \subseteq [kinds : UNION {[1 .. n -> Kinds] : n \in 1 .. MaxForwards},
                       layers : SUBSET (2 .. NL), noio : BOOLEAN, late : BOOLEAN, faults : BOOLEAN]
    /\ None \notin Nat \cup Owners
    /\ \A l \in 2 .. NL : Ahead[l] \in Nat \ {0}

Banks == 1 .. NB
Targets == (1 .. MaxForwards) \X (2 .. NL)
Generations == 1 .. 2 * Cardinality(Targets)

VARIABLES
    mode,
    pos,     \* the MoE block the Python thread is in: [f, l]
    pc,      \* what it does: "build", "reap", "wait", "take", "over"
    arg,     \* the submission being placed, or the route of the demand
    scan,    \* banks still to look at, the one whose rows were taken, and the rows
    leases,  \* what take_ready has collected
    owner,   \* _bank_owner
    subs,    \* submissions by generation, with their native records
    bytes,   \* <<layer, expert>> whose bytes a bank's row holds
    tgt,     \* native records of a target
    plan,    \* Python's record of a target's predictions
    h,       \* the demand of a target
    copied   \* rows of the last copy into the pool, with the bytes they had

python == <<pos, pc, arg, scan, leases, owner, plan>>
vars == <<mode, python, subs, bytes, tgt, h, copied>>

NoScan == [todo |-> {}, bank |-> None, rows |-> None]

Init ==
    /\ mode \in Modes
    /\ pos = [f |-> 1, l |-> 1] /\ pc = "build" /\ arg = None
    /\ scan = NoScan /\ leases = {}
    /\ owner = [b \in Banks |-> None]
    /\ subs = <<>>
    /\ bytes = [b \in Banks |-> [r \in 1 .. Cap |-> None]]
    /\ tgt = [t \in Targets |-> [seen |-> {}, pending |-> {}, complete |-> {},
                                 inflight |-> 0, barrier |-> FALSE, over |-> FALSE]]
    /\ plan = [t \in Targets |-> [early |-> FALSE, refined |-> FALSE, waitable |-> FALSE]]
    /\ h = [t \in Targets |-> [st |-> "none", gens |-> {}, rows |-> {}]]
    /\ copied = {}

NF == Len(mode.kinds)
\* A submission for promote has no forward, so nothing is kept by target.
Tracked(t) == mode.kinds[t[1]] # "promote"
Kind == mode.kinds[pos.f]
Here == <<pos.f, pos.l>>

\* The token of a forward needs every layer's answer before the next begins.
Building ==
    /\ pc = "build"
    /\ \A t \in Targets : t[1] < pos.f => h[t].st \in {"none", "done", "failed", "plain"}
-----------------------------------------------------------------------------
(* Submitting: reap, find a bank, hand it to the callback.                 *)

Owned == {b \in Banks : owner[b] # None}

StartSubmit(t, ids, prio) ==
    /\ pc' = "reap"
    /\ arg' = [t |-> t, ids |-> ids, prio |-> prio]
    /\ scan' = [NoScan EXCEPT !.todo = {b \in Owned : owner[b].st \in {"missed", "attached"}}]

\* The one source layer of a target predicts it, whichever path its demand takes.
Predict(l, ids) ==
    /\ Building /\ l \in mode.layers /\ l - Ahead[l] = pos.l /\ ~plan[<<pos.f, l>>].early
    /\ plan' = [plan EXCEPT ![<<pos.f, l>>].early = TRUE]
    /\ StartSubmit(<<pos.f, l>>, ids, 0)
    /\ UNCHANGED <<mode, pos, leases, owner, subs, bytes, tgt, h, copied>>

Refinable(t) ==
    /\ Building /\ t = <<pos.f, pos.l + 1>> /\ t \in Targets
    /\ plan[t].early /\ ~plan[t].refined /\ Kind # "promote"

\* refine_progressive: only the tail is read, the early core is on its way.
Refine(ids) ==
    LET t == <<pos.f, pos.l + 1>> IN
    /\ Refinable(t) /\ ~mode.noio
    /\ plan' = [plan EXCEPT ![t].refined = TRUE]
    /\ StartSubmit(t, ids, 1)
    /\ UNCHANGED <<mode, pos, leases, owner, subs, bytes, tgt, h, copied>>

\* PREFETCH_EXACT_NO_IO: nothing is submitted, yet the target is waitable.
RefineNoIO ==
    LET t == <<pos.f, pos.l + 1>> IN
    /\ Refinable(t) /\ mode.noio
    /\ plan' = [plan EXCEPT ![t].refined = TRUE, ![t].waitable = TRUE]
    /\ UNCHANGED <<mode, pos, pc, arg, scan, leases, owner, subs, bytes, tgt, h, copied>>

Gen(b) == owner[b].gen
Bytes(l, b, rows) == {<<l, p[1], bytes[b][p[2]]>> : p \in rows}

\* prefetch_staging_forget: the native records of the generation go.
Forgotten(s) == [s EXCEPT !.ready = None, !.finished = FALSE, !.consumed = FALSE]
Released(B) ==
    /\ owner' = [b \in Banks |-> IF b \in B THEN None ELSE owner[b]]
    /\ subs' = [g \in DOMAIN subs |-> IF \E b \in B : Gen(b) = g THEN Forgotten(subs[g]) ELSE subs[g]]

\* Reaping goes round the ring, a demand through the generations of its layer.
First(b) ==
    /\ b \in scan.todo /\ scan.bank = None
    /\ \A c \in scan.todo : IF pc = "reap" THEN b <= c ELSE Gen(b) <= Gen(c)
Rest(b) == [NoScan EXCEPT !.todo = scan.todo \ {b}]
Scanned == scan.todo = {} /\ scan.bank = None

\* (mutant) The copy alone frees the bank.
ReapAttachedUnfinished ==
    /\ pc = "reap"
    /\ \E b \in Banks :
        /\ First(b) /\ owner[b].st = "attached"
        /\ Released(IF subs[Gen(b)].consumed THEN {b} ELSE {})
        /\ scan' = Rest(b)
    /\ UNCHANGED <<mode, pos, pc, arg, leases, plan, bytes, tgt, h, copied>>

\* An attached bank needs both: the handler has copied, the fill has finished.
ReapAttached ==
    /\ pc = "reap"
    /\ \E b \in Banks :
        /\ First(b) /\ owner[b].st = "attached"
        /\ Released(IF subs[Gen(b)].consumed /\ subs[Gen(b)].finished THEN {b} ELSE {})
        /\ scan' = Rest(b)
    /\ UNCHANGED <<mode, pos, pc, arg, leases, plan, bytes, tgt, h, copied>>

\* prefetch_staging_take, the first of two calls: no rows is None.
Take ==
    /\ pc \in {"reap", "take"}
    /\ \E b \in Banks :
        /\ First(b) /\ (pc = "reap" => owner[b].st = "missed")
        /\ scan' = [Rest(b) EXCEPT !.bank = b, !.rows = subs[Gen(b)].ready]
        /\ subs' = [subs EXCEPT ![Gen(b)].ready = None]
    /\ UNCHANGED <<mode, pos, pc, arg, leases, owner, plan, bytes, tgt, h, copied>>

TakenFrom(b) == scan.bank = b /\ scan' = [scan EXCEPT !.bank = None, !.rows = None]

\* The second call of _reap_missed: late rows may be promoted, a finished
\* bank is released.
ReapMissed ==
    /\ pc = "reap"
    /\ \E b \in Banks :
        /\ TakenFrom(b)
        /\ Released(IF subs[Gen(b)].finished THEN {b} ELSE {})
        /\ copied' = IF mode.late /\ scan.rows \notin {None, {}}
                        THEN Bytes(owner[b].layer, b, scan.rows) ELSE copied
    /\ UNCHANGED <<mode, pos, pc, arg, leases, plan, bytes, tgt, h>>

\* The first bank that is free, or none: a full ring drops the prediction and
\* nobody waits for it.
Bind ==
    /\ pc = "reap" /\ Scanned
    /\ LET idle == {b \in Banks : owner[b] = None}
           t == arg.t
       IN  /\ plan' = [plan EXCEPT ![t].waitable = arg.prio > 0 /\ idle # {}]
           /\ \/ idle = {} /\ UNCHANGED <<owner, subs, tgt>>
              \/ \E b \in idle :
                  /\ \A c \in idle : b <= c
                  /\ owner' = [owner EXCEPT ![b] =
                        [layer |-> t[2], gen |-> Len(subs) + 1, st |-> "reserved", fwd |-> t[1]]]
                  /\ subs' = Append(subs,
                        [t |-> t, prio |-> arg.prio, bank |-> b, ids |-> arg.ids, st |-> "queued",
                         rows |-> {}, writing |-> FALSE,
                         ready |-> None, finished |-> FALSE, consumed |-> FALSE])
                  /\ tgt' = [tgt EXCEPT ![t].inflight = IF Tracked(t) THEN @ + 1 ELSE @]
    /\ pc' = "build" /\ arg' = None
    /\ UNCHANGED <<mode, pos, scan, leases, bytes, h, copied>>
-----------------------------------------------------------------------------
(* fill: runs in the callback or on a reader thread.                       *)

\* The first Cap ids that are not known yet, each with the row it gets.
FirstRows(ids, known) ==
    LET new == {k \in DOMAIN ids : ids[k] \notin known /\ \A i \in 1 .. k - 1 : ids[i] # ids[k]}
        rank(k) == Cardinality({i \in new : i <= k})
    IN  {<<ids[k], rank(k)>> : k \in {i \in new : rank(i) <= Cap}}

\* Reserve under the lock; a refinement's callback is the registration barrier.
FillBegin(g, present) ==
    /\ subs[g].st = "queued"
    /\ LET t == subs[g].t
           rows == FirstRows(subs[g].ids, present \cup tgt[t].seen)
           es  == {p[1] : p \in rows}
       IN  /\ subs' = [subs EXCEPT ![g].st = "reserved", ![g].rows = rows]
           /\ tgt' = IF ~Tracked(t) THEN tgt
                     ELSE [tgt EXCEPT ![t].seen = @ \cup es, ![t].pending = @ \cup es,
                                      ![t].barrier = @ \/ subs[g].prio > 0]
    /\ UNCHANGED <<mode, python, bytes, h, copied>>

\* (mutant) The reservations stay.
OpenFailsSilently(g) ==
    /\ mode.faults /\ subs[g].st = "reserved"
    /\ subs' = [subs EXCEPT ![g].st = "ended", ![g].rows = {}, ![g].finished = TRUE]
    /\ UNCHANGED <<mode, python, tgt, bytes, h, copied>>

\* open() fails: nothing will be ready, but the bank is finished.
OpenFails(g) ==
    /\ mode.faults /\ subs[g].st = "reserved"
    /\ subs' = [subs EXCEPT ![g].st = "ended", ![g].rows = {}, ![g].finished = TRUE]
    /\ tgt' = [tgt EXCEPT ![subs[g].t].pending = @ \ {p[1] : p \in subs[g].rows}]
    /\ UNCHANGED <<mode, python, bytes, h, copied>>

Filling(g) == subs[g].st \in {"reserved", "reading"}

\* Rows are read in the order they were reserved.
NextRow(g, p) == p \in subs[g].rows /\ \A q \in subs[g].rows : p[2] <= q[2]

ReadBegin(g) ==
    /\ Filling(g) /\ ~subs[g].writing
    /\ \E p \in subs[g].rows :
        /\ NextRow(g, p)
        /\ bytes' = [bytes EXCEPT ![subs[g].bank][p[2]] = None]
    /\ subs' = [subs EXCEPT ![g].st = "reading", ![g].writing = TRUE]
    /\ UNCHANGED <<mode, python, tgt, h, copied>>

ReadEnd(g, ok) ==
    /\ subs[g].writing /\ (ok \/ mode.faults)
    /\ \E p \in subs[g].rows :
        LET t == subs[g].t
            got == IF ok /\ Tracked(t) THEN {p[1]} ELSE {}
        IN  /\ NextRow(g, p)
            /\ subs' = [subs EXCEPT ![g].writing = FALSE, ![g].rows = @ \ {p},
                          ![g].ready = IF ok THEN (IF @ = None THEN {p} ELSE @ \cup {p}) ELSE @]
            /\ bytes' = [bytes EXCEPT ![subs[g].bank][p[2]] = IF ok THEN <<t[2], p[1]>> ELSE @]
            /\ tgt' = [tgt EXCEPT ![t].pending = @ \ {p[1]},
                                  ![t].complete = @ \cup got]
    /\ UNCHANGED <<mode, python, h, copied>>

FillEnd(g) ==
    /\ Filling(g) /\ subs[g].rows = {}
    /\ subs' = [subs EXCEPT ![g].st = "ended", ![g].finished = TRUE,
                            ![g].ready = IF @ = None THEN {} ELSE @]
    /\ UNCHANGED <<mode, python, tgt, bytes, h, copied>>

Cleared(r) == [r EXCEPT !.seen = {}, !.pending = {}, !.complete = {}, !.barrier = FALSE, !.over = FALSE]

\* (mutant) Nobody frees them when the demand was first.
InflightDoneKeeps(g) ==
    /\ subs[g].st = "ended"
    /\ subs' = [subs EXCEPT ![g].st = "done"]
    /\ tgt' = [tgt EXCEPT ![subs[g].t].inflight = IF Tracked(subs[g].t) THEN @ - 1 ELSE @]
    /\ UNCHANGED <<mode, python, bytes, h, copied>>

\* staging_inflight_done: the last reader of a target whose demand is over
\* frees its records.
InflightDone(g) ==
    /\ subs[g].st = "ended"
    /\ subs' = [subs EXCEPT ![g].st = "done"]
    /\ LET t == subs[g].t
           r == [tgt[t] EXCEPT !.inflight = @ - 1]
       IN  tgt' = [tgt EXCEPT ![t] = IF ~Tracked(t) THEN @
                                     ELSE IF r.inflight = 0 /\ r.over THEN Cleared(r) ELSE r]
    /\ UNCHANGED <<mode, python, bytes, h, copied>>

\* prefetch_staging_finish_demand
DemandFinished(t) == IF tgt[t].inflight = 0 THEN Cleared(tgt[t]) ELSE [tgt[t] EXCEPT !.over = TRUE]
-----------------------------------------------------------------------------
(* The demand of a block.                                                  *)

Advance ==
    IF pos.l < NL THEN pos' = [pos EXCEPT !.l = @ + 1] /\ pc' = "build"
    ELSE IF pos.f < NF THEN pos' = [f |-> pos.f + 1, l |-> 1] /\ pc' = "build"
    ELSE pc' = "over" /\ UNCHANGED pos

\* Too many tokens for the GPU remap (acquire_host), or the first layer.
HostDemand ==
    /\ Building /\ (Kind = "host" \/ pos.l = 1)
    /\ Advance
    /\ UNCHANGED <<mode, arg, scan, leases, owner, plan, subs, bytes, tgt, h, copied>>

LayerBanks == {b \in Owned : owner[b].layer = pos.l}

\* _acquire_native, synchronous: wait for what the route needs and is pending.
SyncStart(R) ==
    /\ Building /\ Kind = "sync" /\ pos.l > 1
    /\ arg' = [route |-> R]
    /\ IF plan[Here].refined /\ plan[Here].waitable
          THEN pc' = "wait" /\ UNCHANGED scan
          ELSE pc' = "take" /\ scan' = [NoScan EXCEPT !.todo = LayerBanks]
    /\ UNCHANGED <<mode, pos, leases, owner, plan, subs, bytes, tgt, h, copied>>

\* prefetch_staging_wait_experts
WaitOver ==
    /\ pc = "wait" /\ tgt[Here].barrier /\ tgt[Here].pending \cap arg.route = {}
    /\ pc' = "take" /\ scan' = [NoScan EXCEPT !.todo = LayerBanks]
    /\ UNCHANGED <<mode, pos, arg, leases, owner, plan, subs, bytes, tgt, h, copied>>

\* (mutant) A bank with nothing ready stays reserved.
TakeReadyKeeps ==
    /\ pc = "take"
    /\ \E b \in Banks :
        LET fin == scan.rows # None /\ subs[Gen(b)].finished
        IN  /\ TakenFrom(b)
            /\ owner' = IF fin \/ scan.rows = None THEN owner ELSE [owner EXCEPT ![b].st = "missed"]
            /\ leases' = IF scan.rows = None THEN leases
                         ELSE leases \cup {[bank |-> b, rows |-> scan.rows, fin |-> fin]}
    /\ UNCHANGED <<mode, pos, pc, arg, plan, subs, bytes, tgt, h, copied>>

\* take_ready, second call: nothing yet, or not finished, makes the bank missed.
TakeReady ==
    /\ pc = "take"
    /\ \E b \in Banks :
        LET fin == scan.rows # None /\ subs[Gen(b)].finished
        IN  /\ TakenFrom(b)
            /\ owner' = IF fin THEN owner ELSE [owner EXCEPT ![b].st = "missed"]
            /\ leases' = IF scan.rows = None THEN leases
                         ELSE leases \cup {[bank |-> b, rows |-> scan.rows, fin |-> fin]}
    /\ UNCHANGED <<mode, pos, pc, arg, plan, subs, bytes, tgt, h, copied>>

\* demand_staged_multi copies; finished banks and the target's records go.
SyncCopy ==
    /\ pc = "take" /\ Scanned
    /\ copied' = UNION {Bytes(pos.l, x.bank, x.rows) : x \in leases}
    /\ Released({x.bank : x \in {y \in leases : y.fin}})
    /\ tgt' = IF plan[Here].refined THEN [tgt EXCEPT ![Here] = DemandFinished(Here)] ELSE tgt
    /\ h' = [h EXCEPT ![Here].st = IF plan[Here].refined THEN "done" ELSE "plain"]
    /\ leases' = {} /\ arg' = None /\ Advance
    /\ UNCHANGED <<mode, scan, plan, bytes>>

\* attach_for_demand: banks of this forward go to the completion handler
\* while the graph is built, ready or not.
Attach ==
    /\ Building /\ Kind = "async" /\ pos.l > 1
    /\ LET B == {b \in Owned : owner[b].layer = pos.l /\ owner[b].st = "reserved" /\ owner[b].fwd = pos.f}
       IN  /\ owner' = [b \in Banks |-> IF b \in B THEN [owner[b] EXCEPT !.st = "attached"] ELSE owner[b]]
           /\ h' = [h EXCEPT ![Here] = [st |-> "queued", gens |-> {Gen(b) : b \in B}, rows |-> {}]]
    /\ Advance
    /\ UNCHANGED <<mode, arg, scan, leases, plan, subs, bytes, tgt, copied>>

\* (mutant) Recycle permission is given when the rows are taken.
HandlerTakeConsumes(t) ==
    /\ h[t].st = "queued"
    /\ \A l \in 2 .. t[2] - 1 : h[<<t[1], l>>].st \notin {"queued", "taken", "copied"}
    /\ h' = [h EXCEPT ![t].st = "taken",
              ![t].rows = UNION {{<<g, p>> : p \in subs[g].ready} : g \in {k \in h[t].gens : subs[k].ready # None}}]
    /\ subs' = [g \in DOMAIN subs |-> IF g \in h[t].gens
                   THEN [subs[g] EXCEPT !.ready = None, !.consumed = TRUE] ELSE subs[g]]
    /\ UNCHANGED <<mode, python, bytes, tgt, copied>>

\* Handlers run in the order of their layers.
HandlerTake(t) ==
    /\ h[t].st = "queued"
    /\ \A l \in 2 .. t[2] - 1 : h[<<t[1], l>>].st \notin {"queued", "taken", "copied"}
    /\ h' = [h EXCEPT ![t].st = "taken",
              ![t].rows = UNION {{<<g, p>> : p \in subs[g].ready} : g \in {k \in h[t].gens : subs[k].ready # None}}]
    /\ subs' = [g \in DOMAIN subs |-> IF g \in h[t].gens THEN [subs[g] EXCEPT !.ready = None] ELSE subs[g]]
    /\ UNCHANGED <<mode, python, bytes, tgt, copied>>

Consumed(t) == subs' = [g \in DOMAIN subs |-> IF g \in h[t].gens
                           THEN [subs[g] EXCEPT !.consumed = TRUE] ELSE subs[g]]

HandlerCopy(t) ==
    /\ h[t].st = "taken"
    /\ copied' = {<<t[2], x[2][1], bytes[subs[x[1]].bank][x[2][2]]>> : x \in h[t].rows}
    /\ Consumed(t)
    /\ h' = [h EXCEPT ![t].st = "copied", ![t].rows = {}]
    /\ UNCHANGED <<mode, python, bytes, tgt>>

HandlerFinish(t) ==
    /\ h[t].st = "copied"
    /\ tgt' = IF h[t].gens # {} THEN [tgt EXCEPT ![t] = DemandFinished(t)] ELSE tgt
    /\ h' = [h EXCEPT ![t].st = "done"]
    /\ UNCHANGED <<mode, python, subs, bytes, copied>>

\* The catch block: the banks come back, the target's records do not.
HandlerThrows(t) ==
    /\ h[t].st \in {"taken", "copied"}
    /\ Consumed(t)
    /\ h' = [h EXCEPT ![t].st = "failed", ![t].rows = {}]
    /\ UNCHANGED <<mode, python, bytes, tgt, copied>>

\* promote (no dual source): the oldest ready generation; its bank is not released.
Promote ==
    /\ Building /\ Kind = "promote" /\ pos.l > 1
    /\ LET gens == {g \in DOMAIN subs : subs[g].t[2] = pos.l /\ subs[g].ready # None}
       IN  \/ gens = {} /\ UNCHANGED <<subs, copied>>
           \/ \E g \in gens :
               /\ \A k \in gens : g <= k
               /\ copied' = Bytes(pos.l, subs[g].bank, subs[g].ready)
               /\ subs' = [subs EXCEPT ![g].ready = None]
    /\ Advance
    /\ UNCHANGED <<mode, arg, scan, leases, owner, plan, bytes, tgt, h>>

Python ==
    \/ ReapAttached \/ Take \/ ReapMissed \/ Bind \/ WaitOver \/ TakeReady \/ SyncCopy
Fill(g) ==
    /\ g \in DOMAIN subs
    /\ \/ \E present \in Residents : FillBegin(g, present)
       \/ OpenFails(g) \/ ReadBegin(g) \/ FillEnd(g) \/ InflightDone(g)
       \/ \E ok \in BOOLEAN : ReadEnd(g, ok)
Handler(t) == HandlerTake(t) \/ HandlerCopy(t) \/ HandlerFinish(t) \/ HandlerThrows(t)

Next ==
    \/ \E l \in 2 .. NL : \E ids \in EarlyIds : Predict(l, ids)
    \/ \E ids \in TailIds : Refine(ids)
    \/ RefineNoIO \/ HostDemand \/ Attach \/ Promote
    \/ \E R \in Routes : SyncStart(R)
    \/ Python
    \/ \E g \in Generations : Fill(g)
    \/ \E t \in Targets : Handler(t)

\* The Python thread goes on inside a call, callbacks and readers run, and
\* so do completion handlers; nothing makes a block predict.
Fairness ==
    /\ WF_vars(Python)
    /\ \A g \in Generations : WF_vars(Fill(g))
    /\ \A t \in Targets : WF_vars(Handler(t))

Spec == Init /\ [][Next]_vars /\ Fairness
-----------------------------------------------------------------------------
(* Properties.                                                             *)

\* Bytes in flight are never overwritten: a fill that has not finished owns
\* its bank, so no two fills share one.
FillOwnsBank ==
    \A g \in DOMAIN subs :
        subs[g].st \in {"queued", "reserved", "reading"} =>
            owner[subs[g].bank] # None /\ Gen(subs[g].bank) = g

\* Every row copied into the pool held the bytes of its expert of its layer.
CopiedBytes == \A c \in copied : c[3] = <<c[1], c[2]>>

\* After a demand that ended well, the last reader leaves no record behind.
EndedWell(t) == h[t].st = "done" /\ (h[t].gens # {} \/ mode.kinds[t[1]] = "sync")
TargetRecordsFreed ==
    \A t \in Targets : EndedWell(t) /\ tgt[t].inflight = 0 =>
        tgt[t].seen = {} /\ tgt[t].pending = {} /\ tgt[t].complete = {} /\ ~tgt[t].barrier

\* A bank comes back: none is still reserved for a prediction that a later
\* demand of its layer has passed by.
PassedBy(b) == \E f \in owner[b].fwd .. NF : h[<<f, owner[b].layer>>].st \notin {"none"}
NoBankStranded == \A b \in Banks : owner[b] # None /\ owner[b].st = "reserved" => ~PassedBy(b)

\* A demand that joins pending predictions is let go.
WaitEnds == pc = "wait" ~> pc # "wait"

=============================================================================
