------------------------------ MODULE RealPool ------------------------------
(***************************************************************************)
(* The unified expert pool of ONE target layer: native/ext/pool/demand.cpp *)
(* (struct RealLayer and everything that mutates it) together with the     *)
(* background reads that fill its rows (read_publish of side_region.cpp).  *)
(*                                                                         *)
(* Three parties share a layer's rows.                                     *)
(*   - a prefetch callback (real_prefetch_reserve) reserves rows for       *)
(*     predicted experts; reader workers fill a reserved row and publish   *)
(*     or abort it;                                                        *)
(*   - the demand path of the layer (demand_dual when "sync", the          *)
(*     completion handler of AsyncDemandPrimitive when "async") maps the   *)
(*     routed experts to rows, loading the missing ones;                   *)
(*   - the GPU remaps the route through the slot table, leasing the rows   *)
(*     it hits, and then reads the rows the demand path hands it.          *)
(*                                                                         *)
(* Abstractions.  LFU counters are replaced by a nondeterministic choice   *)
(* among the rows the code may choose from, free_rows (a FIFO) by a set,   *)
(* and the bytes of a row by the expert they belong to, or Torn.  The GPU  *)
(* slot table always equals e2r between critical sections, so it is not a  *)
(* variable here; RowLease models the window inside                        *)
(* real_try_unmap_unleased_locked where it differs.                        *)
(***************************************************************************)
EXTENDS Naturals, FiniteSets

CONSTANTS
    Experts,        \* the experts of the layer
    Rows,           \* physical rows [0, cap)
    NoRow,          \* "not in the map" / -1
    Torn,           \* bytes that are no expert's complete record
    SpecLimit,      \* speculative_limit: rows prediction may hold
    ReadBudget,     \* physical_prefetch_read_budget (reads per callback)
    MaxRoute,       \* bound: distinct experts one demand routes to
    MaxPredict,     \* bound: distinct experts one prediction names
    MaxPins,        \* bound: size of the pinned set
    Modes,          \* subset of {"sync", "async"}
    LateCallbacks,  \* may a prediction callback run after its target's demand
                    \* has started (auxiliary stream: PREFETCH_ASYNC_PREDICT)
    LastLayer,      \* is this the last layer: no later layer's handler clears
                    \* its leases, only the next asynchronous forward does
    StaleCancel,    \* PREFETCH_CANCEL_STALE_QUEUED
    PinInFlight     \* may real_pin run while predictions are still being read
                    \* (run_mtp_spec.py pins after a calibration run, undrained)

ASSUME RowsAssumption ==
    /\ IsFiniteSet(Rows) /\ IsFiniteSet(Experts)
    /\ NoRow \notin Rows
    /\ Torn \notin Experts

ASSUME BoundsAssumption ==
    /\ SpecLimit \in Nat /\ ReadBudget \in Nat /\ MaxRoute \in Nat
    /\ MaxPredict \in Nat /\ MaxPins \in Nat

ASSUME SwitchesAssumption ==
    /\ Modes \subseteq {"sync", "async"}
    /\ LateCallbacks \in BOOLEAN /\ LastLayer \in BOOLEAN
    /\ StaleCancel \in BOOLEAN /\ PinInFlight \in BOOLEAN

VARIABLES
    \* --- struct RealLayer, guarded by g_real_mutex ---
    e2r,            \* expert -> row whose ownership is published
    pending_e2r,    \* expert -> row reserved, bytes not complete
    free_rows,      \* rows nobody owns
    speculative,    \* resident experts that only a prediction asked for
    pinned,         \* experts that may not be evicted
    \* --- shared with the GPU and the readers ---
    leased,         \* rows with a non-zero lease_table entry
    content,        \* row -> the expert whose bytes it holds, or Torn
    writers,        \* row -> experts being read into it right now
    stale,          \* pending experts whose target demand has started
    \* --- the prediction callback inside real_prefetch_reserve ---
    cb,             \* [on, protect, todo, taken]
    \* --- the demand of this layer, or real_pin ---
    pc, mode,
    route,          \* distinct experts of the route, or of the pin request
    entry,          \* GPU remap result (entry_local)
    side,           \* route_side: experts demand_core takes as already placed
    local,          \* row handed to the GPU (local / final_local)
    todo,           \* experts still to remap or to allocate
    reads,          \* placements whose bytes are not complete
    err             \* g_async_error is set

poolVars == <<e2r, pending_e2r, free_rows, speculative, pinned>>
byteVars == <<content, writers>>
demandVars == <<pc, mode, route, entry, side, local, todo, reads, err>>
vars == <<poolVars, leased, byteVars, stale, cb, demandVars>>

RowMap == [Experts -> Rows \cup {NoRow}]
NoRows == [e \in Experts |-> NoRow]
CbIdle == [on |-> FALSE, protect |-> {}, todo |-> {}, taken |-> 0]

Resident == {e \in Experts : e2r[e] # NoRow}
Pending == {e \in Experts : pending_e2r[e] # NoRow}
Cap == Cardinality(Rows)

\* promote_until: 85% of the rows, at least one (note_access_locked).
PromoteUntil ==
    LET fill == (85 * Cap) \div 100 IN IF fill < 1 THEN 1 ELSE fill

\* (mutant) reservations are not counted against the quota.
SpecInflightIgnoresPending == Cardinality(speculative)

\* speculative_inflight of real_prefetch_reserve.
SpecInflight == Cardinality(speculative) + Cardinality(Pending)

\* g_real_mutex is held across steps only by the two allocation loops.
LockFree == ~cb.on /\ pc \notin {"alloc", "pin"}

TypeOK ==
    /\ e2r \in RowMap /\ pending_e2r \in RowMap
    /\ free_rows \in SUBSET Rows
    /\ speculative \in SUBSET Experts /\ pinned \in SUBSET Experts
    /\ leased \in SUBSET Rows
    /\ content \in [Rows -> Experts \cup {Torn}]
    /\ writers \in [Rows -> SUBSET (Experts \cup {Torn})]
    /\ stale \in SUBSET Experts
    /\ cb \in [on : BOOLEAN, protect : SUBSET Experts,
               todo : SUBSET Experts, taken : Nat]
    /\ pc \in {"idle", "remap", "join", "lookup", "note", "core", "alloc",
               "fetch", "ready", "pin", "write"}
    /\ mode \in {"sync", "async"}
    /\ route \in SUBSET Experts
    /\ entry \in RowMap /\ local \in RowMap
    /\ side \in SUBSET Experts /\ todo \in SUBSET Experts
    /\ reads \in SUBSET Experts
    /\ err \in BOOLEAN

\* real_ensure_locked: every row free, both tables empty.
Init ==
    /\ e2r = NoRows /\ pending_e2r = NoRows
    /\ free_rows = Rows
    /\ speculative = {} /\ pinned = {} /\ leased = {}
    /\ content = [r \in Rows |-> Torn]
    /\ writers = [r \in Rows |-> {}]
    /\ stale = {} /\ cb = CbIdle
    /\ pc = "idle" /\ mode = "sync" /\ route = {}
    /\ entry = NoRows /\ side = {} /\ local = NoRows
    /\ todo = {} /\ reads = {} /\ err = FALSE

-----------------------------------------------------------------------------
(* Bytes: a read writes its row outside every lock.  A read that shared    *)
(* the row with another read leaves bytes of both: the marker Torn in      *)
(* writers remembers the overlap until the last of them ends.              *)

WriteBegin(e, r) ==
    /\ e \notin writers[r]
    /\ content' = [content EXCEPT ![r] = Torn]
    /\ writers' = [writers EXCEPT ![r] = @ \cup {e}]

WriteEnd(e, r, complete) ==
    LET others == writers[r] \ {e, Torn} IN
    /\ e \in writers[r]
    /\ content' = [content EXCEPT ![r] =
                     IF complete /\ writers[r] = {e} THEN e ELSE Torn]
    /\ writers' = [writers EXCEPT ![r] =
                     IF others = {} THEN {} ELSE others \cup {Torn}]

-----------------------------------------------------------------------------
(* Row sources under g_real_mutex.                                         *)

\* (mutants) a victim may be leased; a victim may be pinned.
EvictableLeased(protect) == Resident \ (pinned \cup protect)
EvictablePinned(protect) == {v \in Resident \ protect : e2r[v] \notin leased}

Evictable(protect) ==
    {v \in Resident \ (pinned \cup protect) : e2r[v] \notin leased}

\* choose_victim_locked: a verified row first, a speculative one only when
\* no verified row is evictable.  LFU order inside the class is abstracted.
DemandVictims(protect) ==
    LET verified == Evictable(protect) \ speculative
    IN  IF verified # {} THEN verified ELSE Evictable(protect) \cap speculative

\* (mutant) the free row is handed out but not popped.
AllocSlotNoPop(e, r, protect) ==
    /\ r \in free_rows
    /\ e2r' = [e2r EXCEPT ![e] = r]
    /\ UNCHANGED <<free_rows, speculative>>

\* alloc_slot_locked for an expert that is not resident.
AllocSlot(e, r, protect) ==
    \/ /\ r \in free_rows
       /\ free_rows' = free_rows \ {r}
       /\ e2r' = [e2r EXCEPT ![e] = r]
       /\ UNCHANGED speculative
    \/ /\ free_rows = {}
       /\ \E v \in DemandVictims(protect) :
            /\ r = e2r[v]
            /\ e2r' = [e2r EXCEPT ![v] = NoRow, ![e] = r]
            /\ speculative' = speculative \ {v}
       /\ UNCHANGED free_rows

CanAlloc(protect) == free_rows # {} \/ DemandVictims(protect) # {}

\* note_access_locked: while the pool is underfilled, routed predictions
\* become verified rows.
NoteAccess ==
    speculative' = IF Cardinality(Resident) < PromoteUntil
                   THEN speculative \ route ELSE speculative

-----------------------------------------------------------------------------
(* Prediction: real_prefetch_reserve runs in a Metal completion callback.  *)
(* On the main stream it precedes the demand handler of its target; the    *)
(* GPU remap of that target may already be running.  On the auxiliary      *)
(* stream nothing orders the two.                                          *)

CallbackMayRun ==
    \/ LateCallbacks
    \/ pc = "idle"
    \/ pc = "remap"

ReserveBegin(P) ==
    /\ CallbackMayRun /\ LockFree
    /\ P # {} /\ Cardinality(P) <= MaxPredict
    /\ P \ (Resident \cup Pending) # {}
    /\ cb' = [on |-> TRUE, protect |-> P,
              todo |-> P \ (Resident \cup Pending), taken |-> 0]
    /\ UNCHANGED <<poolVars, byteVars, leased, stale, demandVars>>

\* (mutant) a free row is taken whatever the quota says.
FromFreeNoQuota == free_rows # {}

FromFree == SpecInflight < SpecLimit /\ free_rows # {}
SpecVictims == Evictable(cb.protect) \cap speculative
VerifiedVictims ==
    IF SpecInflight < SpecLimit THEN Evictable(cb.protect) \ speculative ELSE {}
PrefetchVictims == IF SpecVictims # {} THEN SpecVictims ELSE VerifiedVictims

BudgetLeft == ReadBudget = 0 \/ cb.taken < ReadBudget

\* Is the reservation for a demand that has already started?  Between two
\* demands a late callback may belong to the one before.
BornStale ==
    CASE ~StaleCancel -> {FALSE}
      [] StaleCancel /\ pc \notin {"idle", "remap"} -> {mode = "async"}
      [] OTHER -> {FALSE, LateCallbacks}

ReserveRow(e, r) ==
    /\ pending_e2r' = [pending_e2r EXCEPT ![e] = r]
    /\ cb' = [cb EXCEPT !.todo = @ \ {e}, !.taken = @ + 1]
    /\ \E born \in BornStale : stale' = IF born THEN stale \cup {e} ELSE stale

ReserveStep(e) ==
    /\ cb.on /\ e \in cb.todo /\ BudgetLeft
    /\ \/ /\ FromFree
          /\ \E r \in free_rows :
               /\ free_rows' = free_rows \ {r}
               /\ ReserveRow(e, r)
          /\ UNCHANGED <<e2r, speculative>>
       \/ /\ ~FromFree
          /\ \E v \in PrefetchVictims :
               /\ e2r' = [e2r EXCEPT ![v] = NoRow]
               /\ speculative' = speculative \ {v}
               /\ ReserveRow(e, e2r[v])
          /\ UNCHANGED free_rows
    /\ UNCHANGED <<pinned, byteVars, leased, demandVars>>

\* The expert is passed over: no victim, the admission guard refused it, or
\* the GPU leased the victim's row before it was unmapped.
ReserveSkip(e) ==
    /\ cb.on /\ e \in cb.todo /\ BudgetLeft /\ ~FromFree
    /\ cb' = [cb EXCEPT !.todo = @ \ {e}]
    /\ UNCHANGED <<poolVars, byteVars, leased, stale, demandVars>>

ReserveEnd ==
    /\ cb.on
    /\ cb.todo = {} \/ ~BudgetLeft
    /\ cb' = CbIdle
    /\ UNCHANGED <<poolVars, byteVars, leased, stale, demandVars>>

-----------------------------------------------------------------------------
(* Reader workers: read_publish of side_region.cpp, one row at a time.     *)

Reading(e) == e \in Pending /\ e \in writers[pending_e2r[e]]

\* preadv into the reserved row starts.
PrefetchRead(e) ==
    /\ e \in Pending /\ ~(StaleCancel /\ e \in stale)
    /\ WriteBegin(e, pending_e2r[e])
    /\ UNCHANGED <<poolVars, leased, stale, cb, demandVars>>

\* The read completed: real_prefetch_publish.
PrefetchPublish(e) ==
    /\ e \in Pending /\ LockFree
    /\ WriteEnd(e, pending_e2r[e], TRUE)
    /\ e2r' = [e2r EXCEPT ![e] = pending_e2r[e]]
    /\ pending_e2r' = [pending_e2r EXCEPT ![e] = NoRow]
    /\ speculative' = speculative \cup {e}
    /\ stale' = stale \ {e}
    /\ UNCHANGED <<free_rows, pinned, leased, cb, demandVars>>

\* (mutants) the row is looked up after its entry was erased; the row is not
\* returned; the read is dropped and retried instead of aborted.
PrefetchAbortLateLookup(e) ==
    /\ e \in Pending /\ LockFree
    /\ IF Reading(e) THEN WriteEnd(e, pending_e2r[e], FALSE)
                     ELSE UNCHANGED byteVars
    /\ pending_e2r' = [pending_e2r EXCEPT ![e] = NoRow]
    /\ free_rows' = free_rows \cup {pending_e2r'[e]}
    /\ stale' = stale \ {e}
    /\ UNCHANGED <<e2r, speculative, pinned, leased, cb, demandVars>>

PrefetchAbortKeepsRow(e) ==
    /\ e \in Pending /\ LockFree
    /\ IF Reading(e) THEN WriteEnd(e, pending_e2r[e], FALSE)
                     ELSE UNCHANGED byteVars
    /\ pending_e2r' = [pending_e2r EXCEPT ![e] = NoRow]
    /\ stale' = stale \ {e}
    /\ UNCHANGED <<e2r, free_rows, speculative, pinned, leased, cb, demandVars>>

PrefetchAbortRetries(e) ==
    /\ e \in Pending /\ LockFree
    /\ IF Reading(e) THEN WriteEnd(e, pending_e2r[e], FALSE)
                     ELSE UNCHANGED byteVars
    /\ stale' = stale \ {e}
    /\ UNCHANGED <<poolVars, leased, cb, demandVars>>

\* Short read, failed open or stale target: real_prefetch_abort.
PrefetchAbort(e) ==
    /\ e \in Pending /\ LockFree
    /\ IF Reading(e) THEN WriteEnd(e, pending_e2r[e], FALSE)
                     ELSE UNCHANGED byteVars
    /\ pending_e2r' = [pending_e2r EXCEPT ![e] = NoRow]
    /\ free_rows' = free_rows \cup {pending_e2r[e]}
    /\ stale' = stale \ {e}
    /\ UNCHANGED <<e2r, speculative, pinned, leased, cb, demandVars>>

-----------------------------------------------------------------------------
(* Demand.  One demand of the layer runs at a time: the next forward's     *)
(* route depends on this layer's output.  An asynchronous demand finds no  *)
(* lease: the handler of the forward's first layer released them all.  A   *)
(* synchronous one (a prompt, the replay of an overflow) releases none.    *)

Missing(m) == {e \in route : m[e] = NoRow}

Begin(R, m) ==
    /\ pc = "idle"
    /\ R # {} /\ Cardinality(R) <= MaxRoute
    /\ m = "async" => leased = {}
    /\ route' = R /\ mode' = m
    /\ pc' = IF m = "async" THEN "remap" ELSE "join"
    /\ todo' = IF m = "async" THEN R ELSE {}
    /\ UNCHANGED <<poolVars, byteVars, leased, stale, cb, entry, side, local,
                   reads, err>>

\* (mutant) the remap looks the row up without leasing it.
RemapNoLease(e) ==
    /\ pc = "remap" /\ e \in todo
    /\ entry' = [entry EXCEPT ![e] = e2r[e]]
    /\ todo' = todo \ {e}
    /\ UNCHANGED <<poolVars, byteVars, leased, stale, cb, pc, mode, route, side,
                   local, reads, err>>

\* demand_gpu_remap for one routed expert: look the row up, lease it and
\* confirm the mapping.
Remap(e) ==
    /\ pc = "remap" /\ e \in todo
    /\ entry' = [entry EXCEPT ![e] = e2r[e]]
    /\ leased' = leased \cup ({e2r[e]} \ {NoRow})
    /\ todo' = todo \ {e}
    /\ UNCHANGED <<poolVars, byteVars, stale, cb, pc, mode, route, side, local,
                   reads, err>>

\* The remap's command buffer completed: the handler marks the target
\* consumed and looks for misses.  Completion handlers of one stream run one
\* after the other.
HandlerStart ==
    /\ pc = "remap" /\ todo = {}
    /\ LateCallbacks \/ ~cb.on
    /\ stale' = IF StaleCancel THEN Pending ELSE stale
    /\ local' = entry
    /\ pc' = IF Missing(entry) = {} THEN "note" ELSE "join"
    /\ UNCHANGED <<poolVars, byteVars, leased, cb, mode, route, entry, side,
                   todo, reads, err>>

\* real_prefetch_wait_pending: wait until no routed expert is in flight.
\* The lock is released on return.
Join ==
    /\ pc = "join" /\ LockFree
    /\ route \cap Pending = {}
    /\ pc' = IF mode = "sync" THEN "core" ELSE "lookup"
    /\ UNCHANGED <<poolVars, byteVars, leased, stale, cb, mode, route, entry,
                   side, local, todo, reads, err>>

\* real_lookup_values: rows of the experts that landed while waiting.
Lookup ==
    /\ pc = "lookup" /\ LockFree
    /\ side' = route \cap Resident
    /\ local' = [e \in Experts |-> IF e \in side' THEN e2r[e] ELSE entry[e]]
    /\ pc' = IF Missing(local') = {} THEN "note" ELSE "core"
    /\ UNCHANGED <<poolVars, byteVars, leased, stale, cb, mode, route, entry,
                   todo, reads, err>>

\* No true miss: only the access is recorded, then the rows are final.
Note ==
    /\ pc = "note" /\ LockFree
    /\ NoteAccess
    /\ pc' = "ready"
    /\ UNCHANGED <<e2r, pending_e2r, free_rows, pinned, byteVars, leased,
                   stale, cb, mode, route, entry, side, local, todo, reads,
                   err>>

\* real_needed; demand_dual passes no side rows.
RealNeeded == route \ side

\* real_needed.size() + unavailable_pins > cap
OverCap == Cardinality(RealNeeded \cup pinned) > Cap

\* Pass one and the preflight of demand_core_locked.
Core ==
    /\ pc = "core" /\ LockFree /\ ~OverCap
    /\ NoteAccess
    /\ local' = [e \in Experts |-> IF e \in side THEN local[e]
                                   ELSE IF e \in route THEN e2r[e] ELSE NoRow]
    /\ todo' = RealNeeded \ Resident
    /\ reads' = RealNeeded \ Resident
    /\ pc' = IF todo' = {} THEN "ready" ELSE "alloc"
    /\ UNCHANGED <<e2r, pending_e2r, free_rows, pinned, byteVars, leased,
                   stale, cb, mode, route, entry, side, err>>

\* The demand is forgotten; the handler of the next layer releases its rows
\* (real_release_before_layer), if there is a next layer.
DemandOver ==
    /\ pc' = "idle" /\ route' = {} /\ entry' = NoRows
    /\ side' = {} /\ local' = NoRows /\ todo' = {} /\ reads' = {}
    /\ leased' = IF LastLayer THEN leased ELSE {}

\* The preflight fails: demand_dual returns code 2 and Python serves the
\* layer from temporary experts; the async handler throws.
CoreOverCap ==
    /\ pc = "core" /\ LockFree /\ OverCap
    /\ NoteAccess
    /\ err' = (err \/ mode = "async")
    /\ DemandOver
    /\ UNCHANGED <<e2r, pending_e2r, free_rows, pinned, byteVars, stale, cb,
                   mode>>

\* Pass two: a slot for one more miss, published at once.
AllocMiss(e) ==
    /\ pc = "alloc" /\ e \in todo
    /\ \E r \in Rows :
         /\ AllocSlot(e, r, RealNeeded)
         /\ local' = [local EXCEPT ![e] = r]
    /\ todo' = todo \ {e}
    /\ pc' = IF todo' = {} THEN "fetch" ELSE "alloc"
    /\ UNCHANGED <<pending_e2r, pinned, byteVars, leased, stale, cb, mode,
                   route, entry, side, reads, err>>

\* "preflight passed but no evictable real slot": demand_dual raises into
\* Python, the async handler records the error and hands out row 0.
AllocThrow ==
    /\ pc = "alloc" /\ ~CanAlloc(RealNeeded)
    /\ err' = (err \/ mode = "async")
    /\ DemandOver
    /\ UNCHANGED <<poolVars, byteVars, stale, cb, mode>>

\* submit_demand_reads: the misses are read in parallel into their rows.
DemandRead(e) ==
    /\ pc = "fetch" /\ e \in reads
    /\ WriteBegin(e, local[e])
    /\ UNCHANGED <<poolVars, leased, stale, cb, demandVars>>

\* bg_reader_wait_all returns when the last of them is done.
DemandReadDone(e) ==
    /\ pc = "fetch" /\ e \in reads
    /\ WriteEnd(e, local[e], TRUE)
    /\ reads' = reads \ {e}
    /\ pc' = IF reads' = {} THEN "ready" ELSE "fetch"
    /\ UNCHANGED <<poolVars, leased, stale, cb, mode, route, entry, side,
                   local, todo, err>>

\* The GPU has read its rows, and the next layer's handler clears the leases
\* of this one, under the lock.
Retire ==
    /\ pc = "ready"
    /\ mode = "async" /\ ~LastLayer => LockFree
    /\ DemandOver
    /\ UNCHANGED <<poolVars, byteVars, stale, cb, mode, err>>

\* real_release_before_layer(0): the handler of the first layer of the next
\* asynchronous forward clears what the last layer still holds.
ReleaseLeases ==
    /\ pc = "idle" /\ leased # {} /\ LockFree
    /\ leased' = {}
    /\ UNCHANGED <<poolVars, byteVars, stale, cb, demandVars>>

\* demand_async_check throws the recorded error until demand_async_stats_reset
\* clears it.
StatsReset ==
    /\ pc = "idle" /\ err
    /\ err' = FALSE
    /\ UNCHANGED <<poolVars, byteVars, leased, stale, cb, pc, mode, route,
                   entry, side, local, todo, reads>>

-----------------------------------------------------------------------------
(* Pinning: real_pin under the lock, then the bytes of every expert of the *)
(* request are written synchronously (ResidentPool.pin).                   *)

PinBegin(S) ==
    /\ pc = "idle" /\ LockFree
    /\ PinInFlight \/ Pending = {}
    /\ S # {} /\ Cardinality(pinned \cup S) <= MaxPins
    /\ Cardinality(pinned \cup S) <= Cap
    /\ pinned' = pinned \cup S
    /\ route' = S /\ todo' = S \ Resident /\ local' = [e \in Experts |->
                        IF e \in S THEN e2r[e] ELSE NoRow]
    /\ pc' = IF todo' = {} THEN "write" ELSE "pin"
    /\ UNCHANGED <<e2r, pending_e2r, free_rows, speculative, byteVars, leased,
                   stale, cb, mode, entry, side, reads, err>>

PinAlloc(e) ==
    /\ pc = "pin" /\ e \in todo
    /\ \E r \in Rows :
         /\ AllocSlot(e, r, route)
         /\ local' = [local EXCEPT ![e] = r]
    /\ todo' = todo \ {e}
    /\ pc' = IF todo' = {} THEN "write" ELSE "pin"
    /\ UNCHANGED <<pending_e2r, pinned, byteVars, leased, stale, cb, mode,
                   route, entry, side, reads, err>>

\* "real_pin has no evictable slot"
PinThrow ==
    /\ pc = "pin" /\ ~CanAlloc(route)
    /\ DemandOver
    /\ UNCHANGED <<poolVars, byteVars, stale, cb, mode, err>>

\* pool_write_stacked copies whole records into the slots real_pin returned.
PinWrite ==
    /\ pc = "write"
    /\ LET owner(r) == CHOOSE e \in route : local[e] = r
           rows == {local[e] : e \in route} IN
         /\ content' = [r \in Rows |->
              IF r \notin rows THEN content[r]
              ELSE IF writers[r] = {} THEN owner(r) ELSE Torn]
         /\ writers' = [r \in Rows |->
              IF r \notin rows \/ writers[r] = {} THEN writers[r]
              ELSE writers[r] \cup {Torn}]
    /\ DemandOver
    /\ UNCHANGED <<poolVars, stale, cb, mode, err>>

-----------------------------------------------------------------------------
CallbackNext ==
    \/ \E P \in SUBSET Experts : ReserveBegin(P)
    \/ \E e \in Experts : ReserveStep(e) \/ ReserveSkip(e)
    \/ ReserveEnd

ReaderNext ==
    \E e \in Experts : PrefetchRead(e) \/ PrefetchPublish(e) \/ PrefetchAbort(e)

DemandNext ==
    \/ \E R \in SUBSET Experts, m \in Modes : Begin(R, m)
    \/ \E e \in Experts : \/ Remap(e) \/ AllocMiss(e)
                          \/ DemandRead(e) \/ DemandReadDone(e)
    \/ HandlerStart \/ Join \/ Lookup \/ Note \/ Core \/ CoreOverCap
    \/ AllocThrow \/ Retire \/ ReleaseLeases \/ StatsReset

PinNext ==
    \/ \E S \in SUBSET Experts : PinBegin(S)
    \/ \E e \in Experts : PinAlloc(e)
    \/ PinThrow \/ PinWrite

Next == CallbackNext \/ ReaderNext \/ DemandNext \/ PinNext

Spec == Init /\ [][Next]_vars
-----------------------------------------------------------------------------
(* What the code relies on and nothing in it enforces, as conditions on    *)
(* steps.  The properties below say in which behaviours they are needed.   *)

\* A callback that comes after the demand's join reserves no row for a routed
\* expert and takes none from one.  Callbacks in stream order come before.
LateSparesRoute ==
    cb.on /\ pc \notin {"idle", "remap", "join"} =>
        \A e \in route : e2r'[e] = e2r[e] /\ pending_e2r'[e] = pending_e2r[e]

\* An allocation of the core evicts no expert that the wait rescued.
AllocSparesRescued == pc = "alloc" => \A e \in side : e2r'[e] = e2r[e]

-----------------------------------------------------------------------------
(* Properties.                                                             *)

\* No row has two owners: the free list, the published map and the
\* reservations name disjoint rows, and two experts never share one.
RowExclusive ==
    /\ \A e, f \in Experts : e # f =>
         /\ e \in Resident => e2r[e] # e2r[f]
         /\ e \in Pending => pending_e2r[e] # pending_e2r[f]
    /\ \A e, f \in Experts : e \in Resident => e2r[e] # pending_e2r[f]
    /\ \A e \in Experts :
         e2r[e] \notin free_rows /\ pending_e2r[e] \notin free_rows

\* No row is lost: whatever sequence of reservations, publications, aborts,
\* evictions and pins ran, each physical row is free, resident or reserved.
\* A second row given to an expert that already has one would leak the first.
NoRowLost ==
    \A r \in Rows : \/ r \in free_rows
                    \/ \E e \in Experts : e2r[e] = r \/ pending_e2r[e] = r

\* The strengthening that makes NoRowLost inductive when late callbacks spare
\* the route and pins find no read in flight: an expert never has a second row
\* because neither the callback nor an allocation picks one that has a row.
OneRowInv ==
    /\ NoRowLost
    /\ Resident \cap Pending = {}
    /\ cb.on => /\ pc \notin {"alloc", "pin"}
                /\ cb.todo \cap (Resident \cup Pending) = {}
    /\ pc \in {"lookup", "core", "alloc"} => route \cap Pending = {}
    /\ pc = "alloc" => todo \subseteq route
    /\ pc = "pin" => Pending = {}
    /\ pc \in {"alloc", "pin"} => todo \cap Resident = {}

\* Two experts of one route are never given one row (the silent slot sharing
\* demand_core_locked's preflight exists to prevent).
RouteRowsDistinct ==
    pc \in {"fetch", "ready"} =>
        \A e, f \in route : e # f => local[e] # local[f]

\* No read, prediction's or demand's, is filling a row the GPU has leased,
\* even when the prediction callback comes late (real_prefetch_reserve's
\* comment on lease lifetime).
LeasedRowsNotWritten == \A r \in leased : writers[r] = {}

\* The strengthening that makes it inductive: a row that is written is reserved
\* or awaited by the demand, and neither kind of row, nor a free one, is leased.
LeaseInv ==
    /\ LeasedRowsNotWritten
    /\ \A r \in Rows :
         /\ \A f \in Experts : f \in writers[r] =>
              pending_e2r[f] = r \/ (pc = "fetch" /\ f \in reads /\ local[f] = r)
         /\ Torn \in writers[r] => \E f \in Experts : f \in writers[r]
    /\ free_rows \cap leased = {}
    /\ \A e \in Pending : pending_e2r[e] \notin leased
    /\ pc \in {"alloc", "fetch"} => \A e \in reads \ todo : local[e] \notin leased
    /\ pc = "fetch" => todo = {}
    /\ cb.on => pc \notin {"alloc", "pin"} /\ cb.todo \cap Pending = {}
    /\ pc \in {"alloc", "pin"} => todo \cap Resident = {}

\* Reservations and publications together never exceed the speculative share.
SpecQuota == SpecInflight <= SpecLimit

\* "preflight passed but no evictable real slot" is never raised.
PreflightSuffices == pc = "alloc" => CanAlloc(RealNeeded)

\* A resident pinned expert is never evicted, and it changes its row only when
\* a read that was already in flight for it is published.
PinnedRowsNeverMove ==
    [][\A e \in (pinned \cap Resident) \ Pending : e2r'[e] = e2r[e]]_vars

-----------------------------------------------------------------------------
(* The demand path implements DemandService.                               *)

Phase == CASE pc = "ready" -> "answered"
           [] pc \in {"idle", "pin", "write"} -> "idle"
           [] OTHER -> "asked"

Service == INSTANCE DemandService WITH
    Slots <- Cap,
    phase <- Phase,
    asked <- IF Phase = "idle" THEN {} ELSE route,
    served <- IF pc = "ready" THEN {e \in route : content[local[e]] = e} ELSE {},
    pins <- pinned

\* Every behaviour of the pool is one of the service: routed experts are
\* answered with their own bytes, which stay until the layer's rows are
\* released, and a demand fails only for want of capacity.
ImplementsService == Service!Spec

-----------------------------------------------------------------------------
(* Liveness.  Reader workers and completion handlers are threads that run  *)
(* until their work is done.  g_real_mutex and the stream's queue of       *)
(* handlers serve a waiter eventually, though others may go first: hence   *)
(* strong fairness for the steps that need the lock while callbacks recur. *)

\* The callback inside real_prefetch_reserve goes on.
CallbackStep == \/ \E e \in Experts : ReserveStep(e) \/ ReserveSkip(e)
                \/ ReserveEnd

\* Steps of the GPU, the demand or the pin that wait for nobody.
OwnStep == \/ \E e \in Experts : Remap(e) \/ AllocMiss(e) \/ PinAlloc(e)
           \/ AllocThrow \/ PinThrow \/ PinWrite

\* Steps of the demand that wait for the lock, or for the handlers before it.
LockStep == \/ HandlerStart \/ Join \/ Lookup \/ Note
            \/ Core \/ CoreOverCap \/ Retire

Fairness ==
    /\ \A e \in Experts :
         /\ WF_vars(PrefetchRead(e))
         /\ SF_vars(PrefetchPublish(e) \/ PrefetchAbort(e))
         /\ WF_vars(DemandRead(e)) /\ WF_vars(DemandReadDone(e))
    /\ WF_vars(CallbackStep) /\ WF_vars(OwnStep) /\ SF_vars(LockStep)

FairSpec == Spec /\ Fairness

\* A demand never waits forever for a prediction it must join, nor for the
\* lock: it is answered or refused.
DemandAnswered == Phase = "asked" ~> Phase # "asked"

=============================================================================
