---------------------------- MODULE ResidentPool ----------------------------
(***************************************************************************)
(* The Python expert pool of one layer (core/cache/resident_pool.py) with  *)
(* the store that fills it (expert_store.py) and its two background        *)
(* readers: BackgroundExpertPrefetcher (bg_prefetch.py) and the byte       *)
(* prefetch of BlobExpertSource (blob_loader.py).  The pool belongs to the *)
(* thread that runs the model; the readers run beside it.                  *)
(*                                                                         *)
(* mode says how predictions are loaded: "sync", "async" (the prefetch     *)
(* buffer), "bg", "blob"; in "dual" the rows are also handed out by the    *)
(* C++ demand path, here `native`, the layer's ledger of module RealPool.  *)
(***************************************************************************)
EXTENDS Integers, FiniteSets, PyLists

CONSTANTS
    Experts,
    Layers, Here,   \* the layers the readers serve, the one of this pool
    Cap, InitSlots, \* cap_for(layer), _POOL_INIT_SLOTS
    Configs,        \* of <<mode, policy>>, the policy "lfu" or "lru"
    HostPath,       \* dual mode: some prompts have few enough experts for acquire_host
    Decay,          \* lfu_decay_interval
    Window,         \* layers the readers keep
    BufferSize,     \* PREFETCH_BUFFER_EXPERTS
    MaxRoute, MaxPins, MaxAhead,    \* bounds: of a list, of the pins, of the reads ahead
    None

Rows == 0 .. Cap - 1

ASSUME PoolAssumption ==
    /\ Cap \in Nat \ {0} /\ InitSlots \in Nat \ {0} /\ Decay \in Nat \ {0}
    /\ Here \in Layers /\ Window \in Nat \ {0} /\ MaxRoute \in 0 .. Cap
    /\ IsFiniteSet(Experts) /\ None \notin Experts \cup Rows

VARIABLES
    mode, policy,
    pool,       \* [alloc, free, lru, slot, table, pinned, freq, count, bytes, ok]
    buffer,     \* _prefetch_buffer: this layer's experts, oldest first
    bg,         \* [queue, batch, ready, layers]
    pf,         \* [cache, futures, failed, layers]
    native,     \* the C++ ledger: [slot, free]
    raised      \* the request and the pins when a ValueError last left the pool

vars == <<mode, policy, pool, buffer, bg, pf, native, raised>>
Lists == {s \in UNION {[1 .. n -> Experts] : n \in 1 .. MaxRoute} : IsInjective(s)}
Smaller(a, b) == IF a < b THEN a ELSE b

Init ==
    /\ \E c \in Configs : mode = c[1] /\ policy = c[2]
    /\ pool = [alloc |-> 0, free |-> <<>>, lru |-> <<>>, slot |-> [e \in Experts |-> None],
               table |-> None, pinned |-> {}, freq |-> [e \in Experts |-> 0], count |-> 0,
               bytes |-> [r \in Rows |-> None], ok |-> TRUE]
    /\ buffer = <<>>
    /\ bg = [queue |-> <<>>, batch |-> None, ready |-> <<>>, layers |-> <<>>]
    /\ pf = [cache |-> {}, futures |-> {}, failed |-> {}, layers |-> <<>>]
    /\ native = [slot |-> [e \in Experts |-> None], free |-> [i \in 1 .. Cap |-> i - 1]]
    /\ raised = {}
-----------------------------------------------------------------------------
(* Rows.                                                                   *)

Resident(p) == ToSet(p.lru)
Touch(p, e) == [p EXCEPT !.lru = Append(Without(@, {e}), e)]
SetTable(p, e, row) == IF p.table = None THEN p ELSE [p EXCEPT !.table[e] = row]

\* _alloc_pool: a pool of the dual mode is allocated whole.
AllocPool(p) ==
    LET n == IF mode = "dual" THEN Cap ELSE Smaller(InitSlots, Cap) IN
    IF p.alloc # 0 THEN p
    ELSE [p EXCEPT !.alloc = n, !.free = [i \in 1 .. n |-> i - 1]]

\* _grow_pool by half, at least one row, up to the cap.
Grow(p) ==
    LET half == p.alloc \div 2
        n == Smaller(p.alloc + (IF half = 0 THEN 1 ELSE half), Cap)
    IN  [p EXCEPT !.alloc = n, !.free = @ \o [i \in 1 .. n - p.alloc |-> p.alloc + i - 1]]

Candidates(p, current) == Without(p.lru, p.pinned \cup current)

\* The least recent, or the least frequent and then least recent.
Victim(p, current) ==
    LET c == Candidates(p, current) IN
    IF policy = "lru" THEN c[1]
    ELSE c[CHOOSE i \in DOMAIN c : \A j \in DOMAIN c :
               p.freq[c[i]] < p.freq[c[j]] \/ (p.freq[c[i]] = p.freq[c[j]] /\ i <= j)]

\* (mutant) The lookup table keeps the evicted expert.
EvictKeepsTable(p, e) == [p EXCEPT !.lru = Without(@, {e}), !.slot[e] = None]

Evict(p, e) == SetTable([p EXCEPT !.lru = Without(@, {e}), !.slot[e] = None], e, -1)

Seat(p, e, row) == Touch(SetTable([p EXCEPT !.slot[e] = row], e, row), e)

\* (mutant) No growth: the rows allocated first are all there are.
AllocSlotNoGrow(p, e, current) ==
    IF e \in Resident(p) THEN Touch(p, e)
    ELSE IF p.free # <<>> THEN Seat([p EXCEPT !.free = Tail(@)], e, Head(p.free))
    ELSE IF Candidates(p, current) = <<>> THEN [p EXCEPT !.ok = FALSE]
    ELSE LET v == Victim(p, current) IN Seat(Evict(p, v), e, p.slot[v])

\* _alloc_slot; without a candidate _choose_victim raises.
AllocSlot(p, e, current) ==
    LET q == IF p.free = <<>> /\ p.alloc < Cap THEN Grow(p) ELSE p IN
    IF e \in Resident(p) THEN Touch(p, e)
    ELSE IF q.free # <<>> THEN Seat([q EXCEPT !.free = Tail(@)], e, Head(q.free))
    ELSE IF Candidates(q, current) = <<>> THEN [q EXCEPT !.ok = FALSE]
    ELSE LET v == Victim(q, current) IN Seat(Evict(q, v), e, q.slot[v])

WriteRows(p, ids) ==
    [p EXCEPT !.bytes = [r \in Rows |->
        IF \E e \in ids : p.slot[e] = r THEN CHOOSE e \in ids : p.slot[e] = r ELSE p.bytes[r]]]

AllocAll(p, ids, current) ==
    FoldLeft(LAMBDA x, e : IF x.ok THEN AllocSlot(x, e, current) ELSE x, p, ids)

\* _place_experts and _place_experts_stacked: every slot, then one write.
PlaceAll(p, ids, current) ==
    LET q == AllocAll(AllocPool(p), ids, current) IN IF q.ok THEN WriteRows(q, ToSet(ids)) ELSE q

\* _place_expert: one slot, one write.
Place(p, e, current) ==
    LET q == AllocSlot(AllocPool(p), e, current) IN IF q.ok THEN WriteRows(q, {e}) ELSE q

\* _place_expert for those of ids that are not there, up to the first failure.
PlaceMissing(p, ids, current, touch) ==
    FoldLeft(LAMBDA x, e : IF ~x.ok THEN x
                           ELSE IF e \notin Resident(x) THEN Place(x, e, current)
                           ELSE IF touch THEN Touch(x, e) ELSE x, p, ids)

NoteAccess(p, ids) ==
    LET f == [e \in Experts |-> p.freq[e] + (IF e \in ToSet(ids) THEN 1 ELSE 0)]
        n == p.count + Len(ids)
    IN  IF policy # "lfu" THEN p
        ELSE IF n < Decay THEN [p EXCEPT !.freq = f, !.count = n]
        ELSE [p EXCEPT !.freq = [e \in Experts |-> f[e] \div 2], !.count = 0]

\* The pool after a call for ids, which may have raised.
Leave(p, ids) ==
    /\ pool' = [p EXCEPT !.ok = TRUE]
    /\ raised' = IF p.ok THEN raised ELSE ToSet(ids) \cup pool.pinned
-----------------------------------------------------------------------------
(* Demand.                                                                 *)

\* acquire up to the loader: accesses noted, hits touched.
Hits(p, ids) ==
    FoldLeft(LAMBDA x, e : IF e \in Resident(x) THEN Touch(x, e) ELSE x, NoteAccess(p, ids), ids)
Misses(p, ids) == Without(ids, Resident(p))

\* A read already under way is waited for.
Waits(ids) == \E e \in ToSet(ids) : <<Here, e>> \in pf.futures

AcquireFrom(p, ids) ==
    /\ ~Waits(Misses(p, ids))
    /\ Leave(IF Misses(p, ids) = <<>> THEN Hits(p, ids)
             ELSE PlaceAll(Hits(p, ids), Misses(p, ids), ToSet(ids)), ids)
    /\ buffer' = Without(buffer, ToSet(Misses(p, ids)))
    /\ UNCHANGED <<mode, policy, bg, pf, native>>

\* The read fails (it is the error of the prefetch, if there was one): nothing
\* is placed.
LoadFails(p, ids) ==
    /\ ~Waits(Misses(p, ids))
    /\ \E e \in ToSet(Misses(p, ids)) : e \notin ToSet(buffer) /\ <<Here, e>> \notin pf.cache
    /\ pool' = Hits(p, ids)
    /\ buffer' = Without(buffer, ToSet(Misses(p, ids)))
    /\ UNCHANGED <<mode, policy, bg, pf, native, raised>>

Load(p, ids) ==
    \/ /\ \A e \in ToSet(Misses(p, ids)) : <<Here, e>> \notin pf.failed
       /\ AcquireFrom(p, ids)
    \/ LoadFails(p, ids)

\* Only acquire_host comes here in the dual mode; a prompt with more experts
\* than rows is loaded beside the pool.
Acquire(ids) == (mode = "dual" => HostPath) /\ Load(pool, ids)

\* acquire_gpu: the table answers when it holds the whole route.
AcquireGpu(ids) ==
    LET p == [pool EXCEPT !.table =
                 IF @ = None THEN [e \in Experts |-> IF pool.slot[e] = None THEN -1 ELSE pool.slot[e]]
                 ELSE @]
    IN  /\ mode # "dual"
        /\ IF \A e \in ToSet(ids) : p.table[e] >= 0
           THEN /\ pool' = NoteAccess(p, ids)
                /\ UNCHANGED <<mode, policy, buffer, bg, pf, native, raised>>
           ELSE Load(p, ids)

\* A row of the C++ ledger for e: a free one, or one of an expert outside ids.
NativeRow(n, ids) == IF n.free # <<>> THEN Head(n.free)
                     ELSE Min({n.slot[v] : v \in Experts \ ToSet(ids)} \ {None})
Give(n, e, ids) ==
    IF n.slot[e] # None THEN n
    ELSE [slot |-> [x \in Experts |-> IF x = e THEN NativeRow(n, ids)
                                      ELSE IF n.slot[x] = NativeRow(n, ids) THEN None ELSE n.slot[x]],
          free |-> IF n.free # <<>> THEN Tail(n.free) ELSE <<>>]
GiveAll(n, ids) == FoldLeft(LAMBDA x, e : Give(x, e, ids), n, ids)

\* A forward of few tokens in the dual mode: the C++ side allocates and reads.
\* _bootstrap_dual_pool makes the pool unless the host path did.
NativeDemand(ids) ==
    LET after == GiveAll(native, ids)
        read == {e \in ToSet(ids) : native.slot[e] = None}
    IN  /\ mode = "dual"
        /\ native' = after
        /\ pool' = [pool EXCEPT !.alloc = Cap, !.bytes = [r \in Rows |->
                       IF \E e \in read : after.slot[e] = r
                       THEN CHOOSE e \in read : after.slot[e] = r ELSE pool.bytes[r]]]
        /\ UNCHANGED <<mode, policy, buffer, bg, pf, raised>>
-----------------------------------------------------------------------------
(* Pins and predictions.                                                   *)

\* FileExpertStore.pin: loaded, then pin_loaded.
PinOne(p, e) ==
    LET q == IF e \in Resident(p) THEN Touch(p, e) ELSE Place(p, e, {e})
    IN  IF ~p.ok THEN p ELSE IF q.ok THEN [q EXCEPT !.pinned = @ \cup {e}] ELSE q
PinAll(p, ids) == FoldLeft(LAMBDA x, e : PinOne(x, e), p, ids)

Pin(ids) ==
    /\ mode # "dual"
    /\ Cardinality(pool.pinned \cup ToSet(ids)) <= Smaller(Cap, MaxPins)
    /\ Leave(PinAll(pool, ids), ids)
    /\ UNCHANGED <<mode, policy, buffer, bg, pf, native>>

\* prefetch of the pool: into rows, each with the whole batch protected.
PrefetchSync(ids) ==
    /\ mode = "sync"
    /\ Leave(PlaceMissing(pool, ids, ToSet(ids), TRUE), ids)
    /\ UNCHANGED <<mode, policy, buffer, bg, pf, native>>

\* prefetch of the store: into a bounded buffer, the oldest dropped.
PrefetchBuffered(ids) ==
    LET new == Without(ids, Resident(pool) \cup ToSet(buffer))
        all == buffer \o new
    IN  /\ mode = "async"
        /\ buffer' = IF Len(all) <= BufferSize THEN all
                     ELSE SubSeq(all, Len(all) - BufferSize + 1, Len(all))
        /\ UNCHANGED <<mode, policy, pool, bg, pf, native, raised>>

\* _submit_missing_prefetch
BgSubmit(l, ids) ==
    LET missing == IF l = Here THEN Without(ids, Resident(pool)) ELSE ids
    IN  /\ mode = "bg" /\ missing # <<>> /\ bg.queue = <<>>
        /\ Len(bg.ready) + Len(missing) <= MaxAhead
        /\ bg' = [bg EXCEPT !.queue = Append(@, <<l, missing>>)]
        /\ UNCHANGED <<mode, policy, pool, buffer, pf, native, raised>>

\* The reader's loop: a request, and later its experts or an exception.
BgTake ==
    /\ bg.batch = None /\ bg.queue # <<>>
    /\ bg' = [bg EXCEPT !.batch = Head(bg.queue), !.queue = Tail(@)]
    /\ UNCHANGED <<mode, policy, pool, buffer, pf, native, raised>>

BgFails ==
    /\ bg.batch # None
    /\ bg' = [bg EXCEPT !.batch = None]
    /\ UNCHANGED <<mode, policy, pool, buffer, pf, native, raised>>

\* The layers a reader keeps after one more.
Rolled(layers, l) ==
    LET all == IF l \in ToSet(layers) THEN layers ELSE Append(layers, l)
    IN  IF Len(all) > Window THEN SubSeq(all, Len(all) - Window + 1, Len(all)) ELSE all

BgPublish ==
    /\ bg.batch # None
    /\ LET l == bg.batch[1]
           keys == [i \in DOMAIN bg.batch[2] |-> <<l, bg.batch[2][i]>>]
           layers == Rolled(bg.layers, l)
           gone == ToSet(bg.layers) \ ToSet(layers)
           fresh == Without(keys, ToSet(bg.ready))
       IN  bg' = [bg EXCEPT !.batch = None, !.layers = layers,
                     !.ready = Without(@ \o fresh, gone \X Experts)]
    /\ UNCHANGED <<mode, policy, pool, buffer, pf, native, raised>>

\* promote_prefetched, at the start of the layer: no room is not an error.
Promote ==
    LET mine == Without(bg.ready, (Layers \ {Here}) \X Experts)
        ids == [i \in DOMAIN mine |-> mine[i][2]]
    IN  /\ mode = "bg"
        /\ bg' = [bg EXCEPT !.ready = Without(@, {Here} \X Experts)]
        /\ pool' = [PlaceMissing(pool, ids, ToSet(ids), FALSE) EXCEPT !.ok = TRUE]
        /\ UNCHANGED <<mode, policy, buffer, pf, native, raised>>

\* prefetch_async of the blob source, with _evict_window.
BlobPrefetch(l, ids) ==
    LET layers == Rolled(pf.layers, l)
        gone == ToSet(pf.layers) \ ToSet(layers)
        keys == {<<l, e>> : e \in ToSet(ids)}
    IN  /\ mode = "blob"
        /\ Cardinality(pf.cache \cup pf.futures \cup pf.failed \cup keys) <= MaxAhead
        /\ pf' = [pf EXCEPT !.futures = @ \cup (keys \ (pf.cache \cup pf.failed)), !.layers = layers,
                            !.cache = {k \in @ : k[1] \notin gone}]
        /\ UNCHANGED <<mode, policy, pool, buffer, bg, native, raised>>

\* _pf_job; one that raises leaves its future behind.
BlobJob(k, good) ==
    /\ k \in pf.futures
    /\ pf' = [pf EXCEPT !.futures = @ \ {k}, !.cache = IF good THEN @ \cup {k} ELSE @,
                        !.failed = IF good THEN @ ELSE @ \cup {k}]
    /\ UNCHANGED <<mode, policy, pool, buffer, bg, native, raised>>

Next ==
    \/ \E ids \in Lists : \/ Acquire(ids) \/ AcquireGpu(ids) \/ NativeDemand(ids) \/ Pin(ids)
                          \/ PrefetchSync(ids) \/ PrefetchBuffered(ids)
    \/ \E l \in Layers, ids \in Lists : BgSubmit(l, ids) \/ BlobPrefetch(l, ids)
    \/ BgTake \/ BgFails \/ BgPublish \/ Promote
    \/ \E k \in pf.futures, good \in BOOLEAN : BlobJob(k, good)

Spec == Init /\ [][Next]_vars
-----------------------------------------------------------------------------
(* Properties.                                                             *)

\* Every way to find an expert leads to a row with its bytes: the slot book of
\* acquire, the lookup table of acquire_gpu (which knows what the book knows)
\* and, in the dual mode, the C++ ledger, "the only authority" over the rows
\* (resident_pool.py:105).
LookupBytes ==
    /\ \A e \in Resident(pool) : pool.bytes[pool.slot[e]] = e
    /\ pool.table # None =>
         \A e \in Experts : pool.table[e] = IF pool.slot[e] = None THEN -1 ELSE pool.slot[e]
    /\ \A e \in Experts : native.slot[e] # None => pool.bytes[native.slot[e]] = e

\* The same until a call has raised: a route that met too many pinned experts
\* leaves entries whose rows were never written.
LookupBytesUntilError == raised # {} \/ LookupBytes

\* A call raises only when its experts and the pinned ones exceed the cap; a
\* route beside which the pins fit is always served.
RaisesOnlyOverfull == raised # {} => Cardinality(raised) > Cap
=============================================================================
