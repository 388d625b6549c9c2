# Vates: a TLA+ verification project

Vates runs mixture-of-experts models whose experts do not fit in memory: for
every layer a pool of rows holds some experts, the others are read from disk
when the router asks for them, and predictions read ahead. This directory
models the parts where that can go wrong silently: rows shared by prediction
callbacks, reader threads, demand handlers and the GPU; results computed before
their experts were there; the caches of the speculative decoder, which run
ahead of the accepted tokens and must come back; and, around them, the
conversation, the threads of the TUI and the preparation of a model on disk. A
row handed out with another expert's bytes, or a cache left one token ahead,
produces a plausible but different token, which no assertion notices.

## Inventory

Sources are relative to the repository; Python lives under `mlx_streaming/`, C++
under `native/ext/`.

| Part | State | Operations | What makes it correct | Modelled in |
|---|---|---|---|---|
| Unified pool, `pool/demand.cpp` (`RealLayer`) | `e2r`, `pending_e2r`, `free_rows`, `speculative`, `pinned`, slot table, lease table | reserve, publish, abort, demand (sync/async), pin, release leases | one owner per row, none lost, served rows hold their expert's bytes (the last two on conditions, see the proofs) | `RealPool` |
| Lease protocol, `demand_gpu_remap` / `real_try_unmap_unleased_locked` | slot table and lease table, no lock | load, lease, confirm; check, unmap, recheck | a confirmed row is not overwritten; counts balance | `RowLease` |
| Background reader, `io/bg_reader.cpp` | two queues, quota counters, tickets, threads | submit, wait, wait_high_idle, start/stop | quota, no lost wake-up, no lost job, termination | `BgReader` |
| Side region, `pool/side_region.cpp` | published and pending rows of a layer and generation, free rows, refinement and drain accounts | reserve, read and publish, cancel, lookup, wait, reset | a row has one place, waits end, served rows keep their bytes | `SideRegion` (its readers' path into the unified pool is in `RealPool`) |
| Staging, `prefetch/prefetch.cpp`, `core/prefetch/native_staging.py` | banks, ready rows, seen/pending/complete per target | submit, fill, take, finish, reap | bank not reused while filled, target state freed, waits end | `Staging` |
| Victim policies, budgets, cooldown | LFU counters | choose, bump, decay | bounded choice | a free choice in `RealPool` and `SideRegion`; LRU and LFU order of the Python pool in `ResidentPool` |
| MTP speculative decoding, `mtp/` | KV and recurrent caches, checkpoints, snapshots, produced tokens | draft, verify, replay, rescue, commit, emit | equals greedy decoding, caches at the accepted tokens | `SpecDecode` |
| Conversation, `tui/backend.py`, `cli.py` | kept cache and its tokens | turn, finish, reset, failure | reuse continues exactly what the cache holds | `ChatSession` |
| Python pools, expert store, `core/cache/` | slots, lookup table, pins, LRU and LFU books, prefetch buffer, queues and futures of the readers | acquire, pin, prefetch, promote | every lookup gives the expert's bytes | `ResidentPool` |
| MoE block, prediction scheduling, verification, `core/moe/`, `core/prefetch/cross_layer.py`, `core/cache/virtual_pool.py` | generation, progressive records, fused and deferred predictions, replay flags, moved attention | schedule, demand, correct, refine, flag, replay | each prediction once, nothing throwaway is kept, no cache is fed twice | `MoeForward` |
| Runtime bundle, downloads, `prep/` | sources, staging directory, published bundle | fetch, build, verify, rename, prune | no half bundle under a final name, no tensor of the original sources lost | `RuntimeBundle` |
| TUI threads, `tui/app.py`, `tui/backend.py` | busy, stop, pending frame; signal deque and events of the publisher | start, interrupt, submit, publish, close, report | all text published, to its own message; turns end | `ChatThreads` |
| Kernels, attention, owned buffers, configuration, benchmarks | tensors, files, environment | | arithmetic and I/O | not modelled |

**Interaction.** The router's output of layer L reaches the GPU remap, which
looks the experts up in the layer's slot table and leases the rows it hits. A
Metal completion handler then joins the reads already in flight for missed
experts, allocates rows for the others, has the background reader fill them,
reserves rows for the predictions of the next layer, and signals the event the
MoE kernel waits for. Reader threads fill reserved rows and publish or abort
them. The leases of L are released by the handler of L+1, those of the last layer by the
first handler of the next asynchronous forward. Pinning runs on the
Python thread between generations. One layer down from a turn of the
conversation, the decoder drafts with the MTP head, runs the drafts through all
layers at once and commits the accepted prefix; a layer that ran without its
experts (optimistic verify, sparse demand) raises a flag that sends the decoder
back to a snapshot.

**Hard behaviours.** Lock-free GPU/CPU access to two tables; decisions taken
under `g_real_mutex` and used after it was released; callbacks of an auxiliary
stream that arrive late; reads that fail half-way; cancellation of queued reads
while a demand waits for them; capacity shared by demand, predictions and pins;
priority queues with a quota and a stop; flags that select how a verify
is run, undone and repeated; work moved from one layer into the one before; a
cache shared between turns; a directory shared by processes that may be killed. `PROJECT.json` lists the hazards with
their lines and the properties that cover them.

## Modules

| Module | Purpose |
|---|---|
| `RealPool` | One layer of the unified pool with its callbacks, readers, demand, GPU remap and pins |
| `DemandService` | What the demand path promises: a route is answered with its own experts' bytes until the kernel is done, and refused only for want of capacity |
| `RowLease` | The lock-free eviction/remap protocol, one atomic access per action |
| `BgReader` | Queues, workers, tickets, stop and restart |
| `SpecDecode` | One request of `mtp_generate`, with the caches of all layers |
| `ChatSession` | Turns over `SpecDecode` that keep and reuse the cache |
| `Greedy` | What a request promises: the tokens of greedy decoding |
| `PyLists` | The list operation that `ResidentPool` and `RuntimeBundle` share |
| `RealPoolProofs`, `SideRegionProofs`, `StagingProofs`, `ChatThreadsProofs`, `ChatSessionProofs`, `MoeForwardProofs` | Theorems about the component of that name, with their proofs |
| `NativeThreadsProofs` | Theorems about `RowLease` and `BgReader` |
| `LoopProofs` | Theorems about `RuntimeBundle` and `ResidentPool`, whose actions run loops over lists |
| `SideRegion` | One isolated side region with its callbacks, readers and demands |
| `Staging` | The ring of staging banks between the Python thread, callbacks, readers and demand handlers |
| `MoeForward` | Forwards of the target model layer by layer, and the replays of `mtp_generate` |
| `ResidentPool` | One layer of the Python pool with store and background readers |
| `RuntimeBundle` | Runs of `vates prepare` over shared sources |
| `ChatThreads` | One chat turn of the TUI, three threads |
| `MC...` | Instances for TLC |

### RealPool

State mirrors `struct RealLayer`. `e2r` and `pending_e2r` map experts to rows;
`leased` is the set of rows with a non-zero lease; `content` says whose bytes a
row holds, and `writers` which reads are filling it, so that two reads of one
row leave `Torn` bytes. `pc` is the demand of the layer: `remap` (GPU), `join`
(`real_prefetch_wait_pending`), `lookup` (`real_lookup_values`), `note`/`core`
(`demand_core_locked` up to its preflight), `alloc` (pass two), `fetch`
(`submit_demand_reads`), `ready` (the GPU reads the rows), or a pin (`pin`,
`write`). `cb` is the callback inside `real_prefetch_reserve`. `g_real_mutex`
is held across steps by the two allocation loops and the reservation loop, and
`LockFree` guards every other step that needs it.

Abstractions: LFU order is a free choice among the rows the code may choose
from (so every result holds for any policy); the FIFO of free rows is a set;
one demand of the layer is in flight at a time, because the next forward's
route depends on this layer's output. Constants select the environment:
`LateCallbacks` (prediction on the auxiliary stream, `PREFETCH_ASYNC_PREDICT`),
`LastLayer` (no later handler releases the leases of the layer, so they survive
into synchronous demands and pins until `ReleaseLeases`, the handler of layer 0
in the next asynchronous forward), `StaleCancel`
(`PREFETCH_CANCEL_STALE_QUEUED`), `PinInFlight` (pinning without draining).

`vates` applies the defaults of `run_qwen_k3_sub10.py`, and these set
`PREFETCH_ASYNC_PREDICT=1` (line 67): the shipped profile is
`LateCallbacks = TRUE`. What holds there without condition: one owner per row,
the quota, leased rows not written, pinned rows staying. The rest, that no row
is lost, the preflight suffices and the demand service is implemented, holds
in the behaviours in which a callback that comes after the demand's join
neither reserves a row for a routed expert nor takes one from it
(`LateSparesRoute`, a condition on steps), given the room and the treatment of
rescued experts that the theorems below state. Nothing in the code enforces that, and
without it all three are violated (see the departures): in the shipped profile
they rest on timing. `RealPoolService` and
`RealPoolLive` run with late callbacks under this condition, as an
`ACTION_CONSTRAINT`; a callback in stream order comes before the join and always
meets it, so they cover that case too.

Left out: partial projections, admission of staged rows by the handler, the side region as a source of rows, prefetch without joining pending
rows, `real_reset`, and demand reads that come back short (the reader reports
them as done and the code only logs them).

### RowLease

One action per atomic access of `demand_gpu_remap` and of
`real_try_unmap_unleased_locked`. `RealPool` treats remap and eviction as atomic;
`RowLease` shows that they may be under sequential consistency. `LeaseSpec` is sequentially consistent.
`RelaxedSpec` lets the confirming load of a thread be performed before its
increment, which `memory_order_relaxed` on two locations allows.

### BgReader

One action per critical section of `loop()` and per call. A job is submitted
once, so high jobs are a finite burst: nothing in the code keeps low jobs from
waiting behind an endless one. `stop()` runs when nobody waits for a ticket and
nothing is being submitted, as in the tests and at exit; a submission racing
`stop()` is undefined behaviour in the code. The comment at `bg_reader.cpp` 106
("退出时低优可超额排空", low jobs may drain over the quota at exit) reads
otherwise, but a stopping worker honours the cap: it leaves low jobs over it to
the others, and so does the model.

### SpecDecode and ChatSession

The main model is an operator `Argmax` from a context to a token. The cache of a
layer is the sequence of tokens it has absorbed, with `Bad` for a token whose
input was not exact, and a forward (`Forward`, `Logits`) propagates inexact
inputs from layer to layer: a layer that lacks an expert spoils its output, not
its own cache. Drafts, misses and stops are free choices. `Linear` layers keep a
recurrent state, which cannot be trimmed: it comes back through the per-token
checkpoints of the patched layer (`Arm`, `Captured`), a snapshot or a replay.

`pc` follows the loop of `mtp_generate`: `loop`, `drafted`, then `missed` or
`verified`, `judged` after a rescue or a tree verify, `emit`. The modes are
derived from the flags (`cfg`) as in the code, including which of them skip the
snapshot, take a shallow one or replay a suffix. `Raises` is where the code
raises because its snapshot is missing or of the wrong kind. Left out:
profiling and the top-k probe, route tracing and the oracle replay,
`PREFETCH_OPTIMISTIC_REPROBE` (layers that missed stay optimistic), chunks of
the prefill (the same cache results), and `--k 1` with `TREE_TOP2_P1`, which
drafts chains of two for a verify of one. In stepwise verify with a sparse
budget the same layers miss for every token.

`ChatSession` owns the cache between turns. A turn that reuses works on the kept
object, so a failure leaves it as it is; an exception is taken between two
steps of the decoder (in the middle of a forward the cache would be no better).
The end of sequence is a stop like any other.

Two combinations of flags are outside the passing run because the code does not
handle them: a sparse budget with a tree mode, adaptive rescue, stepwise verify
or an unpatched recurrent layer (misses go unnoticed), and a sparse budget with
optimistic verify (the snapshot is shallow, and `_restore` raises on it at the
first miss). Both are listed under "Where the code departs".

### MoeForward

What happens between the decoder and the pool in one forward. A forward goes
through the layers; in each, `Attend` is the decoder call up to its MoE block
(attention and cache, `begin_forward`), `Predict` the scheduling of predictions
in the block, and `Serve` the demand, the computation, and the refinement after
it. `PrefillLayer` is a layer of the expert-major prefill, whose grouping
(`Groups`, `Slice`) is computed as the code does and compared with the route;
`MCMoeForward` checks its two sorts (`ByExpert`, `Ascending`) against the library's.
`OptimisticCheck` and `SparseCheck` take the flags and replay, `Rescue`,
`Fallback` and `Commit` are what the decoder does next; `SpecDecode` says what
that means for tokens.

What flows from layer to layer is whether it is exact (`good`). A cache is the
list of what it was fed since the last commit (`fed`), so a second attention on
the same cache, or one from a spoiled input, is seen. The entry mapping of a
demand hits any set of positions and is right there; the final mapping is right
(this is what `RowLease` and `RealPool` show). `FromFinal` says which positions
each way to compute takes from the final mapping; `First` stands for `argsort`,
whose order among equal keys is free. A layer's first demand builds its pool,
without which nothing is predicted for it. Left out: online host submission,
history and post-MoE predictors, pinned GPU demand, partial projections and
the isolated side as a target; a refinement's submission is taken to be
accepted (`Staging` has the other case).

### SideRegion

`mode` holds the switches of a process (row leases, late callbacks,
cancellation of stale targets, how early reads are split, what a demand waits
for, priority of a refinement). A submission goes through `g_side_mutex` row by
row, its reader jobs open, read, fail, come back short, publish or abort, and
the demand of the layer looks up, leases, waits and serves. Leases on host and
device are one count (their lock-free protocol is `RowLease`). Victims are a
free choice. One generation is modelled, since each has books of its own. Used by the code when `PREFETCH_ISOLATED_SIDE=1`
(`virtual_pool.py` 832-845). Left out: the audit trail, statistics, partial
rows.

### Staging

The Python thread walks through forwards and layers and is in one call at a
time (`build`, `reap`, `wait`, `take`); callbacks, readers and completion
handlers run beside it. A submission has a generation, a bank an owner.
`Modes` lists which kind of demand each forward has: `sync`, `async`, `host`
(a prompt too long for the GPU remap) or `promote` (not dual). What a forward's
kind leaves behind is what the next one finds. Left out: the heuristics that
choose ids and widths (inputs), diagnostics. Not repaired in the model either,
because the code does not: promotion outside the dual mode does not release its
bank at once, synchronous demands outside the progressive mode do not free the
records of their target, and a handler that throws does not finish its demand.

### ResidentPool

The pool belongs to the Python thread, so its calls are single steps; the
background prefetcher and the byte prefetch interleave between them.
`mode` is the way predictions are loaded. In the dual mode `native` is the
C++ ledger over the same rows. A run stops at the first `ValueError`
(`OneError`), because after it the pool is known to be wrong: `acquire` checks
only its route against the capacity, so a route that meets too many pinned
experts raises half-way and leaves entries whose rows were never written. Two more
things the code does are in the model and harm no property: a failed byte
prefetch is raised again by every later read of that expert, since its future
is kept; and a byte prefetch that ends after its layer left the window still
inserts its bytes. Left out: the temporary fetch of a prompt beyond the
capacity and its caches, `prefetch_cpp`, statistics, closing the reader.

### RuntimeBundle

Two runs of the command interleave at every file operation and may stop
anywhere, which is a crash as well: what is on disk stays. A blob is the
sequence of its bytes, each named by tensor, expert and position, so the layout
arithmetic is checked. `OutputWhole` is relative to the marker of the bundle,
because a source without an index cannot say which shards it should have.
Left out: checks that paths overlap, retries of a download, and power loss (the
code does not sync).

### ChatThreads

One action per statement of the publisher, because `submit`, `close` and `_run`
share a deque and two events without a lock; the interpreter lock makes each
statement atomic. A text is the number of ids it was decoded from. The user may
interrupt and quit at any time; the decoder may raise, and it may stop at an
end of sequence anywhere in a step. How the framework ends a
`call_from_thread` at exit is not in the repository: it is taken to raise in the
worker. Left out: the worker that loads the model, the environment
variable switched around a turn, the message list (`ChatSession`), and an exception
of the detokenizer: `decoder.push` in the consumer (`backend.py` 188, which calls
`DecodeStream.step`) stands outside any `try`, so one would end the consumer with
ids unpublished, and `AllPublished` would not hold.

## Runs

| Run | Instance | What it shows |
|---|---|---|
| `RealPoolService` | 4 experts, 3 rows, routes and predictions of up to 2, quota 1, late callbacks that spare the route | no row lost, leased rows not written, the preflight suffices, `DemandService` is implemented: served rows hold their experts' bytes |
| `RealPoolLive` | the last layer, 3 experts, 1 row, stale cancellation, a pin with reads in flight, late callbacks that spare the route, fairness | demands that join predictions are answered, pins keep their rows |
| `RowLease` | 3 experts, 2 rows, 2 GPU threads | confirmed rows keep their bytes, lease counts balance, table bytes |
| `BgReader` | 3 workers (2 after a restart), cap 1, 2 reads, 1 refinement, 2 predictions, 1 stop | quota, no missed wake-up, drain, every job finishes |
| `ChatSession` | 12 flag combinations, 3 layers (2 recurrent, 2 progressive), 2 tokens, K = 2, adaptive depth 3, 4 tokens per turn, 6 prompts | turns implement `Greedy`, caches and MTP head are aligned, nothing raises, reuse is exact |
| `MoeForward` | 4 layers, 3 route positions, 2 verify steps, every set of switches of `MCConfigs` | what is kept is exact, flags are consumed by their forward, each prediction is submitted once |
| `SideRegion` | 3 experts, 2 rows, 2 forwards, 3 sets of switches | rows have one place, served rows keep their bytes, waiting demands are answered |
| `Staging` | 2 banks of 1 row, 2 forwards of 4 layers, 6 modes | banks are not reused while filled, only complete rows are copied, banks and records come back, waits end |
| `ResidentPool` | 3 experts, 2 rows, 5 loaders and policies and the dual pool | lookups give the expert's bytes, it raises only beyond the capacity |
| `RuntimeBundle` | 2 runs, 2 outputs, 2 process ids, 2 layers, 2 experts, 7 sources | final names hold whole bundles, no tensor of the original sources is lost |
| `ChatThreads` | 2 turns of up to 3 tokens in steps of up to 2 | all ids published, frames belong to their turn, interruptions reported, turns end |
| `RealPoolRescued` (expected violation) | 3 experts, 2 rows, async demand | rows rescued by the wait are not protected when the core allocates: two routed experts may get one row, against `demand.cpp` 991-994 |

## Where the code departs from what it says

Each is a change of constants (or of the checked property) in the cfg of the
run named, found by TLC in seconds to minutes.

| Run | Change | Violated | What happens |
|---|---|---|---|
| `RealPoolService` | no `ACTION_CONSTRAINT` (the shipped profile) | `ImplementsService`, and also `NoRowLost` and `PreflightSuffices` | a callback after its target's demand evicts or reserves behind it, against `block.py` 568 |
| `RealPoolService` | `LastLayer = TRUE` | `PreflightSuffices` | an asynchronous demand of the last layer leaves its leases to a synchronous one (a sparse replay, `generate.py` 741), whose preflight does not count them, against `demand.cpp` 541 |
| `RealPoolService` | `SpecLimit = 3`, as many as rows | `PreflightSuffices` | rows held by reservations are not counted, against `demand.cpp` 541 |
| `RealPoolService` | `PinInFlight = TRUE`, 4 rows, `MaxPins = 1` | `NoRowLost` | a pin ignores a reservation, the row is leaked, against `resident_pool.py` 446 |
| `RowLease` | `SPECIFICATION RelaxedSpec` | `HitKeepsBytes` | relaxed accesses may be reordered, against `demand.cpp` 318-322 |
| `BgReader` | `HighTasks = {"first"}`, `Yielding = {"first"}` | `JobsFinish` | a first row of high priority waits for itself, against `side_region.cpp` 636 |
| `ChatSession` | `FailReused = TRUE`, `SPECIFICATION Spec` | `ReuseExact` | an exception in a reusing turn leaves the advanced cache under the old tokens, against `backend.py` 211 |
| `ChatSession` | `Configs <- SparseTree` | `ImplementsGreedy` | in tree and rescue modes nobody reads the overflow flags, against `config.py` 203 |
| `MoeForward` | `Configs <- MCLossy` | `KeptExact` | the same from the side of the flags, and four more: a fallback replay that overflows, local correction without partition, a sparse budget with optimistic verify, GPU-only demand without optimistic verify, against `virtual_pool.py` 102-107 |
| `MoeForward` | `Configs <- MCDropped` | `PredictedOnce` | a prediction handed to the next block's demand is dropped when that demand maps its route in two passes |
| `MoeForward` | `Configs <- MCTwice` | `PredictedOnce` | a progressive target predicted from two layers raises |
| `SideRegion` | `Modes <- WithReset` | `RowsPartitioned` | after a reset with reads in flight a row is free twice |
| `Staging` | `Modes <- HostThenAsync` | `NoBankStranded` | a host-path forward leaves banks no later forward of another kind frees |
| `Staging` | `Modes <- SyncNoIO` | `WaitEnds` | a target is marked waitable although nothing was submitted, against `virtual_pool.py` 1120-1122 |
| `ResidentPool` | `HostPath = TRUE`, `Configs <- Dual` | `LookupBytes` | Python and C++ hand out the same rows, against `resident_pool.py` 105 |
| `ChatThreads` | none | `NoLostWakeup` | `submit` tests the deque before it appends; when the consumer empties it in between, no later `submit` wakes it, and the text stands still until the turn is closed, against `backend.py` 117-122 |

The `mtp_generate` docstring (441) says the cache holds `prompt + produced[:-1]`
on return; at `max_tokens` it may lead, as its callers know, and
`CacheHoldsAccepted` is stated accordingly.

## Bounds

`RealPool`: three rows against routes of two leave room for one row held by a
prediction, which is the smallest pool in which the preflight, the quota and
eviction of a verified, a speculative and a leased row all matter; a fourth
expert makes misses and evictions possible when all rows are full. The liveness
run needs one row only: everything then contends for it. `MaxRoute`,
`MaxPredict`, `MaxPins` and `MaxStops` are the only bounds; no counter needs
one.

`ChatSession`: three layers are the fewest in which a suffix replay has an exact
layer before it and a recurrent and a trimmable layer to run again; chains of
two and three reach every outcome of a verify (none, some, all accepted,
rescued at either position), and four tokens per turn let a step cross the cap.
The prompts are two first messages and the strict extensions of what the cache
holds after one or two tokens of a reply, right and wrong, so that turns reuse,
rebuild, and reuse again.

`MoeForward`: four layers give a target predicted from its neighbour, from two
layers away, and from three (multistage); three positions against budgets of one
and two let a layer miss within, at and beyond its budget. `MaxSteps = 2`: the
second verify starts from what the first left in records and flags, and all
pools exist. `SideRegion` and `Staging` have fewer rows and banks than
submissions, so each is given back and taken again; two forwards let a
late callback meet the next one. `ResidentPool`: a capacity of two with a first
allocation of one makes it grow, evict and pin. `RuntimeBundle`: one shard
split and one layer across shards, two segments of different size, and a
process id that a second run may get again. `ChatThreads`: three tokens in
steps of two make a turn with a prefill token, a full and a partial step; a
second turn is the first to meet leftovers.

Experts, rows and GPU threads are symmetric sets in the safety runs of
`RealPool`, `RowLease` and `ResidentPool` (which never compare them); the runs
with a temporal property use no symmetry, except that `RealPoolService` checks
the refinement of a specification without fairness.

## Fairness

`RealPool!Fairness`: reader threads, handlers and the GPU run
until their step is done (weak fairness); steps that contend for `g_real_mutex`
or for the stream's queue of handlers while callbacks recur are strongly fair,
since the mutex and the queue serve every waiter eventually. Nothing forces a
prediction, a demand or a pin to start. `BgReader!Fairness`: workers run, a
demand that began submitting its batch submits all of it, and `stop()` joins.
`ChatSession!Fairness`: the worker thread of a turn runs; the user may never
write again, and nothing fails on purpose. `SideRegion` and `Staging`: reader
threads, callbacks and handlers that began go on, and so does the Python thread
in a call. `ChatThreads!Fairness`: the worker, each consumer and the event loop
of the UI (callbacks, the end of a render) run; the timer and the user need not.

## Deadlock

Checked in the runs of `RealPool`, `RowLease` and `ChatSession`. The other
systems really stop: `BgReader` when all jobs are done, `SideRegion` and
`Staging` after their last forward, `MoeForward` after its last verify step (or
when the code raises), `ResidentPool` at the first error, `RuntimeBundle` when
all runs ended, `ChatThreads` when the application was left or all turns ended.
Where somebody waits in them, a liveness property says that the wait ends.

## Proofs

Each theorem holds for every value of the constants that satisfies the named
assumption of its component (finite sets, positive bounds, markers outside
them); further hypotheses are stated in the theorem, and explained here. An
inductive invariant of a proof was checked by TLC on the component's instance
before it was proved.

### RealPoolProofs

* `TypeCorrect`: the type invariant.
* `RowsExclusive`: no row has two owners, for all constants,
  late callbacks and pins in flight included. `RowExclusive` is inductive once
  typing is known: rows move only from the free list or from an evicted expert.
* `NoRowIsLost`: no row leaks when pins find no read in flight (`~PinInFlight`)
  and late callbacks spare the route (`[][LateSparesRoute]_vars`); the latter is a
  theorem when callbacks run in stream order (`~LateCallbacks`) and an assumption on
  the behaviour in the shipped profile. The table above shows that both
  matter.
  `NoRowLost` alone is not inductive: a state in which an expert has both a
  published and a reserved row loses one of them at the next publication.
  `OneRowInv` adds that this never happens, and why: while the callback or an
  allocation runs, the experts it is going to place have no row.
* `QuotaKept`: published and reserved speculative rows never
  exceed the quota, from typing and exclusivity.
* `LeasedRowsSafe`: no read, of a prediction or of a demand,
  writes a row the GPU holds a lease on, for late callbacks and pins in flight
  too. `LeaseInv` adds that a row under a read is reserved or awaited by the
  demand that submitted the read, and that neither these rows nor free ones are
  leased.
* `PinnedRowsStay`: a resident pinned expert keeps its row unless
  a read already in flight for it is published (an action property).
* `PreflightIsEnough`: a demand that passes the preflight always finds the rows
  it needs, so the allocation loop of `demand_core_locked` never runs dry. Beside
  these two hypotheses it needs `Roomy`: a route, the pins, the speculative quota
  and, in a last layer, the leases its asynchronous demand leaves to a later
  synchronous one (`LeftOver`) fit into the pool together. The preflight counts
  neither reserved nor leased rows, so this is what the code relies on
  (`SpecLimit = 3` and `LastLayer = TRUE` above break it). In the shipped pool of
  152 rows with a quota of 32 it holds for the routes of a decode step (40 + 40 + 32
  with leases left, without pins), but not for the union of a long prompt. `RoomInv` counts: the rows that are neither the route's, pinned nor
  reserved are at least as many as the experts still to place.
* `DemandIsServed`: `RealPool` implements `DemandService`. The initial state is
  the service's; every step is a step of the service or leaves what it sees
  unchanged; when the kernel reads, each routed expert has a row of its own with
  its own bytes, and a route is refused only for want of capacity. Beside the
  hypotheses of `PreflightIsEnough`, no allocation of the core may evict an expert
  that the wait rescued (`AllocSparesRescued`). `BytesInv`
  (a resident, unwritten row holds its expert's bytes), `PlacedInv` (what a
  demand has placed so far stays placed while it goes on), `EntryInv` (hits of
  the remap stay leased until they are served) and `DemandInv` are needed
  together, since what is served was decided several steps earlier. `SoleWriter`
  is the reason no row is ever torn: at most one read is under way per row.
  `AllocSparesRescued` matters in asynchronous mode only: experts
  rescued by `real_prefetch_wait_pending` are not protected while the
  core allocates, and may be evicted for others of the same route if the free rows
  run out during warm-up (6 experts, 5 rows, routes of 4, quota 1 satisfy
  `Roomy` and fail; the run `RealPoolRescued` has the smaller case).
  `RescueRoom` says that free rows remain while promotion can still happen, and
  the theorem then needs no condition on allocations: `RescueInv` shows that every
  step meets it. For synchronous demands it holds vacuously. The shipped pool does
  not satisfy it (152 rows are promoted until 129 are resident; 128, 31 more
  reservations and a route of more than one expert do not fit), so there nothing
  guarantees that a rescued expert keeps its row.

### NativeThreadsProofs

* `LeaseTypes`, `LeaseSafe`, `LeasesBalance`, `TableSafe`: the
  lease protocol for any number of experts, rows and threads. The inductive
  invariant `LeaseTypeOK /\ LeaseInv` says that the count of a row is the number of
  threads holding it, that the two tables differ only while a victim is
  unmapped, and that a thread that confirmed its row finds it still owned by
  its expert: at the recheck a lease count of zero excludes such a thread.
  The theorems are about `LeaseSpec`, not `RelaxedSpec`.
* `PredictionsKeepToTheirShare`, `NobodySleepsOverWork`, `StopLosesNothing`, with
  `TypeCorrect`, about `BgReader`, for any number of workers, jobs and restarts. `IInv`
  relates the counters to the workers (`active_low` is the number of workers in a
  low job), the jobs sent to the queues, the workers and the finished ones, and
  states for each queue that a worker that could run its head is on its way to
  the lock or has a signal coming. The drain follows: a worker leaves its
  loop only when the queues it may serve are empty, and the last to leave may
  serve both.

### LoopProofs

The actions of these two modules run whole loops: over the tensors of a shard, over
the experts of a route. A loop is a fold. The induction theorems of the library cannot
be instantiated here, so the proofs take another way, stated once in the first part: a
fold over a list is a recursion over the sets of its positions (`IterExists`), and what
it computes after `i` steps is shown by taking a least counterexample in a set of
numbers (`LeastElement`, `Induction`). `Unroll` gives the list of the states a loop goes
through; every later lemma about a loop starts from it.

* `OutputsAreWhole`, `RemovedIsHeld`: for any number of runs that share the sources,
  shards, experts and layers, any sizes of segments and any kills. `BundleInv` follows a
  run through its phases: while it reads shards, the core tensors and the expert
  tensors of those it has read are in its directory (`Filling`), and a tensor in a blob
  has its bytes at `e * stride + offset` for every expert (`Written`, which later tensors
  do not disturb because the segments of a record do not overlap: `Ends`, `Disjoint`,
  `Inside`); from the end of the loop on all are there (`Full`), since the run compared
  what it saw with what it must see. `Alone` says that no two live runs share a
  process id, so none writes into another's directory; `AllWhole` and `RemovedKept` that a
  final name, once taken, is never written again, and that a file is removed only by
  a run whose bundle has it in its marker. `MtpSlices` and `BlobSlices` compute
  where the readers look. Hypothesis `NothingIsNoBundle`: the marker for a missing
  directory is not a bundle.
* `PoolLookups`, `PoolRaises`: for any number of experts, rows, pins and readers, with either
  policy, whatever prefetches do. `Book` ties the order list, the slot book, the free
  list and the lookup table together; `Right` says whose rows are written. In the middle of a
  placement the experts of the route that were seated have rows without bytes yet, so the loop
  carries a set of exceptions, which the write at its end empties. That an allocation fails only when
  route and pins exceed the cap is a counting argument (`Over`, `TooMany`): every row then
  belongs to a protected expert, rows are not shared, and one expert of the route has none. In
  the dual mode the rows belong to the C++ ledger (`Ledger`), and Python's books stay
  empty. The invariant was also checked past the first ValueError, where only
  `Right` is given up. Hypothesis `OneAllocator`: no prompt of the dual mode goes through `acquire_host`;
  when one does, Python and C++ hand out the same rows (`HostPath = TRUE` above).

### SideRegionProofs

* `BooksBalance`: each row is free, reserved, pending or published, and one of
  these only; under `ResetsDrain`, that the environment resets a layer only after
  its reads have ended (`WithReset` above breaks it). The invariant adds
  who may still give a row back: a reservation has exactly one live record, and a
  job that is to free or publish a row still owns it.
* `ServedRowsAreRight`: a demand is served its own experts' bytes, under
  `ResetsDrain` and `LeasesOrOrder` (row leases are on, or callbacks run in
  stream order; with neither, a late callback may hand a row out between
  the lookup and the kernel). `ServedBytes` needs the bytes of
  published rows, of rows being read, and that a row looked up by a
  demand is not taken while it is in use.

### StagingProofs

* `FillsKeepTheirBank`, `CopiesAreRight`, `RecordsAreFreed`: for any ring, any
  submissions and any sequence of demand kinds. A fill that has not ended owns
  its bank, by way of the submission's generation; records and readers are counted against one
  another, so that the last of the demand and the readers frees them;
  and what the reaper has scanned, taken and copied refers to banks that are still
  of the generation found.
* `BanksComeBack`: no bank stays reserved for a prediction whose demand has
  passed. Here the order of forwards matters: under `ConsistentPaths`, that no
  asynchronous forward follows a host or promoting one (`HostThenAsync` above
  breaks it).

### ChatThreadsProofs

* `TurnsArePublished`: for any number of turns and tokens,
  every id of a turn was given to `on_text` when `close` returns; the lost wakeup
  of the table above delays text and loses none. `PubInv` is needed because the
  property speaks of one state of the worker: it says that a consumer leaves only
  once its publisher is closing, that from then on `ids` cannot grow (the worker
  is past its last `submit`), and that a consumer's target, decoded and published
  counts follow one another, so that one that left has published everything.
* `FramesAreOwn`: no frame is of another turn, because `PubInv`
  also says that the consumers of earlier turns have left.
* `CutsAreReported`: a turn that was cut short is reported as interrupted, and
  only if the user interrupted it. `CutInv` follows the flag and the token count
  through the worker's steps and the callbacks that end the turn.

### ChatSessionProofs

* `TurnsAreGreedy`: `ChatSession` implements `Greedy`. A turn is an `Ask`, an
  emission is a `Report` of the tokens that fit, the end of a turn is an `End`,
  and drafts, verifies, replays, rescues and commits are invisible. It holds for any
  model (`Argmax`), any number of layers, any choice of recurrent and progressive
  ones, any drafts, caps and prompts.
* `CacheIsWhatWasAccepted`, `HeadIsAligned`, `ReuseIsExact`, `StepsNeverRaise`:
  the caches of both models when the loop comes round, the cache kept between turns, and
  the two places where `mtp_generate` would raise.

`StepsNeverRaise` has no hypothesis: it excludes, in its conclusion, the one combination of
flags that does raise (`MixedSnapshot`: optimistic verify that takes the shallow snapshot,
which a sparse miss would unpack as a deep one), and holds for any model, any miss that
nobody noticed and any turn that failed. Its invariant, `RaiseInv`, is about the kind of the snapshot and
the lengths of lists only: what a mode restores is of the kind the mode took.

None of the others is inductive: a commit is right because of what the verify put into
the caches, the verify because of where the last commit left them. `IInv` follows one
step. `Base` is what all layers held when it began; `SnapInv` says that the
snapshot is of the kind the mode takes and holds `Base`; `MissedInv` says of a
forward that missed that layers up to the first that missed are exact, with their
checkpoints, and that no layer lost `Base` (what the shallow rollback and the suffix
replay rely on); `VerifiedInv` says that caches, logits and checkpoints are of the
chain, by whatever way it was reached; `EmitInv` that the accepted tokens are those
emitted, shifted by the pending one; `LoopInv` closes the circle, also at the cap,
where the caches may lead what was reported.

The four others have three hypotheses. `ArgmaxIsToken`: the model answers a context with a token.
`~FailReused`: no turn on a reused cache raises from outside (the first violation
in the table above). `SparseIsReplayed`: a sparse miss budget under asynchronous demand is set only with a
batch verify, without trees, rescue or optimistic verify, and with patched
recurrent layers; these are the modes in which somebody reads the overflow flags
and can go back. TLC finds `CacheHoldsAccepted` violated, or with optimistic verify
`NeverRaises`, when any one of these conditions is dropped.

`SpecDecodeAssumption` says that `Bad`, the marker of an inexact token or context,
is neither a token nor a sequence of tokens.

### MoeForwardProofs

For any number of layers and positions, any `Ahead` and any set of switches that
meets the hypotheses.

* `KeptIsExact`: what the decoder keeps is exact, and every cache was fed each
  kept token once.
* `FlagsAreConsumed`: no flag survives into the next step, where it would start the
  replay of a forward it does not belong to.
* `PredictionsAreSubmittedOnce`: when a full forward over pools that exist is done, each
  wanted prediction has been submitted exactly once, with ids the host knows or on the next demand, and
  no progressive record raises.
* `RouteIsGrouped`: for every route and any `GroupCap` and `GroupMax`, an expert-major
  prefill takes each assignment once, and each finds its expert in its group's bank.

The first two share `IInv`, which follows how far a forward is exact. `ServedExact`
shows that a block returns an exact result unless it raises a flag, for every way to
compute of `FromFinal`; `FlagsAreRead` that only a verify that will be run again
raises one. Caches and captured inputs are exact up to the first flagged layer
(`Clean`), and a suffix replay starts there or before, so it rebuilds all that the
verify spoiled (`InputInv`, `FedInv`). Attention moved ahead feeds the cache its
own layer would have fed: `Reached` counts a moved layer as passed, and `Passes`
gives the length of every cache in the middle of a forward.

The third has its own invariant. `PredictionInv` says, as a predicate of the layer the
forward is in (`IsSent`), which triples of target, source and block have been
submitted. A generation ends with the last layer, so the next forward begins a new
one, and no record of an older generation is found again.

`RouteIsGrouped` compares two loops that know nothing of each other: groups count
assignments, and slices cut the order by expert at the sums of those counts. In that
order the assignments of the k-th expert end at a mark, the number of assignments to
it and the experts before it (`Marked`, `MarksGrow`, `SortedPlaces`). As experts are
joined one by one, a group always ends at a mark and holds the experts whose stretch
it covers (`Grouped`, `JoinGroups`, `GroupsEndAtMarks`); a slice then runs from mark to
mark. The experts' order is shown from their ranks (`AscendingFacts`), the loops as in
`LoopProofs` (`Unroll`). It is what makes a prefill layer exact in `KeptIsExact`.

Hypotheses. TLC finds the departures named in brackets when one is dropped; the
switches of the passing run satisfy them all.

* `ReplaysExactly` (first two): GPU-only demands come with optimistic verification,
  and a demand may exceed its miss budget only in a batch verify that commits, without
  local correction, and with no progressive layer but 0 if it is optimistic as well
  (`MCLossy`).
* `FusedRides` (third): with asynchronous demands a fused prediction rides on one that
  is made once and has no budget (`MCDropped`).
* `OneSource` (third): multistage predictions do not give a progressive target a second
  source (`MCTwice`).

### Only model-checked

Liveness (which the proof system does not cover): `DemandAnswered`,
`JobsFinish`, `WaitEnds`, `TurnEnds`. `RouteRowsDistinct`, which is violated.
Every other property of the runs is a theorem.

## Not modelled

* Kernels, attention, quantised caches, the MTP head and the scores of
  predictors: tensor arithmetic. What they choose (routes, ids, drafts, misses)
  is a free choice, so the results hold for any of them.
* Victim policies in C++ (LFU order, decay, admission guard, cooldown): a free
  choice among the rows the code may take; the quality of the choice is not a
  matter of correctness.
* Configuration and model builder: environment variables and assembly. Which
  combinations of switches are checked is said per module.
* Partial projections, benchmarks, tracing and profiling.

## Plan

1. Done: the modules above, their runs, and the proofs.
2. Composition: `MoeForward` over `RealPool` instead of its assumption on the
   two mappings, and `Staging` with the handler's admission of staged rows.
3. The rest of the code's operations: partial projections of the unified pool,
   the temporary fetch of the Python pool, the online predictor's submission.
