----------------------------- MODULE SideRegion -----------------------------
(***************************************************************************)
(* The isolated side region of one target layer (pool/side_region.cpp):    *)
(* predictions of an earlier layer reserve rows in the tail of the pool,   *)
(* reader threads fill and publish them, and the target's demand looks its *)
(* route up, waits for reads it can still use and leases the rows the MoE  *)
(* kernel is about to read.                                                *)
(*                                                                         *)
(* Each forward f submits an early prediction <<f, "early">> and may       *)
(* submit a refinement <<f, "tail">>.  LFU scores are abstracted: a victim *)
(* is any row the code may evict.  The real region is a set of experts.    *)
(***************************************************************************)
EXTENDS Integers, Sequences, FiniteSets

CONSTANTS
    Experts,    \* expert ids of the layer
    Rows,       \* physical rows [base, base + spec) of the region
    NF,         \* forwards modelled
    Routes,     \* the sets of experts a demand may route to
    EarlyIds,   \* by forward, the score-ordered ids an early prediction may hold
    TailIds,    \* the same for a refinement ({}: none is submitted)
    ReadBudget, \* PREFETCH_PHYSICAL_READ_BUDGET, 0 for unlimited
    Modes,      \* the combinations of environment switches considered
    None, Real  \* "no row", and "a row of the real region"

ASSUME SideAssumption ==
    /\ NF \in Nat \ {0}
    /\ ReadBudget \in Nat
    /\ Routes \subseteq SUBSET Experts
    /\ \A f \in 1 .. NF : EarlyIds[f] \cup TailIds[f] \subseteq Seq(Experts) \ {<<>>}
    /\ Modes \subseteq [leases : BOOLEAN,  \* SIDEREGION_ROW_LEASES
                        late   : BOOLEAN,  \* callbacks may run after their target's demand
                        cancel : BOOLEAN,  \* PREFETCH_CANCEL_STALE_QUEUED
                        jobs   : {"batch", "rows", "first"}, \* how early reads are split
                        wait   : {"none", "pending", "refinement"}, \* what a missing demand joins
                        tail   : {1, 2},   \* priority of a refinement
                        reset  : BOOLEAN]  \* sideregion_reset with reads in flight
    /\ None \notin Rows /\ Real \notin Rows /\ None # Real

Forwards == 1 .. NF
Subs == Forwards \X {"early", "tail"}

VARIABLES
    mode,       \* the switches of this process
    e2r,        \* published rows: expert -> row
    pending,    \* reserved rows whose bytes are still being read
    free,       \* how often each row stands in free_rows
    inited,     \* the books of the layer exist
    table,      \* the device table the GPU remap reads
    lease,      \* leases of a row, host and device counts together
    bytes,      \* whose bytes a row holds (None: unknown or half written)
    sub,        \* life of each submission
    ids,        \* the ids a submission carries and its snapshot of the real region
    jobs,       \* reader jobs of each submission that have not finished
    inflight,   \* g_side_inflight
    target,     \* g_side_target_inflight, by forward
    refined,    \* g_side_refinement_ready, by forward
    consumed,   \* g_target_consumed_forward: forwards whose demand has started
    resv,       \* the reservation that holds g_side_mutex, or None
    demand,     \* the demand of the current forward
    real        \* experts resident in the real region

books == <<e2r, pending, free, inited, table>>
acct  == <<inflight, target, refined>>
vars  == <<mode, books, lease, bytes, sub, ids, jobs, acct, consumed, resv, demand, real>>

NoMap == [e \in Experts |-> None]

Init ==
    /\ mode \in Modes
    /\ e2r = NoMap /\ pending = NoMap /\ table = NoMap
    /\ free = [r \in Rows |-> 0] /\ inited = FALSE
    /\ lease = [r \in Rows |-> 0]
    /\ bytes = [r \in Rows |-> None]
    /\ sub = [s \in Subs |-> "idle"]
    /\ ids = [s \in Subs |-> [seq |-> <<>>, resident |-> {}]]
    /\ jobs = [s \in Subs |-> {}]
    /\ inflight = 0
    /\ target = [f \in Forwards |-> 0]
    /\ refined = [f \in Forwards |-> FALSE]
    /\ consumed = 0
    /\ resv = None
    /\ demand = [fwd |-> 1, st |-> "open", local |-> NoMap, route |-> {}]
    /\ real = {}

LockFree == resv = None
Priority(s) == IF s[2] = "early" THEN 0 ELSE mode.tail
-----------------------------------------------------------------------------
(* Submission and completion callback.                                     *)

\* eval_gpu: the submission is counted before its command buffer has run.
Submit(s, seq) ==
    /\ demand.st = "open" /\ s[1] = demand.fwd /\ sub[s] = "idle"
    /\ s[2] = "tail" => sub[<<s[1], "early">>] # "idle"
    /\ sub' = [sub EXCEPT ![s] = "submitted"]
    /\ ids' = [ids EXCEPT ![s] = [seq |-> seq, resident |-> real]]
    /\ inflight' = inflight + 1
    /\ target' = [target EXCEPT ![s[1]] = @ + 1]
    /\ UNCHANGED <<mode, books, lease, bytes, jobs, refined, consumed, resv, demand, real>>

\* (mutant) Leases are not looked at.
EvictableLeased(e) == e2r[e] # None

\* A row may be taken from its expert: unmapped first, no lease on it.
Evictable(e) == e2r[e] # None /\ lease[e2r[e]] = 0

\* The completion handler enters reserve(): the books are created on first
\* use and complete duplicates of the source's resident experts are reclaimed.
ReserveBegin(s) ==
    /\ sub[s] = "submitted" /\ LockFree
    /\ LET first == [r \in Rows |-> IF inited THEN free[r] ELSE free[r] + 1]
           dup   == {e \in ids[s].resident : Evictable(e)}
       IN  /\ free'  = [r \in Rows |-> first[r] + Cardinality({e \in dup : e2r[e] = r})]
           /\ e2r'   = [e \in Experts |-> IF e \in dup THEN None ELSE e2r[e]]
           /\ table' = [e \in Experts |-> IF e \in dup THEN None ELSE table[e]]
    /\ inited' = TRUE
    /\ resv' = [sub |-> s, reads |-> <<>>, todo |-> ids[s].seq]
    /\ UNCHANGED <<mode, pending, lease, bytes, sub, ids, jobs, acct, consumed, demand, real>>

BudgetLeft == ReadBudget = 0 \/ Priority(resv.sub) >= 2 \/ Len(resv.reads) < ReadBudget

\* The candidates: what the source found resident is left out.
Wanted(s) == {ids[s].seq[i] : i \in DOMAIN ids[s].seq} \ ids[s].resident

\* Rows the loop may hand to the next candidate: a free one if there is any,
\* else the row of a victim outside this submission's ids.
Victims == {e \in Experts \ Wanted(resv.sub) : Evictable(e)}
FreeRows == {r \in Rows : free[r] > 0}

Take(e, r) ==
    /\ pending' = [pending EXCEPT ![e] = r]
    /\ resv' = [resv EXCEPT !.todo = Tail(@), !.reads = Append(@, <<e, r>>)]

ReserveRow ==
    /\ resv # None /\ resv.todo # <<>> /\ BudgetLeft
    /\ LET e == Head(resv.todo) IN
       /\ e \in Wanted(resv.sub) /\ e2r[e] = None /\ pending[e] = None
       /\ \/ \E r \in FreeRows :
                /\ Take(e, r)
                /\ free' = [free EXCEPT ![r] = @ - 1]
                /\ UNCHANGED <<e2r, table>>
          \/ /\ FreeRows = {}
             /\ \E v \in Victims :
                /\ Take(e, e2r[v])
                /\ e2r' = [e2r EXCEPT ![v] = None]
                /\ table' = [table EXCEPT ![v] = None]
             /\ UNCHANGED free
    /\ UNCHANGED <<mode, inited, lease, bytes, sub, ids, jobs, acct, consumed, demand, real>>

\* No candidate, published or pending already, or no row to be had.
ReserveSkip ==
    /\ resv # None /\ resv.todo # <<>> /\ BudgetLeft
    /\ LET e == Head(resv.todo) IN
       \/ e \notin Wanted(resv.sub) \/ e2r[e] # None \/ pending[e] # None
       \/ FreeRows = {} /\ Victims = {}
    /\ resv' = [resv EXCEPT !.todo = Tail(@)]
    /\ UNCHANGED <<mode, books, lease, bytes, sub, ids, jobs, acct, consumed, demand, real>>

Job(reads) == [first |-> Head(reads), todo |-> reads, writing |-> FALSE, fresh |-> TRUE]

\* One job for the batch, one per row, or the first row apart from the rest.
JobsOf(s, reads) ==
    IF reads = <<>> THEN {}
    ELSE IF Priority(s) >= 2 \/ (mode.jobs = "rows" /\ Priority(s) = 0)
         THEN {Job(<<reads[i]>>) : i \in DOMAIN reads}
    ELSE IF mode.jobs = "first" /\ Priority(s) = 0
         THEN {Job(<<Head(reads)>>)} \cup {Job(t) : t \in {Tail(reads)} \ {<<>>}}
    ELSE {Job(reads)}

\* side_inflight_done and side_ready_signal: the submission is accounted for.
Account(s) ==
    /\ sub' = [sub EXCEPT ![s] = "done"]
    /\ inflight' = inflight - 1
    /\ target' = [target EXCEPT ![s[1]] = @ - 1]

\* (mutant) A refinement with nothing to read does not report itself.
ReserveEndSilent ==
    /\ resv # None /\ (resv.todo = <<>> \/ ~BudgetLeft)
    /\ LET s == resv.sub IN
       /\ refined' = [refined EXCEPT ![s[1]] = @ \/ (Priority(s) > 0 /\ resv.reads # <<>>)]
       /\ jobs' = [jobs EXCEPT ![s] = JobsOf(s, resv.reads)]
       /\ IF resv.reads = <<>>
             THEN Account(s)
             ELSE sub' = [sub EXCEPT ![s] = "reading"] /\ UNCHANGED <<inflight, target>>
    /\ resv' = None
    /\ UNCHANGED <<mode, books, lease, bytes, ids, consumed, demand, real>>

\* The rest of the callback, after the lock was released.
ReserveEnd ==
    /\ resv # None /\ (resv.todo = <<>> \/ ~BudgetLeft)
    /\ LET s == resv.sub IN
       /\ refined' = [refined EXCEPT ![s[1]] = @ \/ Priority(s) > 0]
       /\ jobs' = [jobs EXCEPT ![s] = JobsOf(s, resv.reads)]
       /\ IF resv.reads = <<>>
             THEN Account(s)
             ELSE sub' = [sub EXCEPT ![s] = "reading"] /\ UNCHANGED <<inflight, target>>
    /\ resv' = None
    /\ UNCHANGED <<mode, books, lease, bytes, ids, consumed, demand, real>>
-----------------------------------------------------------------------------
(* Reader threads: read_publish.                                           *)

Stale(s) == mode.cancel /\ s[1] <= consumed

Owned(p) == pending[p[1]] = p[2]
Placements(j) == {j.todo[i] : i \in DOMAIN j.todo}

\* Drop the reservations in D that are still owned; push the rows of F.
GiveBack(D, F) ==
    /\ pending' = [e \in Experts |-> IF \E p \in D : p[1] = e /\ Owned(p) THEN None ELSE pending[e]]
    /\ free' = [r \in Rows |-> free[r] + Cardinality({p \in F : p[2] = r})]

SetJob(s, j, k) == jobs' = [jobs EXCEPT ![s] = (@ \ {j}) \cup {k}]
Stop(j) == [j EXCEPT !.todo = <<>>, !.writing = FALSE, !.fresh = FALSE]
Step(j) == [j EXCEPT !.todo = Tail(@), !.writing = FALSE]

\* The target's demand has started: untouched reservations are released.
Cancel(s, j) ==
    /\ j.todo # <<>> /\ ~j.writing /\ Stale(s) /\ LockFree
    /\ GiveBack(Placements(j), {p \in Placements(j) : Owned(p)})
    /\ SetJob(s, j, Stop(j))
    /\ UNCHANGED <<mode, e2r, inited, table, lease, bytes, sub, ids, acct, consumed, resv, demand, real>>

\* open() fails: every row goes back, owned or not.
OpenFails(s, j) ==
    /\ j.fresh /\ j.todo # <<>> /\ ~Stale(s) /\ LockFree
    /\ GiveBack(Placements(j), Placements(j))
    /\ SetJob(s, j, Stop(j))
    /\ UNCHANGED <<mode, e2r, inited, table, lease, bytes, sub, ids, acct, consumed, resv, demand, real>>

\* preadv into the final row; no lock is held.
WriteBegin(s, j) ==
    /\ j.todo # <<>> /\ ~j.writing /\ ~Stale(s)
    /\ bytes' = [bytes EXCEPT ![Head(j.todo)[2]] = None]
    /\ SetJob(s, j, [j EXCEPT !.writing = TRUE, !.fresh = FALSE])
    /\ UNCHANGED <<mode, books, lease, sub, ids, acct, consumed, resv, demand, real>>

\* Complete: published if the reservation still stands, else the row is free.
WriteEnd(s, j) ==
    /\ j.writing /\ LockFree
    /\ LET p == Head(j.todo) IN
       /\ bytes' = [bytes EXCEPT ![p[2]] = p[1]]
       /\ IF Owned(p)
             THEN /\ GiveBack({p}, {})
                  /\ e2r' = [e2r EXCEPT ![p[1]] = p[2]]
                  /\ table' = [table EXCEPT ![p[1]] = p[2]]
             ELSE GiveBack({}, {p}) /\ UNCHANGED <<e2r, table>>
    /\ SetJob(s, j, Step(j))
    /\ UNCHANGED <<mode, inited, lease, sub, ids, acct, consumed, resv, demand, real>>

\* (mutant) The row goes back but its reservation stays.
ShortReadKeepsPending(s, j) ==
    /\ j.writing /\ LockFree
    /\ GiveBack({}, {Head(j.todo)})
    /\ SetJob(s, j, Step(j))
    /\ UNCHANGED <<mode, e2r, inited, table, lease, bytes, sub, ids, acct, consumed, resv, demand, real>>

\* Short read: the row goes back, owned or not.
ShortRead(s, j) ==
    /\ j.writing /\ LockFree
    /\ GiveBack({Head(j.todo)}, {Head(j.todo)})
    /\ SetJob(s, j, Step(j))
    /\ UNCHANGED <<mode, e2r, inited, table, lease, bytes, sub, ids, acct, consumed, resv, demand, real>>

\* The job returns; the last one of its submission settles the account.
JobEnd(s, j) ==
    /\ j.todo = <<>>
    /\ jobs' = [jobs EXCEPT ![s] = @ \ {j}]
    /\ IF jobs'[s] = {} THEN Account(s) ELSE UNCHANGED <<sub, inflight, target>>
    /\ UNCHANGED <<mode, books, lease, bytes, ids, refined, consumed, resv, demand, real>>
-----------------------------------------------------------------------------
(* The target's demand.                                                    *)

Submitted(f, k) == sub[<<f, k>>] # "idle"

\* demand_gpu_remap: side row, else real row; a side hit takes its lease.
\* A refinement of priority 2 is a data dependency of the remap (its ready
\* event); in stream order the callbacks of this target have run.
Remap(R) ==
    /\ demand.st = "open" /\ Submitted(demand.fwd, "early")
    /\ ~mode.late => \A s \in Subs : s[1] = demand.fwd => sub[s] # "submitted" /\ resv = None
    /\ (mode.tail = 2 /\ Submitted(demand.fwd, "tail")) => sub[<<demand.fwd, "tail">>] = "done"
    /\ demand' = [demand EXCEPT !.st = "remapped", !.route = R,
                    !.local = [e \in Experts |-> IF e \notin R THEN None
                                                 ELSE IF table[e] # None THEN table[e]
                                                 ELSE IF e \in real THEN Real ELSE None]]
    /\ lease' = [r \in Rows |-> lease[r] + IF mode.leases /\ \E e \in R : table[e] = r
                                           THEN 1 ELSE 0]
    /\ UNCHANGED <<mode, books, bytes, sub, ids, jobs, acct, consumed, resv, real>>

Missing == {e \in demand.route : demand.local[e] = None}

\* The completion handler: the target counts as consumed from here on.
HandlerStart ==
    /\ demand.st = "remapped"
    /\ consumed' = demand.fwd
    /\ demand' = [demand EXCEPT !.st = IF Missing = {} THEN "settled"
                                       ELSE IF mode.wait = "none" THEN "joined" ELSE "waiting"]
    /\ UNCHANGED <<mode, books, lease, bytes, sub, ids, jobs, acct, resv, real>>

\* wait_for_refinement: a refinement was submitted and demand waits are on.
Waitable == mode.wait = "refinement" /\ Submitted(demand.fwd, "tail")

\* sideregion_wait_expert_values / sideregion_wait_pending_values.
Join ==
    /\ demand.st = "waiting" /\ LockFree
    /\ Waitable => refined[demand.fwd]
    /\ \A e \in demand.route : pending[e] = None
    /\ refined' = [refined EXCEPT ![demand.fwd] = @ /\ ~Waitable]
    /\ demand' = [demand EXCEPT !.st = "joined"]
    /\ UNCHANGED <<mode, books, lease, bytes, sub, ids, jobs, inflight, target, consumed, resv, real>>

\* sideregion_lookup_values: a published row replaces the entry row and is
\* leased; an expert with neither is loaded into the real region.
Lookup ==
    /\ demand.st = "joined" /\ LockFree
    /\ lease' = [r \in Rows |-> lease[r] + IF mode.leases /\ \E e \in demand.route : e2r[e] = r
                                           THEN 1 ELSE 0]
    /\ LET row == [e \in Experts |-> IF e \in demand.route /\ e2r[e] # None
                                     THEN e2r[e] ELSE demand.local[e]]
           miss == {e \in demand.route : row[e] = None}
       IN  /\ demand' = [demand EXCEPT !.st = "settled",
                           !.local = [e \in Experts |-> IF e \in miss THEN Real ELSE row[e]]]
           /\ \E gone \in SUBSET (real \ demand.route) :
                 /\ miss = {} => gone = {}
                 /\ real' = (real \ gone) \cup miss
    /\ UNCHANGED <<mode, books, bytes, sub, ids, jobs, acct, consumed, resv>>

Held(r) == \E e \in demand.route : demand.local[e] = r

\* sideregion_acquire_row_leases, then the event that lets the MoE run.
Answer ==
    /\ demand.st = "settled" /\ LockFree
    /\ lease' = [r \in Rows |-> lease[r] + IF mode.leases /\ Held(r) THEN 1 ELSE 0]
    /\ demand' = [demand EXCEPT !.st = "serving"]
    /\ UNCHANGED <<mode, books, bytes, sub, ids, jobs, acct, consumed, resv, real>>

\* The MoE has read its rows; the next layer's handler drops their leases.
Retire ==
    /\ demand.st = "serving" /\ LockFree
    /\ lease' = [r \in Rows |-> 0]
    /\ IF demand.fwd < NF
          THEN demand' = [fwd |-> demand.fwd + 1, st |-> "open", local |-> NoMap, route |-> {}]
          ELSE demand' = [demand EXCEPT !.st = "over", !.local = NoMap, !.route = {}]
    /\ UNCHANGED <<mode, books, bytes, sub, ids, jobs, acct, consumed, resv, real>>

\* sideregion_reset between forwards, after a drain unless mode.reset.
Reset ==
    /\ demand.st = "open" /\ ~Submitted(demand.fwd, "early") /\ inited /\ LockFree
    /\ mode.reset \/ inflight = 0
    /\ e2r' = NoMap /\ pending' = NoMap /\ table' = NoMap
    /\ free' = [r \in Rows |-> 0] /\ inited' = FALSE
    /\ lease' = [r \in Rows |-> 0]
    /\ UNCHANGED <<mode, bytes, sub, ids, jobs, acct, consumed, resv, demand, real>>

CallbackStep == (\E s \in Subs : ReserveBegin(s)) \/ ReserveRow \/ ReserveSkip \/ ReserveEnd
ReaderStep ==
    \E s \in Subs : \E j \in jobs[s] :
        Cancel(s, j) \/ OpenFails(s, j) \/ WriteBegin(s, j) \/ WriteEnd(s, j)
        \/ ShortRead(s, j) \/ JobEnd(s, j)
HandlerStep == HandlerStart \/ Join \/ Lookup \/ Answer

Next ==
    \/ \E f \in Forwards :
          \/ \E seq \in EarlyIds[f] : Submit(<<f, "early">>, seq)
          \/ \E seq \in TailIds[f] : Submit(<<f, "tail">>, seq)
    \/ CallbackStep \/ ReaderStep \/ HandlerStep
    \/ \E R \in Routes : Remap(R)
    \/ Retire \/ Reset

\* Metal runs completion handlers, reader threads run their jobs, and a
\* handler whose wait is over continues: each is a thread of its own.
Fairness ==
    /\ WF_vars(CallbackStep)
    /\ \A s \in Subs : WF_vars(\E j \in jobs[s] :
            Cancel(s, j) \/ OpenFails(s, j) \/ WriteBegin(s, j) \/ WriteEnd(s, j)
            \/ ShortRead(s, j) \/ JobEnd(s, j))
    /\ WF_vars(HandlerStep)

Spec == Init /\ [][Next]_vars /\ Fairness
-----------------------------------------------------------------------------
(* Properties.                                                             *)

TypeOK ==
    /\ mode \in Modes
    /\ {e2r, pending, table} \subseteq [Experts -> Rows \cup {None}]
    /\ free \in [Rows -> Nat] /\ inited \in BOOLEAN
    /\ lease \in [Rows -> Nat]
    /\ bytes \in [Rows -> Experts \cup {None}]
    /\ sub \in [Subs -> {"idle", "submitted", "reading", "done"}]
    /\ ids \in [Subs -> [seq : Seq(Experts), resident : SUBSET Experts]]
    /\ \A s \in Subs : \A j \in jobs[s] :
          j.todo \in Seq(Experts \X Rows) /\ j.writing \in BOOLEAN /\ j.fresh \in BOOLEAN
    /\ inflight \in Nat /\ target \in [Forwards -> Nat]
    /\ refined \in [Forwards -> BOOLEAN] /\ consumed \in 0 .. NF
    /\ real \in SUBSET Experts
    /\ demand \in [fwd : Forwards, route : SUBSET Experts,
                   st : {"open", "remapped", "waiting", "joined", "settled", "serving", "over"},
                   local : [Experts -> Rows \cup {None, Real}]]

\* What SIDE_AUDIT looks for, and leaks besides: once the books exist, every
\* row is published for one expert, reserved for one, or free once.
RowsPartitioned ==
    inited => \A r \in Rows :
        Cardinality({e \in Experts : e2r[e] = r}) + Cardinality({e \in Experts : pending[e] = r})
          + free[r] = 1

\* Half-written rows are never exposed and consumed rows are not rewritten:
\* while the MoE reads its rows, each holds the bytes of its expert.
ServedBytes ==
    demand.st = "serving" =>
        \A e \in demand.route :
            demand.local[e] = Real \/ (demand.local[e] # None /\ bytes[demand.local[e]] = e)

\* A demand that joins predictions in flight is always answered: whatever it
\* waits for is published, given back or never reserved.
DemandAnswered == demand.st = "remapped" ~> demand.st = "serving"

=============================================================================
