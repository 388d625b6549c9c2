------------------------------ MODULE BgReader ------------------------------
(***************************************************************************)
(* The background reader of native/ext/io/bg_reader.cpp: a pool of threads *)
(* behind two queues.  High jobs (demand reads, refinements) are taken     *)
(* first; low jobs (predictions) may occupy at most low_cap workers.  A    *)
(* job is a read with a ticket, which a demand waits for (wait_all), or a  *)
(* task, which a prediction callback submits and forgets.  A task that     *)
(* "yields" is a read_publish with PREFETCH_PREEMPT_FOR_DEMAND: after a    *)
(* row it waits on the worker's thread for the high jobs to drain.         *)
(*                                                                         *)
(* Abstractions.  What a job reads is left out (a short read counts as     *)
(* done, as in the code), and so are file descriptors.  Every job is       *)
(* submitted once: a finite burst, without which the low queue may starve. *)
(* Submitting notifies in the same step, since a notification between two  *)
(* critical sections only wakes workers that look and sleep again.         *)
(***************************************************************************)
EXTENDS Integers, Sequences, FiniteSets

CONSTANTS
    Workers,        \* thread identities
    StartWorkers,   \* bg_reader_start(workers, ...)
    LazyWorkers,    \* ensure_started(4) of submit and submit_task
    LowCap,         \* bg_reader_start(..., low_cap); <= 0 is no limit
    Clients,        \* demands
    Reads,          \* client -> the tickets of its batch (prio 1)
    HighTasks,      \* tasks submitted with prio > 0
    LowTasks,       \* tasks submitted with prio 0
    Yielding,       \* tasks that call bg_reader_wait_high_idle
    MaxStops,       \* bound: how often the reader is stopped
    NoJob

Tickets == UNION {Reads[c] : c \in Clients}
High == Tickets \cup HighTasks
Jobs == High \cup LowTasks

ASSUME PoolAssumption ==
    /\ IsFiniteSet(Workers) /\ MaxStops \in Nat /\ LowCap \in Int
    /\ StartWorkers \in 1..Cardinality(Workers)
    /\ LazyWorkers \in 1..Cardinality(Workers)

ASSUME JobsAssumption ==
    /\ Reads \in [Clients -> SUBSET Tickets]
    /\ \A c, d \in Clients : c # d => Reads[c] \cap Reads[d] = {}
    /\ High \cap LowTasks = {} /\ Tickets \cap HighTasks = {}
    /\ Yielding \subseteq HighTasks \cup LowTasks
    /\ NoJob \notin Jobs

VARIABLES
    \* --- guarded by m_ ---
    running, high_q, low_q, active_low, active_high, low_cap, worker_count,
    \* --- guarded by dm_ ---
    done,           \* tickets read and not yet collected
    \* --- threads ---
    wpc,            \* worker -> where it is in loop()
    job,            \* worker -> the job it took
    main,           \* the thread that starts and stops the reader
    served,         \* clients whose wait_all returned
    sent, finished, \* jobs submitted; jobs whose work is complete
    stops

locked == <<running, high_q, low_q, active_low, active_high, low_cap,
            worker_count>>
threads == <<wpc, job>>
users == <<main, served, sent, stops>>
vars == <<locked, done, threads, users, finished>>

TypeOK ==
    /\ running \in BOOLEAN
    /\ high_q \in Seq(High) /\ low_q \in Seq(LowTasks)
    /\ active_low \in Nat /\ active_high \in Nat
    /\ low_cap \in Int /\ worker_count \in Nat
    /\ done \in SUBSET Tickets
    /\ wpc \in [Workers -> {"off", "ready", "asleep", "run", "yield",
                            "yield asleep", "yield woken", "ran"}]
    /\ job \in [Workers -> Jobs \cup {NoJob}]
    /\ main \in {"new", "up", "stopping", "down"}
    /\ served \in SUBSET Clients
    /\ sent \in SUBSET Jobs /\ finished \in SUBSET Jobs
    /\ stops \in Nat

Init ==
    /\ running = FALSE /\ high_q = <<>> /\ low_q = <<>>
    /\ active_low = 0 /\ active_high = 0 /\ low_cap = 0 /\ worker_count = 0
    /\ done = {}
    /\ wpc = [w \in Workers |-> "off"] /\ job = [w \in Workers |-> NoJob]
    /\ main = "new" /\ served = {} /\ sent = {} /\ finished = {} /\ stops = 0

-----------------------------------------------------------------------------
\* cv_.notify_all, on the program counters p.
Notified(p) ==
    [w \in Workers |-> CASE p[w] = "asleep" -> "ready"
                         [] p[w] = "yield asleep" -> "yield woken"
                         [] OTHER -> p[w]]

\* ensure_started(n): n threads if none are running; then the notification
\* of the submission, if there is one.
EnsureStarted(n) ==
    IF running
    THEN /\ wpc' = Notified(wpc)
         /\ UNCHANGED <<running, worker_count>>
    ELSE /\ running' = TRUE /\ worker_count' = n
         /\ \E S \in SUBSET Workers :
              /\ Cardinality(S) = n
              /\ wpc' = [w \in Workers |-> IF w \in S THEN "ready" ELSE "off"]

\* start: ResidentPool's constructor, before any job.
Start ==
    /\ main = "new" /\ main' = "up"
    /\ low_cap' = LowCap
    /\ EnsureStarted(StartWorkers)
    /\ UNCHANGED <<high_q, low_q, active_low, active_high, done, job, served,
                   sent, stops, finished>>

\* submit and submit_task; after a stop they start the reader again.
Submit(j) ==
    /\ main \in {"up", "down"} /\ main' = "up"
    /\ j \in Jobs \ sent /\ sent' = sent \cup {j}
    /\ EnsureStarted(LazyWorkers)
    /\ IF j \in High
       THEN high_q' = Append(high_q, j) /\ UNCHANGED low_q
       ELSE low_q' = Append(low_q, j) /\ UNCHANGED high_q
    /\ UNCHANGED <<active_low, active_high, low_cap, done, job, served, stops,
                   finished>>

\* wait_all: collects the tickets of the batch when all are done.
WaitAll(c) ==
    /\ c \notin served /\ Reads[c] \subseteq sent
    /\ Reads[c] \subseteq done
    /\ done' = done \ Reads[c]
    /\ served' = served \cup {c}
    /\ UNCHANGED <<locked, threads, main, sent, stops, finished>>

-----------------------------------------------------------------------------
(* loop(): one worker.                                                     *)

\* (mutant) off by one.
CanTakeLowOneMore ==
    low_q # <<>> /\ (low_cap <= 0 \/ active_low <= low_cap)

CanTakeLow == low_q # <<>> /\ (low_cap <= 0 \/ active_low < low_cap)

TakeHigh(w) ==
    /\ wpc[w] = "ready" /\ high_q # <<>>
    /\ job' = [job EXCEPT ![w] = Head(high_q)]
    /\ high_q' = Tail(high_q)
    /\ active_high' = active_high + 1
    /\ wpc' = [wpc EXCEPT ![w] = "run"]
    /\ UNCHANGED <<running, low_q, active_low, low_cap, worker_count, done,
                   users, finished>>

TakeLow(w) ==
    /\ wpc[w] = "ready" /\ high_q = <<>> /\ CanTakeLow
    /\ job' = [job EXCEPT ![w] = Head(low_q)]
    /\ low_q' = Tail(low_q)
    /\ active_low' = active_low + 1
    /\ wpc' = [wpc EXCEPT ![w] = "run"]
    /\ UNCHANGED <<running, high_q, active_high, low_cap, worker_count, done,
                   users, finished>>

Sleep(w) ==
    /\ wpc[w] = "ready" /\ running /\ high_q = <<>> /\ ~CanTakeLow
    /\ wpc' = [wpc EXCEPT ![w] = "asleep"]
    /\ UNCHANGED <<locked, done, job, users, finished>>

\* (mutant) a stopped reader drops what is queued.
ExitAtOnce(w) ==
    /\ wpc[w] = "ready" /\ ~running
    /\ wpc' = [wpc EXCEPT ![w] = "off"]
    /\ UNCHANGED <<locked, done, job, users, finished>>

\* Stopped, and nothing this worker may take: low jobs over the cap are left
\* to the workers that are running one.
Exit(w) ==
    /\ wpc[w] = "ready" /\ ~running /\ high_q = <<>> /\ ~CanTakeLow
    /\ wpc' = [wpc EXCEPT ![w] = "off"]
    /\ UNCHANGED <<locked, done, job, users, finished>>

\* pread or preadv; the ticket is done however many bytes came.
Read(w) ==
    /\ wpc[w] = "run" /\ job[w] \in Tickets
    /\ finished' = finished \cup {job[w]}
    /\ done' = done \cup {job[w]}
    /\ wpc' = [wpc EXCEPT ![w] = "ran"]
    /\ UNCHANGED <<locked, job, users>>

Task(w) ==
    /\ wpc[w] = "run" /\ job[w] \notin Tickets \cup Yielding
    /\ finished' = finished \cup {job[w]}
    /\ wpc' = [wpc EXCEPT ![w] = "ran"]
    /\ UNCHANGED <<locked, done, job, users>>

\* read_publish has published a row and calls bg_reader_wait_high_idle ...
YieldingTask(w) ==
    /\ wpc[w] = "run" /\ job[w] \in Yielding
    /\ wpc' = [wpc EXCEPT ![w] = "yield"]
    /\ UNCHANGED <<locked, done, job, users, finished>>

\* ... which returns at once when the cap reserves no worker, and otherwise
\* when no high job is queued or running, or the reader stops.
NoReserve == low_cap <= 0 \/ low_cap >= worker_count
HighIdle == (high_q = <<>> /\ active_high = 0) \/ ~running

YieldReturn(w) ==
    /\ \/ wpc[w] = "yield" /\ (NoReserve \/ HighIdle)
       \/ wpc[w] = "yield woken" /\ HighIdle
    /\ finished' = finished \cup {job[w]}
    /\ wpc' = [wpc EXCEPT ![w] = "ran"]
    /\ UNCHANGED <<locked, done, job, users>>

YieldSleep(w) ==
    /\ \/ wpc[w] = "yield" /\ ~NoReserve
       \/ wpc[w] = "yield woken"
    /\ ~HighIdle
    /\ wpc' = [wpc EXCEPT ![w] = "yield asleep"]
    /\ UNCHANGED <<locked, done, job, users, finished>>

\* (mutant) the quota is given back without a notification.
ReleaseSilently(w) ==
    /\ wpc[w] = "ran"
    /\ IF job[w] \in High
       THEN active_high' = active_high - 1 /\ UNCHANGED active_low
       ELSE active_low' = active_low - 1 /\ UNCHANGED active_high
    /\ job' = [job EXCEPT ![w] = NoJob]
    /\ wpc' = [wpc EXCEPT ![w] = "ready"]
    /\ UNCHANGED <<running, high_q, low_q, low_cap, worker_count, done, users,
                   finished>>

\* The job's quota is given back and everybody notified.
Release(w) ==
    /\ wpc[w] = "ran"
    /\ IF job[w] \in High
       THEN active_high' = active_high - 1 /\ UNCHANGED active_low
       ELSE active_low' = active_low - 1 /\ UNCHANGED active_high
    /\ job' = [job EXCEPT ![w] = NoJob]
    /\ wpc' = Notified([wpc EXCEPT ![w] = "ready"])
    /\ UNCHANGED <<running, high_q, low_q, low_cap, worker_count, done, users,
                   finished>>

-----------------------------------------------------------------------------
(* stop(): the tests and the destructor call it when no demand is waiting  *)
(* and nothing is submitted until it returns.                              *)

NoneWaiting == \A c \in Clients : c \in served \/ Reads[c] \cap sent = {}

Stop ==
    /\ main = "up" /\ NoneWaiting /\ stops < MaxStops
    /\ main' = "stopping" /\ stops' = stops + 1
    /\ running' = FALSE
    /\ wpc' = Notified(wpc)
    /\ UNCHANGED <<high_q, low_q, active_low, active_high, low_cap,
                   worker_count, done, job, served, sent, finished>>

\* The threads are joined, uncollected tickets forgotten.
Joined ==
    /\ main = "stopping" /\ \A w \in Workers : wpc[w] = "off"
    /\ main' = "down"
    /\ done' = {} /\ active_low' = 0
    /\ UNCHANGED <<running, high_q, low_q, active_high, low_cap, worker_count,
                   threads, served, sent, stops, finished>>

-----------------------------------------------------------------------------
Loop(w) ==
    \/ TakeHigh(w) \/ TakeLow(w) \/ Sleep(w) \/ Exit(w)
    \/ Read(w) \/ Task(w) \/ YieldingTask(w) \/ YieldReturn(w) \/ YieldSleep(w)
    \/ Release(w)

Next ==
    \/ Start \/ Stop \/ Joined
    \/ \E j \in Jobs : Submit(j)
    \/ \E c \in Clients : WaitAll(c)
    \/ \E w \in Workers : Loop(w)

Spec == Init /\ [][Next]_vars

\* Threads run; a demand that began its batch submits all of it, and a stop
\* that began joins.
Fairness ==
    /\ \A w \in Workers : WF_vars(Loop(w))
    /\ \A c \in Clients :
         /\ WF_vars(WaitAll(c))
         /\ WF_vars(Reads[c] \cap sent # {} /\ \E j \in Reads[c] : Submit(j))
    /\ WF_vars(Joined)

FairSpec == Spec /\ Fairness

-----------------------------------------------------------------------------
(* Properties.                                                             *)

Busy == {w \in Workers : job[w] # NoJob}
LowBusy == {w \in Busy : job[w] \in LowTasks}
Queued == {high_q[i] : i \in 1..Len(high_q)} \cup {low_q[i] : i \in 1..Len(low_q)}

\* Predictions occupy at most low_cap workers, over stops and restarts too,
\* so that the others stay free for demand reads.
LowShare == low_cap <= 0 \/ Cardinality(LowBusy) <= low_cap

\* A worker sleeps only while there is nothing for it: no submission, release
\* or stop is missed.
NoMissedWakeup ==
    /\ \A w \in Workers : wpc[w] = "asleep" =>
         running /\ high_q = <<>> /\ ~CanTakeLow
    /\ \A w \in Workers : wpc[w] = "yield asleep" => ~HighIdle

\* Stopping drops no job: when stop returns both queues are drained, though
\* each worker may leave low jobs behind.
StopDrains == main = "down" => sent \subseteq finished

\* Every job submitted is run, whatever the others do.
JobsFinish == \A j \in Jobs : (j \in sent) ~> (j \in finished)

=============================================================================
