------------------------------ MODULE RowLease ------------------------------
(***************************************************************************)
(* The one place where the CPU and the GPU meet without a lock: while      *)
(* real_prefetch_reserve evicts an expert under g_real_mutex               *)
(* (real_try_unmap_unleased_locked, demand.cpp), the demand_gpu_remap      *)
(* kernel of the same layer may be looking that expert up.  RealPool takes *)
(* both as atomic; this module checks, instruction by instruction, that it *)
(* may.                                                                    *)
(*                                                                         *)
(* Abstractions.  Victims are chosen freely among the unleased residents,  *)
(* and the bytes of a row are its expert's or nobody's (None).  The demand *)
(* handler also evicts, but only after the remap of its layer has ended.   *)
(***************************************************************************)
EXTENDS Naturals, FiniteSets

CONSTANTS
    Experts,    \* the experts of the layer
    Rows,       \* physical rows
    Threads,    \* the threads of one demand_gpu_remap dispatch
    None        \* no row, no expert, incomplete bytes

ASSUME RowLeaseAssumption ==
    /\ IsFiniteSet(Threads)
    /\ None \notin Experts /\ None \notin Rows

VARIABLES
    e2r,            \* the CPU's map expert -> row
    slot_table,     \* the GPU's copy of it
    pending_e2r,    \* expert -> row being read
    lease,          \* lease_table: row -> number of leases
    content,        \* row -> expert whose bytes it holds
    \* --- the eviction in progress ---
    cpc, incoming, victim,
    \* --- the threads of the remap: program counter, ids[tid], local[tid] ---
    gpc, ids, local

maps == <<e2r, pending_e2r>>
cpu == <<cpc, incoming, victim>>
gpu == <<gpc, ids, local>>
leaseVars == <<maps, slot_table, lease, content, cpu, gpu>>

RowMap == [Experts -> Rows \cup {None}]
Unmapped == [e \in Experts |-> None]

\* Threads that have incremented the lease of the row they loaded.
Holding == {"confirm", "undo", "hit"}

LeaseTypeOK ==
    /\ e2r \in RowMap /\ slot_table \in RowMap /\ pending_e2r \in RowMap
    /\ lease \in [Rows -> Nat]
    /\ content \in [Rows -> Experts \cup {None}]
    /\ cpc \in {"idle", "check", "unmap", "recheck"}
    /\ incoming \in Experts \cup {None} /\ victim \in Experts \cup {None}
    /\ gpc \in [Threads -> {"idle", "load", "lease", "miss", "hit early",
                            "undo early"} \cup Holding]
    /\ ids \in [Threads -> Experts \cup {None}]
    /\ local \in [Threads -> Rows \cup {None}]

LeaseInit ==
    /\ e2r = Unmapped /\ slot_table = Unmapped /\ pending_e2r = Unmapped
    /\ lease = [r \in Rows |-> 0]
    /\ content = [r \in Rows |-> None]
    /\ cpc = "idle" /\ incoming = None /\ victim = None
    /\ gpc = [t \in Threads |-> "idle"]
    /\ ids = [t \in Threads |-> None]
    /\ local = [t \in Threads |-> None]

-----------------------------------------------------------------------------
(* The prediction callback, holding g_real_mutex while cpc # "idle".       *)

GiveBackLock == cpc' = "idle" /\ incoming' = None /\ victim' = None

Unowned(e) == e2r[e] = None /\ pending_e2r[e] = None
Free == {r \in Rows : \A e \in Experts : e2r[e] # r /\ pending_e2r[e] # r}

ReserveFree(e, r) ==
    /\ cpc = "idle" /\ Unowned(e) /\ r \in Free
    /\ pending_e2r' = [pending_e2r EXCEPT ![e] = r]
    /\ UNCHANGED <<e2r, cpu, slot_table, lease, content, gpu>>

\* The selection loop skips rows it sees leased.
ChooseVictim(e, v) ==
    /\ cpc = "idle" /\ Unowned(e)
    /\ e2r[v] # None /\ lease[e2r[v]] = 0
    /\ cpc' = "check" /\ incoming' = e /\ victim' = v
    /\ UNCHANGED <<maps, slot_table, lease, content, gpu>>

\* real_try_unmap_unleased_locked: refuse a leased row ...
CheckLease ==
    /\ cpc = "check"
    /\ IF lease[e2r[victim]] # 0
       THEN GiveBackLock
       ELSE cpc' = "unmap" /\ UNCHANGED <<incoming, victim>>
    /\ UNCHANGED <<maps, slot_table, lease, content, gpu>>

\* ... exchange the mapping for -1 (only the holder of the lock writes the
\* table, so the exchange does not fail) ...
Unmap ==
    /\ cpc = "unmap"
    /\ slot_table[victim] = e2r[victim]
    /\ slot_table' = [slot_table EXCEPT ![victim] = None]
    /\ cpc' = "recheck"
    /\ UNCHANGED <<maps, lease, content, incoming, victim, gpu>>

\* (mutants) the lease is not looked at again; a lease seen too late restores
\* the mapping but takes the row all the same.
RecheckSkipped ==
    /\ cpc = "recheck"
    /\ e2r' = [e2r EXCEPT ![victim] = None]
    /\ pending_e2r' = [pending_e2r EXCEPT ![incoming] = e2r[victim]]
    /\ GiveBackLock
    /\ UNCHANGED <<slot_table, lease, content, gpu>>

RecheckTakesAnyway ==
    /\ cpc = "recheck"
    /\ slot_table' = IF lease[e2r[victim]] # 0
                     THEN [slot_table EXCEPT ![victim] = e2r[victim]]
                     ELSE slot_table
    /\ e2r' = [e2r EXCEPT ![victim] = None]
    /\ pending_e2r' = [pending_e2r EXCEPT ![incoming] = e2r[victim]]
    /\ GiveBackLock
    /\ UNCHANGED <<lease, content, gpu>>

\* ... and look again: restore the mapping of a row leased meanwhile, or take
\* the row for the predicted expert.
Recheck ==
    /\ cpc = "recheck"
    /\ LET row == e2r[victim] IN
         IF lease[row] # 0
         THEN /\ slot_table' = [slot_table EXCEPT ![victim] = row]
              /\ UNCHANGED <<e2r, pending_e2r>>
         ELSE /\ e2r' = [e2r EXCEPT ![victim] = None]
              /\ pending_e2r' = [pending_e2r EXCEPT ![incoming] = row]
              /\ UNCHANGED slot_table
    /\ GiveBackLock
    /\ UNCHANGED <<lease, content, gpu>>

-----------------------------------------------------------------------------
(* Readers.                                                                *)

\* preadv overwrites the reserved row, outside the lock.
ReadRow(e) ==
    /\ pending_e2r[e] # None /\ content[pending_e2r[e]] # None
    /\ content' = [content EXCEPT ![pending_e2r[e]] = None]
    /\ UNCHANGED <<maps, slot_table, lease, cpu, gpu>>

\* real_prefetch_publish: complete bytes, then both maps.
Publish(e) ==
    /\ cpc = "idle"
    /\ pending_e2r[e] # None /\ content[pending_e2r[e]] = None
    /\ content' = [content EXCEPT ![pending_e2r[e]] = e]
    /\ e2r' = [e2r EXCEPT ![e] = pending_e2r[e]]
    /\ slot_table' = [slot_table EXCEPT ![e] = pending_e2r[e]]
    /\ pending_e2r' = [pending_e2r EXCEPT ![e] = None]
    /\ UNCHANGED <<cpu, lease, gpu>>

\* real_prefetch_abort.
Abort(e) ==
    /\ cpc = "idle" /\ pending_e2r[e] # None
    /\ pending_e2r' = [pending_e2r EXCEPT ![e] = None]
    /\ UNCHANGED <<e2r, cpu, slot_table, lease, content, gpu>>

-----------------------------------------------------------------------------
(* demand_gpu_remap, one thread per routed id (ids may repeat).            *)

Dispatch(t, e) ==
    /\ gpc[t] = "idle"
    /\ gpc' = [gpc EXCEPT ![t] = "load"]
    /\ ids' = [ids EXCEPT ![t] = e]
    /\ UNCHANGED <<maps, slot_table, lease, content, cpu, local>>

Load(t) ==
    /\ gpc[t] = "load"
    /\ local' = [local EXCEPT ![t] = slot_table[ids[t]]]
    /\ gpc' = [gpc EXCEPT ![t] = IF local'[t] = None THEN "miss" ELSE "lease"]
    /\ UNCHANGED <<maps, slot_table, lease, content, cpu, ids>>

Lease(t) ==
    /\ gpc[t] = "lease"
    /\ lease' = [lease EXCEPT ![local[t]] = @ + 1]
    /\ gpc' = [gpc EXCEPT ![t] = "confirm"]
    /\ UNCHANGED <<maps, slot_table, content, cpu, ids, local>>

Confirm(t) ==
    /\ gpc[t] = "confirm"
    /\ gpc' = [gpc EXCEPT ![t] =
                 IF slot_table[ids[t]] = local[t] THEN "hit" ELSE "undo"]
    /\ UNCHANGED <<maps, slot_table, lease, content, cpu, ids, local>>

\* (mutant) the count is not taken back.
UndoForgotten(t) ==
    /\ gpc[t] = "undo"
    /\ local' = [local EXCEPT ![t] = None]
    /\ gpc' = [gpc EXCEPT ![t] = "miss"]
    /\ UNCHANGED <<maps, slot_table, lease, content, cpu, ids>>

Undo(t) ==
    /\ gpc[t] = "undo"
    /\ lease' = [lease EXCEPT ![local[t]] = @ - 1]
    /\ local' = [local EXCEPT ![t] = None]
    /\ gpc' = [gpc EXCEPT ![t] = "miss"]
    /\ UNCHANGED <<maps, slot_table, content, cpu, ids>>

\* The layer's kernels have finished with their rows and the next layer's
\* handler runs real_release_before_layer.
ReleaseAll ==
    /\ cpc = "idle"
    /\ \A t \in Threads : gpc[t] \in {"idle", "hit", "miss"}
    /\ \E t \in Threads : gpc[t] # "idle"
    /\ lease' = [r \in Rows |-> 0]
    /\ gpc' = [t \in Threads |-> "idle"]
    /\ ids' = [t \in Threads |-> None]
    /\ local' = [t \in Threads |-> None]
    /\ UNCHANGED <<maps, slot_table, content, cpu>>

-----------------------------------------------------------------------------
CpuNext ==
    \/ \E e \in Experts, r \in Rows : ReserveFree(e, r)
    \/ \E e, v \in Experts : ChooseVictim(e, v)
    \/ CheckLease \/ Unmap \/ Recheck
    \/ \E e \in Experts : ReadRow(e) \/ Publish(e) \/ Abort(e)

GpuNext ==
    \/ \E t \in Threads : \/ \E e \in Experts : Dispatch(t, e)
                          \/ Load(t) \/ Lease(t) \/ Confirm(t) \/ Undo(t)
    \/ ReleaseAll

LeaseNext == CpuNext \/ GpuNext

LeaseSpec == LeaseInit /\ [][LeaseNext]_leaseVars

\* The kernel's atomics are memory_order_relaxed, which orders accesses to one
\* location only: the confirming load may be performed before the increment of
\* the lease, another location, becomes visible.
ConfirmEarly(t) ==
    /\ gpc[t] = "lease"
    /\ gpc' = [gpc EXCEPT ![t] = IF slot_table[ids[t]] = local[t]
                                 THEN "hit early" ELSE "undo early"]
    /\ UNCHANGED <<maps, slot_table, lease, content, cpu, ids, local>>

LeaseLate(t) ==
    /\ gpc[t] \in {"hit early", "undo early"}
    /\ lease' = [lease EXCEPT ![local[t]] = @ + 1]
    /\ gpc' = [gpc EXCEPT ![t] = IF @ = "hit early" THEN "hit" ELSE "undo"]
    /\ UNCHANGED <<maps, slot_table, content, cpu, ids, local>>

RelaxedNext == LeaseNext \/ \E t \in Threads : ConfirmEarly(t) \/ LeaseLate(t)

RelaxedSpec == LeaseInit /\ [][RelaxedNext]_leaseVars

-----------------------------------------------------------------------------
(* Properties.                                                             *)

\* A thread that confirmed its row reads its expert's bytes from it until the
\* leases are released: "either the GPU observes -1, or its lease is visible
\* and ownership is restored before any bytes are overwritten".
HitKeepsBytes ==
    \A t \in Threads : gpc[t] = "hit" => content[local[t]] = ids[t]

Holders(r) == {t \in Threads : gpc[t] \in Holding /\ local[t] = r}

\* The count of a row is the number of threads that hold it: an undo that runs
\* late or twice would leave a row leased for good, or wrap the counter.
LeaseCounts == \A r \in Rows : lease[r] = Cardinality(Holders(r))

\* The table the GPU reads never names a row that is being overwritten or
\* holds another expert, also after a mapping was withdrawn and restored.
TableBytes ==
    \A e \in Experts : slot_table[e] # None => content[slot_table[e]] = e

\* The inductive strengthening of the three.
OwnedBytes == \A e \in Experts : e2r[e] # None => content[e2r[e]] = e

OwnersDistinct ==
    \A e, f \in Experts :
      /\ pending_e2r[f] # None => e2r[e] # pending_e2r[f]
      /\ e # f /\ e2r[e] # None => e2r[e] # e2r[f]
      /\ e # f /\ pending_e2r[e] # None => pending_e2r[e] # pending_e2r[f]

OneRowEach == \A e \in Experts : e2r[e] = None \/ pending_e2r[e] = None

\* The GPU's table lags the CPU's only between Unmap and Recheck.
TableFollows ==
    \A e \in Experts :
      slot_table[e] = IF cpc = "recheck" /\ victim = e THEN None ELSE e2r[e]

EvictionUnderWay ==
    cpc # "idle" => /\ incoming \in Experts /\ victim \in Experts
                    /\ e2r[victim] # None /\ Unowned(incoming)

\* A confirmed row is still owned by the thread's expert.
ThreadsOwn ==
    \A t \in Threads :
      /\ gpc[t] # "idle" => ids[t] \in Experts
      /\ gpc[t] \in {"lease"} \cup Holding => local[t] \in Rows
      /\ gpc[t] = "hit" => e2r[ids[t]] = local[t]
      /\ gpc[t] \notin {"hit early", "undo early"}

LeaseInv ==
    /\ LeaseCounts /\ OwnedBytes /\ OwnersDistinct /\ OneRowEach
    /\ TableFollows /\ EvictionUnderWay /\ ThreadsOwn
=============================================================================
