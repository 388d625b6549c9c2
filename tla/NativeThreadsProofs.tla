------------------------ MODULE NativeThreadsProofs ------------------------
(***************************************************************************)
(* Machine-checked theorems about the two protocols between threads of the *)
(* native extension: the background reader (BgReader), for any number of   *)
(* workers and jobs, and the leases of rows (RowLease), for any number of  *)
(* experts, rows and GPU threads.                                          *)
(***************************************************************************)
EXTENDS BgReader, RowLease, FiniteSetTheorems, SequenceTheorems, TLAPS

-----------------------------------------------------------------------------
(* RowLease.                                                               *)

LeaseInductive == LeaseTypeOK /\ LeaseInv

\* Only the threads' program counters and rows decide who holds a row.
LEMMA SameHolders ==
  ASSUME \A t \in Threads :
           /\ gpc'[t] \in Holding <=> gpc[t] \in Holding
           /\ gpc[t] \in Holding => local'[t] = local[t],
         LeaseCounts, lease' = lease
  PROVE  LeaseCounts'
  <1>1. \A r \in Rows : Holders(r)' = Holders(r)
    BY DEF Holders
  <1>2. QED  BY <1>1 DEF LeaseCounts

LEMMA HoldersFinite ==
  ASSUME NEW r
  PROVE  IsFiniteSet(Holders(r)) /\ Cardinality(Holders(r)) \in Nat
  BY RowLeaseAssumption, FS_Subset, FS_CardinalityType DEF Holders

LEMMA LeaseInitInv == LeaseInit => LeaseInductive
  <1> SUFFICES ASSUME LeaseInit PROVE LeaseInductive
    OBVIOUS
  <1> USE RowLeaseAssumption
  <1>1. LeaseTypeOK
    BY DEF LeaseInit, LeaseTypeOK, RowMap, Unmapped, Holding
  <1>2. LeaseCounts
    <2>1. \A r \in Rows : Holders(r) = {}
      BY DEF LeaseInit, Holders, Holding
    <2>2. QED  BY <2>1, FS_EmptySet DEF LeaseInit, LeaseCounts
  <1>3. LeaseInv
    BY <1>2 DEF LeaseInit, LeaseInv, OwnedBytes, OwnersDistinct, OneRowEach,
       TableFollows, EvictionUnderWay, ThreadsOwn, Unmapped, Holding
  <1>4. QED  BY <1>1, <1>3 DEF LeaseInductive

\* What the CPU and the readers do, seen from the threads.
LEMMA CpuKeepsThreads ==
  ASSUME LeaseInductive, CpuNext
  PROVE  /\ UNCHANGED gpu /\ lease' = lease /\ LeaseCounts'
         /\ \A t \in Threads :
              /\ gpc'[t] # "idle" => ids'[t] \in Experts
              /\ gpc'[t] \in {"lease"} \cup Holding => local'[t] \in Rows
              /\ gpc'[t] \notin {"hit early", "undo early"}
  <1>1. UNCHANGED gpu /\ lease' = lease
    BY DEF CpuNext, ReserveFree, ChooseVictim, CheckLease, Unmap, Recheck,
           ReadRow, Publish, Abort
  <1>2. LeaseCounts'
    BY <1>1, SameHolders DEF LeaseInductive, LeaseInv, gpu
  <1>3. QED  BY <1>1, <1>2 DEF LeaseInductive, LeaseInv, ThreadsOwn, gpu

LEMMA CpuTypeOK == LeaseInductive /\ CpuNext => LeaseTypeOK'
  <1> SUFFICES ASSUME LeaseInductive, CpuNext PROVE LeaseTypeOK'
    OBVIOUS
  <1> USE CpuKeepsThreads
      DEF LeaseInductive, LeaseTypeOK, RowMap, gpu, cpu, maps, GiveBackLock
  <1>1. ASSUME NEW e \in Experts, NEW r \in Rows, ReserveFree(e, r)
        PROVE  LeaseTypeOK'
    BY <1>1 DEF ReserveFree
  <1>2. ASSUME NEW e \in Experts, NEW v \in Experts, ChooseVictim(e, v)
        PROVE  LeaseTypeOK'
    BY <1>2 DEF ChooseVictim
  <1>3. CASE CheckLease
    BY <1>3 DEF CheckLease
  <1>4. CASE Unmap
    BY <1>4 DEF Unmap
  <1>5. CASE Recheck
    <2>1. /\ victim \in Experts /\ e2r[victim] \in Rows
      BY <1>5 DEF Recheck, LeaseInv, EvictionUnderWay
    <2>2. QED  BY <1>5, <2>1 DEF Recheck
  <1>6. ASSUME NEW e \in Experts, ReadRow(e) PROVE LeaseTypeOK'
    BY <1>6 DEF ReadRow
  <1>7. ASSUME NEW e \in Experts, Publish(e) PROVE LeaseTypeOK'
    BY <1>7 DEF Publish
  <1>8. ASSUME NEW e \in Experts, Abort(e) PROVE LeaseTypeOK'
    BY <1>8 DEF Abort
  <1>9. QED
    BY <1>1, <1>2, <1>3, <1>4, <1>5, <1>6, <1>7, <1>8 DEF CpuNext

\* Rows change hands one at a time, and a hit row does not.
LEMMA CpuKeepsOwners ==
  ASSUME LeaseInductive, CpuNext
  PROVE  /\ OwnedBytes' /\ OwnersDistinct' /\ OneRowEach'
         /\ \A t \in Threads : gpc[t] = "hit" => e2r'[ids[t]] = local[t]
  <1> DEFINE HitsKept ==
               \A t \in Threads : gpc[t] = "hit" => e2r'[ids[t]] = local[t]
  <1>a. /\ e2r \in RowMap /\ pending_e2r \in RowMap
        /\ content \in [Rows -> Experts \cup {None}]
    BY DEF LeaseInductive, LeaseTypeOK
  <1>b. OwnedBytes /\ OwnersDistinct /\ OneRowEach
    BY DEF LeaseInductive, LeaseInv
  <1>c. \A t \in Threads : gpc[t] = "hit" => /\ ids[t] \in Experts
                                             /\ local[t] \in Rows
                                             /\ e2r[ids[t]] = local[t]
    BY DEF LeaseInductive, LeaseInv, ThreadsOwn, Holding
  <1>1. ASSUME NEW e \in Experts, NEW r \in Rows, ReserveFree(e, r)
        PROVE  /\ OwnedBytes' /\ OwnersDistinct' /\ OneRowEach' /\ HitsKept
    <2>1. /\ UNCHANGED <<e2r, content>>
          /\ pending_e2r' = [pending_e2r EXCEPT ![e] = r]
          /\ e2r[e] = None
          /\ \A f \in Experts : e2r[f] # r /\ pending_e2r[f] # r
      BY <1>1 DEF ReserveFree, Free, Unowned
    <2>2. OwnersDistinct'
      BY <1>a, <1>b, <2>1, RowLeaseAssumption DEF OwnersDistinct, RowMap
    <2>3. OwnedBytes' /\ OneRowEach'
      BY <1>a, <1>b, <2>1 DEF OwnedBytes, OneRowEach, RowMap
    <2>4. QED  BY <1>c, <2>1, <2>2, <2>3
  <1>2. ASSUME NEW e \in Experts, Publish(e)
        PROVE  /\ OwnedBytes' /\ OwnersDistinct' /\ OneRowEach' /\ HitsKept
    <2>1. /\ pending_e2r[e] \in Rows
          /\ content' = [content EXCEPT ![pending_e2r[e]] = e]
          /\ e2r' = [e2r EXCEPT ![e] = pending_e2r[e]]
          /\ pending_e2r' = [pending_e2r EXCEPT ![e] = None]
      BY <1>2, <1>a DEF Publish, RowMap
    <2>2. e2r[e] = None
      BY <1>b, <2>1, RowLeaseAssumption DEF OneRowEach
    <2>3. OwnedBytes'
      BY <1>a, <1>b, <2>1 DEF OwnedBytes, OwnersDistinct, RowMap
    <2>4. OwnersDistinct'
      BY <1>a, <1>b, <2>1 DEF OwnersDistinct, RowMap
    <2>5. OneRowEach'
      BY <1>a, <1>b, <2>1 DEF OneRowEach, RowMap
    <2>6. HitsKept
      BY <1>a, <1>c, <2>1, <2>2, RowLeaseAssumption DEF RowMap
    <2>7. QED  BY <2>3, <2>4, <2>5, <2>6
  <1>3. ASSUME NEW e \in Experts, Abort(e)
        PROVE  /\ OwnedBytes' /\ OwnersDistinct' /\ OneRowEach' /\ HitsKept
    <2>1. /\ UNCHANGED <<e2r, content>>
          /\ pending_e2r' = [pending_e2r EXCEPT ![e] = None]
      BY <1>3 DEF Abort
    <2>2. QED
      BY <1>a, <1>b, <1>c, <2>1
      DEF OwnedBytes, OwnersDistinct, OneRowEach, RowMap
  <1>4. ASSUME NEW e \in Experts, ReadRow(e)
        PROVE  /\ OwnedBytes' /\ OwnersDistinct' /\ OneRowEach' /\ HitsKept
    <2>1. /\ UNCHANGED <<e2r, pending_e2r>> /\ pending_e2r[e] # None
          /\ content' = [content EXCEPT ![pending_e2r[e]] = None]
      BY <1>4 DEF ReadRow, maps
    <2>2. OwnedBytes'
      BY <1>a, <1>b, <2>1 DEF OwnedBytes, OwnersDistinct, RowMap
    <2>3. OwnersDistinct' /\ OneRowEach'
      BY <1>b, <2>1 DEF OwnersDistinct, OneRowEach
    <2>4. QED  BY <1>c, <2>1, <2>2, <2>3
  <1>5. CASE Recheck
    <2> DEFINE row == e2r[victim]
    <2>1. /\ victim \in Experts /\ incoming \in Experts /\ row \in Rows
          /\ e2r[incoming] = None /\ content' = content
      BY <1>5, <1>a
      DEF Recheck, Unowned, LeaseInductive, LeaseInv, EvictionUnderWay, RowMap
    <2>2. CASE lease[row] # 0
      <3>1. UNCHANGED <<e2r, pending_e2r>>
        BY <1>5, <2>2 DEF Recheck
      <3>2. QED
        BY <1>b, <1>c, <2>1, <3>1 DEF OwnedBytes, OwnersDistinct, OneRowEach
    <2>3. CASE lease[row] = 0
      <3>1. /\ e2r' = [e2r EXCEPT ![victim] = None]
            /\ pending_e2r' = [pending_e2r EXCEPT ![incoming] = row]
        BY <1>5, <2>3 DEF Recheck
      <3>2. \A t \in Threads : gpc[t] = "hit" => local[t] # row
        <4> SUFFICES ASSUME NEW t \in Threads, gpc[t] = "hit", local[t] = row
                     PROVE  FALSE
          OBVIOUS
        <4>1. t \in Holders(row)
          BY DEF Holders, Holding
        <4>2. Cardinality(Holders(row)) = 0
          BY <2>1, <2>3 DEF LeaseInductive, LeaseInv, LeaseCounts
        <4>3. QED  BY <4>1, <4>2, HoldersFinite, FS_EmptySet
      <3>3. OwnedBytes' /\ OneRowEach'
        BY <1>a, <1>b, <2>1, <3>1 DEF OwnedBytes, OneRowEach, RowMap
      <3>4. OwnersDistinct'
        <4>1. row # None
          BY <2>1, RowLeaseAssumption
        <4>2. \A f \in Experts :
                /\ e2r'[f] = IF f = victim THEN None ELSE e2r[f]
                /\ pending_e2r'[f] = IF f = incoming THEN row ELSE pending_e2r[f]
          BY <1>a, <2>1, <3>1 DEF RowMap
        <4>3. QED  BY <1>b, <2>1, <4>1, <4>2 DEF OwnersDistinct
      <3>5. HitsKept
        BY <1>a, <1>c, <2>1, <3>1, <3>2 DEF RowMap
      <3>6. QED  BY <3>3, <3>4, <3>5
    <2>4. QED  BY <2>2, <2>3
  <1>6. CASE \/ \E e, v \in Experts : ChooseVictim(e, v)
             \/ CheckLease \/ Unmap
    <2>1. UNCHANGED <<e2r, pending_e2r, content>>
      BY <1>6 DEF ChooseVictim, CheckLease, Unmap, maps
    <2>2. QED
      BY <1>b, <1>c, <2>1 DEF OwnedBytes, OwnersDistinct, OneRowEach
  <1>7. QED  BY <1>1, <1>2, <1>3, <1>4, <1>5, <1>6 DEF CpuNext

\* The window in which the two tables differ.
LEMMA CpuKeepsWindow ==
  ASSUME LeaseInductive, CpuNext
  PROVE  TableFollows' /\ EvictionUnderWay'
  <1> USE DEF LeaseInductive, LeaseTypeOK, RowMap, LeaseInv, TableFollows, EvictionUnderWay,
          Unowned, GiveBackLock
  <1>1. ASSUME NEW e \in Experts, NEW r \in Rows, ReserveFree(e, r)
        PROVE  TableFollows' /\ EvictionUnderWay'
    BY <1>1 DEF ReserveFree, cpu
  <1>2. ASSUME NEW e \in Experts, NEW v \in Experts, ChooseVictim(e, v)
        PROVE  TableFollows' /\ EvictionUnderWay'
    BY <1>2 DEF ChooseVictim, maps
  <1>3. CASE CheckLease
    BY <1>3 DEF CheckLease, maps
  <1>4. CASE Unmap
    BY <1>4 DEF Unmap, maps
  <1>5. CASE Recheck
    BY <1>5 DEF Recheck
  <1>6. ASSUME NEW e \in Experts, ReadRow(e)
        PROVE  TableFollows' /\ EvictionUnderWay'
    BY <1>6 DEF ReadRow, maps, cpu
  <1>7. ASSUME NEW e \in Experts, Publish(e) \/ Abort(e)
        PROVE  TableFollows' /\ EvictionUnderWay'
    <2>1. /\ cpc = "idle" /\ UNCHANGED cpu /\ e2r \in RowMap
          /\ slot_table \in RowMap /\ TableFollows
      BY <1>7 DEF Publish, Abort
    <2>2. CASE Publish(e)
      BY <2>1, <2>2 DEF Publish, cpu
    <2>3. CASE Abort(e)
      BY <2>1, <2>3 DEF Abort, cpu
    <2>4. QED  BY <1>7, <2>2, <2>3
  <1>8. QED
    BY <1>1, <1>2, <1>3, <1>4, <1>5, <1>6, <1>7 DEF CpuNext

LEMMA CpuStep == LeaseInductive /\ CpuNext => LeaseInductive'
  <1> SUFFICES ASSUME LeaseInductive, CpuNext PROVE LeaseInductive'
    OBVIOUS
  <1>1. ThreadsOwn'
    BY CpuKeepsThreads, CpuKeepsOwners DEF ThreadsOwn, gpu
  <1>2. QED
    BY <1>1, CpuTypeOK, CpuKeepsThreads, CpuKeepsOwners, CpuKeepsWindow
    DEF LeaseInductive, LeaseInv

LEMMA GpuStep == LeaseInductive /\ GpuNext => LeaseInductive'
  <1> SUFFICES ASSUME LeaseInductive, GpuNext PROVE LeaseInductive'
    OBVIOUS
  <1>0. UNCHANGED <<e2r, pending_e2r, slot_table, content, cpc, incoming, victim>>
    BY DEF GpuNext, Dispatch, Load, Lease, Confirm, Undo, ReleaseAll, maps, cpu
  <1>a. /\ lease \in [Rows -> Nat] /\ LeaseCounts
        /\ gpc \in [Threads -> {"idle", "load", "lease", "miss", "hit early",
                                "undo early"} \cup Holding]
        /\ ids \in [Threads -> Experts \cup {None}]
        /\ local \in [Threads -> Rows \cup {None}]
        /\ slot_table \in [Experts -> Rows \cup {None}]
        /\ ThreadsOwn
    BY DEF LeaseInductive, LeaseTypeOK, RowMap, LeaseInv
  <1>b. ASSUME LeaseCounts',
               lease' \in [Rows -> Nat],
               gpc' \in [Threads -> {"idle", "load", "lease", "miss",
                                     "hit early", "undo early"} \cup Holding],
               ids' \in [Threads -> Experts \cup {None}],
               local' \in [Threads -> Rows \cup {None}],
               ThreadsOwn'
        PROVE  LeaseInductive'
    <2>1. LeaseTypeOK'
      BY <1>0, <1>b DEF LeaseInductive, LeaseTypeOK, RowMap
    <2>2. OwnedBytes' /\ OwnersDistinct' /\ OneRowEach'
      BY <1>0 DEF LeaseInductive, LeaseInv, OwnedBytes, OwnersDistinct, OneRowEach
    <2>3. TableFollows' /\ EvictionUnderWay'
      BY <1>0 DEF LeaseInductive, LeaseInv, TableFollows, EvictionUnderWay, Unowned
    <2>4. QED  BY <1>b, <2>1, <2>2, <2>3 DEF LeaseInductive, LeaseInv
  <1>1. ASSUME NEW t \in Threads, NEW e \in Experts, Dispatch(t, e) PROVE LeaseInductive'
    <2>1. LeaseCounts'
      BY <1>a, <1>1, SameHolders DEF Dispatch, Holding
    <2>2. ThreadsOwn'
      BY <1>0, <1>a, <1>1 DEF Dispatch, ThreadsOwn, Holding
    <2>3. QED  BY <1>a, <1>b, <1>1, <2>1, <2>2 DEF Dispatch, Holding
  <1>2. ASSUME NEW t \in Threads, Load(t) PROVE LeaseInductive'
    <2>1. slot_table[ids[t]] \in Rows \cup {None}
      BY <1>a, <1>2 DEF Load, ThreadsOwn
    <2>2. LeaseCounts'
      BY <1>a, <1>2, <2>1, SameHolders DEF Load, Holding
    <2>3. ThreadsOwn'
      BY <1>0, <1>a, <1>2, <2>1 DEF Load, ThreadsOwn, Holding
    <2>4. QED  BY <1>a, <1>b, <1>2, <2>1, <2>2, <2>3 DEF Load, Holding
  <1>3. ASSUME NEW t \in Threads, Lease(t) PROVE LeaseInductive'
    <2>1. PICK r \in Rows : r = local[t]
      BY <1>a, <1>3 DEF Lease, ThreadsOwn
    <2>2. /\ gpc[t] = "lease"
          /\ gpc' = [gpc EXCEPT ![t] = "confirm"]
          /\ ids' = ids /\ local' = local
          /\ lease' = [lease EXCEPT ![r] = @ + 1]
      BY <1>3, <2>1 DEF Lease
    <2>3. Holders(r)' = Holders(r) \cup {t} /\ t \notin Holders(r)
      BY <1>a, <2>1, <2>2 DEF Holders, Holding
    <2>4. \A q \in Rows : q # r => Holders(q)' = Holders(q)
      BY <1>a, <2>1, <2>2 DEF Holders, Holding
    <2>5. Cardinality(Holders(r)') = Cardinality(Holders(r)) + 1
      BY <2>3, HoldersFinite, FS_AddElement
    <2>6. LeaseCounts' /\ lease' \in [Rows -> Nat]
      <3>0. lease \in [Rows -> Nat] /\ lease' = [lease EXCEPT ![r] = lease[r] + 1]
        BY <1>a, <2>2
      <3>1. lease' \in [Rows -> Nat] /\ lease'[r] = lease[r] + 1
        BY <3>0
      <3>2. \A q \in Rows : q # r => lease'[q] = lease[q]
        BY <1>a, <2>2
      <3>3. QED  BY <1>a, <2>4, <2>5, <3>1, <3>2 DEF LeaseCounts
    <2>7. ThreadsOwn'
      BY <1>0, <1>a, <2>1, <2>2 DEF ThreadsOwn, Holding
    <2>8. QED  BY <1>a, <1>b, <2>2, <2>6, <2>7 DEF Holding
  <1>4. ASSUME NEW t \in Threads, Confirm(t) PROVE LeaseInductive'
    <2>1. LeaseCounts'
      BY <1>a, <1>4, SameHolders DEF Confirm, Holding
    <2>2. local[t] \in Rows /\ ids[t] \in Experts
      BY <1>a, <1>4 DEF Confirm, ThreadsOwn, Holding
    <2>3. slot_table[ids[t]] = local[t] => e2r[ids[t]] = local[t]
      BY <2>2, RowLeaseAssumption DEF LeaseInductive, LeaseInv, TableFollows
    <2>4. ThreadsOwn'
      BY <1>0, <1>a, <1>4, <2>2, <2>3 DEF Confirm, ThreadsOwn, Holding
    <2>5. QED  BY <1>a, <1>b, <1>4, <2>1, <2>4 DEF Confirm, Holding
  <1>5. ASSUME NEW t \in Threads, Undo(t) PROVE LeaseInductive'
    <2>1. PICK r \in Rows : r = local[t]
      BY <1>a, <1>5 DEF Undo, ThreadsOwn, Holding
    <2>2. /\ gpc[t] = "undo"
          /\ gpc' = [gpc EXCEPT ![t] = "miss"]
          /\ ids' = ids /\ local' = [local EXCEPT ![t] = None]
          /\ lease' = [lease EXCEPT ![r] = @ - 1]
      BY <1>5, <2>1 DEF Undo
    <2>3. Holders(r)' = Holders(r) \ {t} /\ t \in Holders(r)
      BY <1>a, <2>1, <2>2 DEF Holders, Holding
    <2>4. \A q \in Rows : q # r => Holders(q)' = Holders(q)
      BY <1>a, <2>1, <2>2 DEF Holders, Holding
    <2>5. /\ Cardinality(Holders(r)') = Cardinality(Holders(r)) - 1
          /\ Cardinality(Holders(r)') \in Nat
      <3>1. IsFiniteSet(Holders(r) \ {t})
            /\ Cardinality(Holders(r) \ {t}) = Cardinality(Holders(r)) - 1
        BY <2>3, HoldersFinite, FS_RemoveElement
      <3>2. Cardinality(Holders(r) \ {t}) \in Nat
        BY <3>1, FS_CardinalityType
      <3>3. QED  BY <2>3, <3>1, <3>2
    <2>6. LeaseCounts' /\ lease' \in [Rows -> Nat]
      BY <1>a, <2>2, <2>4, <2>5 DEF LeaseCounts
    <2>7. ThreadsOwn'
      BY <1>0, <1>a, <2>1, <2>2 DEF ThreadsOwn, Holding
    <2>8. QED  BY <1>a, <1>b, <2>2, <2>6, <2>7 DEF Holding
  <1>6. CASE ReleaseAll
    <2>1. \A r \in Rows : Holders(r)' = {}
      BY <1>6 DEF ReleaseAll, Holders, Holding
    <2>2. LeaseCounts'
      BY <1>6, <2>1, FS_EmptySet DEF ReleaseAll, LeaseCounts
    <2>3. ThreadsOwn'
      BY <1>6 DEF ReleaseAll, ThreadsOwn, Holding
    <2>4. QED  BY <1>b, <1>6, <2>2, <2>3 DEF ReleaseAll
  <1>7. QED  BY <1>1, <1>2, <1>3, <1>4, <1>5, <1>6 DEF GpuNext

LEMMA Inductive == LeaseSpec => []LeaseInductive
  <1>1. LeaseInductive /\ [LeaseNext]_leaseVars => LeaseInductive'
    <2> SUFFICES ASSUME LeaseInductive, [LeaseNext]_leaseVars PROVE LeaseInductive'
      OBVIOUS
    <2>1. CASE UNCHANGED leaseVars
      <3>1. LeaseTypeOK' /\ LeaseCounts'
        BY <2>1 DEF leaseVars, maps, cpu, gpu, LeaseInductive, LeaseTypeOK, RowMap, LeaseInv,
           LeaseCounts, Holders
      <3>2. OwnedBytes' /\ OwnersDistinct' /\ OneRowEach'
        BY <2>1 DEF leaseVars, maps, LeaseInductive, LeaseInv, OwnedBytes, OwnersDistinct,
           OneRowEach
      <3>3. TableFollows' /\ EvictionUnderWay' /\ ThreadsOwn'
        BY <2>1 DEF leaseVars, maps, cpu, gpu, LeaseInductive, LeaseInv, TableFollows,
           EvictionUnderWay, ThreadsOwn, Unowned
      <3>4. QED  BY <3>1, <3>2, <3>3 DEF LeaseInductive, LeaseInv
    <2>2. QED  BY <2>1, CpuStep, GpuStep DEF LeaseNext
  <1>2. QED  BY LeaseInitInv, <1>1, PTL DEF LeaseSpec

\* A confirmed row keeps its expert's bytes until the leases are released,
\* for every number of threads, experts and rows: the lease protocol of
\* demand_gpu_remap and real_try_unmap_unleased_locked is right when each
\* thread's accesses take effect in program order.
THEOREM LeaseSafe == LeaseSpec => []HitKeepsBytes
  <1>1. LeaseInductive => HitKeepsBytes
    <2> SUFFICES ASSUME LeaseInductive, NEW t \in Threads, gpc[t] = "hit"
                 PROVE  content[local[t]] = ids[t]
      BY DEF HitKeepsBytes
    <2>1. ids[t] \in Experts /\ local[t] \in Rows /\ e2r[ids[t]] = local[t]
      BY DEF LeaseInductive, LeaseInv, ThreadsOwn, Holding
    <2>2. QED
      BY <2>1, RowLeaseAssumption DEF LeaseInductive, LeaseInv, OwnedBytes
  <1>2. QED  BY <1>1, Inductive, PTL

\* Leases are neither lost nor left over.
THEOREM LeasesBalance == LeaseSpec => []LeaseCounts
  <1>1. LeaseInductive => LeaseCounts
    BY DEF LeaseInductive, LeaseInv
  <1>2. QED  BY <1>1, Inductive, PTL

\* The table the GPU reads never names an overwritten row.
THEOREM TableSafe == LeaseSpec => []TableBytes
  <1>1. LeaseInductive => TableBytes
    BY DEF LeaseInductive, LeaseInv, OwnedBytes, TableFollows, TableBytes
  <1>2. QED  BY <1>1, Inductive, PTL

\* Type correctness; that no lease count goes below zero needs LeaseCounts.
THEOREM LeaseTypes == LeaseSpec => []LeaseTypeOK
  <1>1. LeaseInductive => LeaseTypeOK
    BY DEF LeaseInductive
  <1>2. QED  BY <1>1, Inductive, PTL
-----------------------------------------------------------------------------
(* BgReader.                                                               *)

States == {"off", "ready", "asleep", "run", "yield", "yield asleep", "yield woken", "ran"}
HighBusy == {w \in Busy : job[w] \in High}
Working == {"run", "yield", "yield asleep", "yield woken", "ran"}
Elements(q) == {q[i] : i \in 1 .. Len(q)}

\* The counters are the workers that are running a job of their kind.
CountInv ==
    /\ active_high = Cardinality(HighBusy)
    /\ active_low = Cardinality(LowBusy)
    /\ \A w \in Workers : job[w] # NoJob <=> wpc[w] \in Working

\* Where the reader is: a thread runs while it is running, and a stop
\* leaves a thread until the queues are empty.
PhaseInv ==
    /\ running <=> main = "up"
    /\ main \in {"new", "down"} => \A w \in Workers : wpc[w] = "off"
    /\ main = "up" => \E w \in Workers : wpc[w] # "off"
    /\ main = "stopping" =>
         (\E w \in Workers : wpc[w] # "off") \/ (high_q = <<>> /\ low_q = <<>>)
    /\ main = "down" => high_q = <<>> /\ low_q = <<>>

\* No job is lost: it is queued, running or finished.
JobInv ==
    /\ \A j \in sent : \/ j \in finished
                       \/ j \in Elements(high_q) \/ j \in Elements(low_q)
                       \/ \E w \in Workers : job[w] = j
    /\ \A w \in Workers : wpc[w] = "ran" => job[w] \in finished

IInv == TypeOK /\ CountInv /\ PhaseInv /\ JobInv /\ NoMissedWakeup /\ LowShare
-----------------------------------------------------------------------------
\* What submit appends to a queue.
LEMMA AppendElements ==
    ASSUME NEW S, NEW q \in Seq(S), NEW e \in S
    PROVE  Append(q, e) \in Seq(S) /\ Elements(Append(q, e)) = Elements(q) \cup {e} /\ Append(q, e) # <<>>
  <1>1. /\ Append(q, e) \in Seq(S) /\ Append(q, e) # <<>> /\ Len(Append(q, e)) = Len(q) + 1
        /\ \A i \in 1 .. Len(q) : Append(q, e)[i] = q[i]
        /\ Append(q, e)[Len(q) + 1] = e
      BY AppendProperties
  <1>2. Len(q) \in Nat
      BY LenProperties
  <1>3. \A i \in 1 .. Len(q) + 1 : i \in 1 .. Len(q) \/ i = Len(q) + 1
      BY <1>2
  <1>4. 1 .. Len(q) \subseteq 1 .. Len(q) + 1 /\ Len(q) + 1 \in 1 .. Len(q) + 1
      BY <1>2
  <1> QED  BY <1>1, <1>3, <1>4 DEF Elements

\* What a worker takes from a queue, and what it leaves.
LEMMA TailElements ==
    ASSUME NEW S, NEW q \in Seq(S), q # <<>>
    PROVE  /\ Tail(q) \in Seq(S) /\ Head(q) \in S /\ Head(q) \in Elements(q)
           /\ Elements(q) = Elements(Tail(q)) \cup {Head(q)}
  <1>1. /\ Head(q) \in S /\ Tail(q) \in Seq(S) /\ Len(Tail(q)) = Len(q) - 1
        /\ \A i \in 1 .. Len(Tail(q)) : Tail(q)[i] = q[i + 1]
      BY HeadTailProperties
  <1>2. Len(q) \in Nat \ {0}
      BY EmptySeq
  <1>3. Head(q) = q[1]
      BY <1>2
  <1>4. \A i \in 1 .. Len(q) : i = 1 \/ (i - 1 \in 1 .. Len(Tail(q)) /\ q[i] = Tail(q)[i - 1])
    <2> SUFFICES ASSUME NEW i \in 1 .. Len(q), i # 1
                 PROVE  i - 1 \in 1 .. Len(Tail(q)) /\ q[i] = Tail(q)[i - 1]
        OBVIOUS
    <2>1. i - 1 \in 1 .. Len(Tail(q)) /\ (i - 1) + 1 = i
        BY <1>1, <1>2
    <2> QED  BY <1>1, <2>1
  <1>5. \A i \in 1 .. Len(Tail(q)) : i + 1 \in 1 .. Len(q)
      BY <1>1, <1>2
  <1>6. 1 \in 1 .. Len(q)
      BY <1>2
  <1>7. Elements(q) \subseteq Elements(Tail(q)) \cup {Head(q)}
      BY <1>3, <1>4 DEF Elements
  <1>8. Elements(Tail(q)) \cup {Head(q)} \subseteq Elements(q)
      BY <1>1, <1>3, <1>5, <1>6 DEF Elements
  <1> QED  BY <1>1, <1>7, <1>8

\* An empty queue has no element.
LEMMA EmptyElements == Elements(<<>>) = {}
  BY EmptySeq DEF Elements

\* notify_all moves the sleepers and nobody else.
LEMMA NotifiedOK ==
    ASSUME NEW p \in [Workers -> States]
    PROVE  /\ Notified(p) \in [Workers -> States]
           /\ \A w \in Workers : /\ Notified(p)[w] \notin {"asleep", "yield asleep"}
                                 /\ Notified(p)[w] = "off" <=> p[w] = "off"
                                 /\ Notified(p)[w] = "ran" <=> p[w] = "ran"
                                 /\ Notified(p)[w] \in Working <=> p[w] \in Working
  BY DEF Notified, States, Working

\* The counters count finite sets.
LEMMA BusyFinite ==
    /\ IsFiniteSet(LowBusy) /\ IsFiniteSet(HighBusy)
    /\ Cardinality(LowBusy) \in Nat /\ Cardinality(HighBusy) \in Nat
  BY PoolAssumption, FS_Subset, FS_CardinalityType DEF LowBusy, HighBusy, Busy, PoolAssumption

\* ensure_started: the reader runs and nobody is asleep.
LEMMA EnsureStartedOK ==
    ASSUME IInv, NEW n \in 1 .. Cardinality(Workers), EnsureStarted(n), main \in {"new", "up", "down"},
           job' = job
    PROVE  /\ running' /\ worker_count' \in Nat
           /\ wpc' \in [Workers -> States]
           /\ \A w \in Workers : /\ wpc'[w] \notin {"asleep", "yield asleep"}
                                 /\ wpc'[w] = "ran" => wpc[w] = "ran"
                                 /\ wpc'[w] \in Working <=> wpc[w] \in Working
           /\ \E w \in Workers : wpc'[w] # "off"
  <1>1. CASE running
    <2>1. wpc \in [Workers -> States] /\ worker_count \in Nat
        BY DEF IInv, TypeOK, States
    <2>2. wpc' = Notified(wpc) /\ running' = running /\ worker_count' = worker_count
        BY <1>1 DEF EnsureStarted
    <2>3. \E w \in Workers : wpc[w] # "off"
        BY <1>1 DEF IInv, PhaseInv
    <2>4. running'
        BY <1>1, <2>2
    <2> QED  BY <2>1, <2>2, <2>3, <2>4, NotifiedOK, Zenon DEF States
  <1>2. CASE ~running
    <2>1. PICK S \in SUBSET Workers :
              /\ Cardinality(S) = n
              /\ wpc' = [w \in Workers |-> IF w \in S THEN "ready" ELSE "off"]
        BY <1>2 DEF EnsureStarted
    <2>2. running' /\ worker_count' = n /\ n \in Nat /\ n # 0
        BY <1>2, PoolAssumption, FS_CardinalityType DEF EnsureStarted, PoolAssumption
    <2>3. S # {}
        BY <2>1, <2>2, FS_EmptySet
    <2>4. \A w \in Workers : wpc[w] = "off"
        BY <1>2 DEF IInv, PhaseInv
    <2> QED  BY <2>1, <2>2, <2>3, <2>4 DEF States, Working
  <1> QED  BY <1>1, <1>2

\* Before start() nothing is queued and nobody runs.
LEMMA InitIInv == Init => IInv
  <1> SUFFICES ASSUME Init PROVE IInv
      OBVIOUS
  <1>1. \A w \in Workers : job[w] = NoJob /\ wpc[w] = "off"
      BY DEF Init
  <1>2. LowBusy = {} /\ HighBusy = {}
      BY <1>1 DEF LowBusy, HighBusy, Busy
  <1>3. TypeOK
    <2>1. <<>> \in Seq(High) /\ <<>> \in Seq(LowTasks)
        BY EmptySeq
    <2>2. high_q \in Seq(High) /\ low_q \in Seq(LowTasks)
        BY <2>1 DEF Init
    <2>3. wpc \in [Workers -> {"off", "ready", "asleep", "run", "yield",
                            "yield asleep", "yield woken", "ran"}]
        BY DEF Init
    <2>4. job \in [Workers -> Jobs \cup {NoJob}] /\ running \in BOOLEAN
        BY DEF Init
    <2> QED  BY <2>2, <2>3, <2>4 DEF Init, TypeOK
  <1>4. CountInv
      BY <1>1, <1>2, FS_EmptySet DEF Init, CountInv, Working
  <1>5. PhaseInv /\ JobInv /\ NoMissedWakeup
      BY <1>1 DEF Init, PhaseInv, JobInv, NoMissedWakeup
  <1>6. LowShare
      BY DEF Init, LowShare
  <1> QED  BY <1>3, <1>4, <1>5, <1>6 DEF IInv

-----------------------------------------------------------------------------
(* Steps outside the workers.                                              *)

\* What the invariant says of single variables.
LEMMA Parts ==
    ASSUME IInv
    PROVE  /\ active_low \in Nat /\ active_high \in Nat /\ low_cap \in Int /\ stops \in Nat
           /\ high_q \in Seq(High) /\ low_q \in Seq(LowTasks)
           /\ active_high = Cardinality(HighBusy) /\ active_low = Cardinality(LowBusy)
           /\ low_cap <= 0 \/ active_low <= low_cap
  BY DEF IInv, TypeOK, CountInv, LowShare

\* Jobs stay with their workers, so the counters stay right.
LEMMA SameJobs ==
    ASSUME IInv, job' = job, active_high' = active_high, active_low' = active_low,
           \A w \in Workers : wpc'[w] \in Working <=> wpc[w] \in Working
    PROVE  CountInv' /\ LowBusy' = LowBusy
  BY DEF IInv, CountInv, HighBusy, LowBusy, Busy

\* start() is called before any job: nothing is queued or running.
LEMMA StartStep == ASSUME IInv, Start PROVE IInv'
  <1>1. /\ main = "new" /\ main' = "up" /\ low_cap' = LowCap /\ job' = job
        /\ high_q' = high_q /\ low_q' = low_q /\ active_low' = active_low /\ active_high' = active_high
        /\ done' = done /\ served' = served /\ sent' = sent /\ stops' = stops /\ finished' = finished
      BY DEF Start
  <1>2. /\ running' /\ worker_count' \in Nat
        /\ wpc' \in [Workers -> States]
        /\ \A w \in Workers : /\ wpc'[w] \notin {"asleep", "yield asleep"}
                              /\ wpc'[w] = "ran" => wpc[w] = "ran"
                              /\ wpc'[w] \in Working <=> wpc[w] \in Working
        /\ \E w \in Workers : wpc'[w] # "off"
      BY <1>1, EnsureStartedOK, PoolAssumption DEF Start, PoolAssumption
  <1>3. CountInv' /\ LowBusy' = LowBusy
      BY <1>1, <1>2, SameJobs
  <1>4. LowBusy = {}
      BY <1>1 DEF IInv, PhaseInv, CountInv, LowBusy, Busy, Working
  <1>5. TypeOK'
      BY <1>1, <1>2, PoolAssumption DEF IInv, TypeOK, PoolAssumption, States
  <1>6. PhaseInv' /\ JobInv' /\ NoMissedWakeup'
      BY <1>1, <1>2 DEF IInv, PhaseInv, JobInv, NoMissedWakeup
  <1>7. LowShare'
      BY <1>1, <1>3, <1>4, FS_EmptySet, PoolAssumption DEF LowShare, PoolAssumption
  <1> QED  BY <1>3, <1>5, <1>6, <1>7 DEF IInv

\* A submission wakes everybody, and starts the reader again after a stop.
LEMMA SubmitStep == ASSUME IInv, NEW j \in Jobs, Submit(j) PROVE IInv'
  <1>1. /\ main \in {"up", "down"} /\ main' = "up" /\ low_cap' = low_cap /\ job' = job
        /\ active_low' = active_low /\ active_high' = active_high
        /\ done' = done /\ served' = served /\ sent' = sent \cup {j} /\ stops' = stops
        /\ finished' = finished
      BY DEF Submit
  <1>2. /\ running' /\ worker_count' \in Nat
        /\ wpc' \in [Workers -> States]
        /\ \A w \in Workers : /\ wpc'[w] \notin {"asleep", "yield asleep"}
                              /\ wpc'[w] = "ran" => wpc[w] = "ran"
                              /\ wpc'[w] \in Working <=> wpc[w] \in Working
        /\ \E w \in Workers : wpc'[w] # "off"
      BY <1>1, EnsureStartedOK, PoolAssumption DEF Submit, PoolAssumption
  <1>3. CountInv' /\ LowBusy' = LowBusy
      BY <1>1, <1>2, SameJobs
  <1>4. /\ high_q' \in Seq(High) /\ low_q' \in Seq(LowTasks)
        /\ Elements(high_q) \subseteq Elements(high_q') /\ Elements(low_q) \subseteq Elements(low_q')
        /\ j \in Elements(high_q') \cup Elements(low_q')
    <2>1. high_q \in Seq(High) /\ low_q \in Seq(LowTasks)
        BY DEF IInv, TypeOK
    <2>2. CASE j \in High
      <3>1. high_q' = Append(high_q, j) /\ low_q' = low_q
          BY <2>2 DEF Submit
      <3>2. /\ Append(high_q, j) \in Seq(High)
            /\ Elements(Append(high_q, j)) = Elements(high_q) \cup {j}
          BY <2>1, <2>2, AppendElements
      <3> QED  BY <2>1, <3>1, <3>2
    <2>3. CASE j \notin High
      <3>1. low_q' = Append(low_q, j) /\ high_q' = high_q
          BY <2>3 DEF Submit
      <3>2. j \in LowTasks
          BY <2>3 DEF Jobs
      <3>3. /\ Append(low_q, j) \in Seq(LowTasks)
            /\ Elements(Append(low_q, j)) = Elements(low_q) \cup {j}
          BY <2>1, <3>2, AppendElements
      <3> QED  BY <2>1, <3>1, <3>3
    <2> QED  BY <2>2, <2>3
  <1>5. TypeOK'
      BY <1>1, <1>2, <1>4 DEF IInv, TypeOK, States
  <1>6. PhaseInv'
      BY <1>1, <1>2 DEF PhaseInv
  <1>7. JobInv'
      BY <1>1, <1>2, <1>4 DEF IInv, JobInv
  <1>8. NoMissedWakeup'
      BY <1>2 DEF NoMissedWakeup
  <1>9. LowShare'
      BY <1>1, <1>3 DEF IInv, LowShare
  <1> QED  BY <1>3, <1>5, <1>6, <1>7, <1>8, <1>9 DEF IInv

\* wait_all only collects tickets.
LEMMA WaitAllStep == ASSUME IInv, NEW c \in Clients, WaitAll(c) PROVE IInv'
  <1>1. /\ UNCHANGED <<locked, threads, main, sent, stops, finished>>
        /\ done' = done \ Reads[c] /\ served' = served \cup {c}
      BY DEF WaitAll
  <1> QED  BY <1>1 DEF IInv, locked, threads, TypeOK, CountInv, HighBusy, LowBusy, Busy, PhaseInv, JobInv,
                       NoMissedWakeup, HighIdle, CanTakeLow, LowShare

\* stop() wakes everybody; its workers still have the queues to drain.
LEMMA StopStep == ASSUME IInv, Stop PROVE IInv'
  <1>1. /\ main = "up" /\ main' = "stopping" /\ ~running' /\ running' \in BOOLEAN /\ stops' = stops + 1
        /\ wpc' = Notified(wpc)
        /\ UNCHANGED <<high_q, low_q, active_low, active_high, low_cap, worker_count, done, job, served,
                       sent, finished>>
      BY DEF Stop
  <1>2. /\ wpc' \in [Workers -> States]
        /\ \A w \in Workers : /\ wpc'[w] \notin {"asleep", "yield asleep"}
                              /\ wpc'[w] = "off" <=> wpc[w] = "off"
                              /\ wpc'[w] = "ran" <=> wpc[w] = "ran"
                              /\ wpc'[w] \in Working <=> wpc[w] \in Working
      BY <1>1, NotifiedOK DEF IInv, TypeOK, States
  <1>3. CountInv' /\ LowBusy' = LowBusy
      BY <1>1, <1>2, SameJobs
  <1>4. TypeOK'
    <2>1. stops' \in Nat
        BY Parts DEF Stop
    <2> QED  BY <1>1, <1>2, <2>1, Zenon DEF IInv, TypeOK, States
  <1>5. PhaseInv'
      BY <1>1, <1>2 DEF IInv, PhaseInv
  <1>6. JobInv' /\ NoMissedWakeup'
      BY <1>1, <1>2 DEF IInv, JobInv, NoMissedWakeup
  <1>7. LowShare'
      BY <1>1, <1>3 DEF IInv, LowShare
  <1> QED  BY <1>3, <1>4, <1>5, <1>6, <1>7 DEF IInv

\* No worker is left, so no job is, and the counter stop() resets is 0 already.
LEMMA JoinedStep == ASSUME IInv, Joined PROVE IInv'
  <1>1. /\ main = "stopping" /\ main' = "down" /\ done' = {} /\ active_low' = 0
        /\ \A w \in Workers : wpc[w] = "off"
        /\ UNCHANGED <<running, high_q, low_q, active_high, low_cap, worker_count, threads, served, sent,
                       stops, finished>>
      BY DEF Joined
  <1>2. LowBusy = {} /\ HighBusy = {}
      BY <1>1 DEF IInv, CountInv, LowBusy, HighBusy, Busy, Working
  <1>3. active_low = 0 /\ active_high = 0
      BY <1>2, FS_EmptySet DEF IInv, CountInv
  <1>4. CountInv' /\ LowBusy' = LowBusy
      BY <1>1, <1>3, SameJobs DEF threads
  <1>5. TypeOK'
      BY <1>1 DEF IInv, TypeOK, threads
  <1>6. PhaseInv' /\ JobInv' /\ NoMissedWakeup'
      BY <1>1 DEF IInv, PhaseInv, JobInv, NoMissedWakeup, threads
  <1>7. LowShare'
      BY <1>1, <1>4 DEF IInv, LowShare
  <1> QED  BY <1>4, <1>5, <1>6, <1>7 DEF IInv
-----------------------------------------------------------------------------
(* Steps of a worker.                                                      *)

\* A worker that takes a high job finds no sleeper: the queue was not empty.
LEMMA TakeHighStep == ASSUME IInv, NEW w \in Workers, TakeHigh(w) PROVE IInv'
  <1>1. /\ wpc[w] = "ready" /\ high_q # <<>>
        /\ job' = [job EXCEPT ![w] = Head(high_q)] /\ high_q' = Tail(high_q)
        /\ active_high' = active_high + 1 /\ wpc' = [wpc EXCEPT ![w] = "run"]
        /\ UNCHANGED <<running, low_q, active_low, low_cap, worker_count, done, users, finished>>
      BY DEF TakeHigh
  <1>2. /\ high_q' \in Seq(High) /\ Head(high_q) \in High
        /\ Elements(high_q) = Elements(high_q') \cup {Head(high_q)}
      BY <1>1, TailElements DEF IInv, TypeOK
  <1>3. Head(high_q) \in Jobs /\ Head(high_q) # NoJob /\ Head(high_q) \notin LowTasks
      BY <1>2, JobsAssumption DEF JobsAssumption, Jobs
  <1>4. job[w] = NoJob /\ NoJob \notin High /\ NoJob \notin LowTasks
      BY <1>1, JobsAssumption DEF IInv, CountInv, Working, JobsAssumption, Jobs
  <1>5. /\ job' \in [Workers -> Jobs \cup {NoJob}] /\ wpc' \in [Workers -> States]
        /\ \A x \in Workers : job'[x] = IF x = w THEN Head(high_q) ELSE job[x]
        /\ \A x \in Workers : wpc'[x] = IF x = w THEN "run" ELSE wpc[x]
      BY <1>1, <1>3 DEF IInv, TypeOK, States
  <1>6. LowBusy' = LowBusy /\ HighBusy' = HighBusy \cup {w} /\ w \notin HighBusy
      BY <1>2, <1>3, <1>4, <1>5 DEF LowBusy, HighBusy, Busy
  <1>7. CountInv'
    <2>1. Cardinality(HighBusy') = Cardinality(HighBusy) + 1
        BY <1>6, BusyFinite, FS_AddElement
    <2>2. \A x \in Workers : job'[x] # NoJob <=> wpc'[x] \in Working
        BY <1>3, <1>5 DEF IInv, CountInv, Working
    <2> QED  BY <1>1, <1>6, <2>1, <2>2 DEF IInv, CountInv
  <1>8. TypeOK'
    <2>1. active_high' \in Nat
        BY <1>1, Parts
    <2>2. running' = running /\ main' = main /\ served' = served /\ sent' = sent /\ stops' = stops
        BY <1>1 DEF users
    <2> QED  BY <1>1, <1>2, <1>5, <2>1, <2>2, Zenon DEF IInv, TypeOK, States
  <1>9. PhaseInv'
      BY <1>1, <1>5 DEF IInv, PhaseInv, users
  <1>10. JobInv'
    <2>1. NoJob \notin sent /\ sent' = sent /\ finished' = finished /\ low_q' = low_q
        BY <1>1, JobsAssumption, Zenon DEF IInv, TypeOK, JobsAssumption, users
    <2>2. ASSUME NEW j \in sent, NEW x \in Workers, job[x] = j PROVE job'[x] = j
        BY <1>4, <1>5, <2>1, <2>2
    <2>3. job'[w] = Head(high_q)
        BY <1>5
    <2>4. ASSUME NEW j \in sent
          PROVE  \/ j \in finished \/ j \in Elements(high_q') \/ j \in Elements(low_q')
                 \/ \E x \in Workers : job'[x] = j
        BY <1>2, <2>1, <2>2, <2>3 DEF IInv, JobInv
    <2>5. \A x \in Workers : wpc'[x] = "ran" => job'[x] \in finished
        BY <1>5 DEF IInv, JobInv
    <2> QED  BY <2>1, <2>4, <2>5 DEF JobInv
  <1>11. NoMissedWakeup'
    <2>1. active_high' # 0
        BY <1>1, Parts
    <2>2. \A x \in Workers : wpc[x] # "asleep"
        BY <1>1 DEF IInv, NoMissedWakeup
    <2> QED  BY <1>1, <1>5, <2>1, <2>2 DEF IInv, NoMissedWakeup, HighIdle
  <1>12. LowShare'
      BY <1>1, <1>6 DEF IInv, LowShare
  <1> QED  BY <1>7, <1>8, <1>9, <1>10, <1>11, <1>12 DEF IInv

\* A worker takes a low job only below the cap.
LEMMA TakeLowStep == ASSUME IInv, NEW w \in Workers, TakeLow(w) PROVE IInv'
  <1>1. /\ wpc[w] = "ready" /\ low_q # <<>> /\ CanTakeLow
        /\ job' = [job EXCEPT ![w] = Head(low_q)] /\ low_q' = Tail(low_q)
        /\ active_low' = active_low + 1 /\ wpc' = [wpc EXCEPT ![w] = "run"]
        /\ UNCHANGED <<running, high_q, active_high, low_cap, worker_count, done, users, finished>>
      BY DEF TakeLow, CanTakeLow
  <1>2. /\ low_q' \in Seq(LowTasks) /\ Head(low_q) \in LowTasks
        /\ Elements(low_q) = Elements(low_q') \cup {Head(low_q)}
      BY <1>1, TailElements DEF IInv, TypeOK
  <1>3. Head(low_q) \in Jobs /\ Head(low_q) # NoJob /\ Head(low_q) \notin High
      BY <1>2, JobsAssumption DEF JobsAssumption, Jobs
  <1>4. job[w] = NoJob /\ NoJob \notin High /\ NoJob \notin LowTasks
      BY <1>1, JobsAssumption DEF IInv, CountInv, Working, JobsAssumption, Jobs
  <1>5. /\ job' \in [Workers -> Jobs \cup {NoJob}] /\ wpc' \in [Workers -> States]
        /\ \A x \in Workers : job'[x] = IF x = w THEN Head(low_q) ELSE job[x]
        /\ \A x \in Workers : wpc'[x] = IF x = w THEN "run" ELSE wpc[x]
      BY <1>1, <1>3 DEF IInv, TypeOK, States
  <1>6. HighBusy' = HighBusy /\ LowBusy' = LowBusy \cup {w} /\ w \notin LowBusy
      BY <1>2, <1>3, <1>4, <1>5 DEF LowBusy, HighBusy, Busy
  <1>7. Cardinality(LowBusy') = Cardinality(LowBusy) + 1
      BY <1>6, BusyFinite, FS_AddElement
  <1>8. CountInv'
    <2>1. \A x \in Workers : job'[x] # NoJob <=> wpc'[x] \in Working
        BY <1>3, <1>5 DEF IInv, CountInv, Working
    <2> QED  BY <1>1, <1>6, <1>7, <2>1 DEF IInv, CountInv
  <1>9. TypeOK'
    <2>1. active_low' \in Nat
        BY <1>1, Parts
    <2>2. running' = running /\ main' = main /\ served' = served /\ sent' = sent /\ stops' = stops
        BY <1>1 DEF users
    <2> QED  BY <1>1, <1>2, <1>5, <2>1, <2>2, Zenon DEF IInv, TypeOK, States
  <1>10. PhaseInv'
      BY <1>1, <1>5 DEF IInv, PhaseInv, users
  <1>11. JobInv'
    <2>1. NoJob \notin sent /\ sent' = sent /\ finished' = finished /\ high_q' = high_q
        BY <1>1, JobsAssumption, Zenon DEF IInv, TypeOK, JobsAssumption, users
    <2>2. ASSUME NEW j \in sent, NEW x \in Workers, job[x] = j PROVE job'[x] = j
        BY <1>4, <1>5, <2>1, <2>2
    <2>3. job'[w] = Head(low_q)
        BY <1>5
    <2>4. ASSUME NEW j \in sent
          PROVE  \/ j \in finished \/ j \in Elements(high_q') \/ j \in Elements(low_q')
                 \/ \E x \in Workers : job'[x] = j
        BY <1>2, <2>1, <2>2, <2>3 DEF IInv, JobInv
    <2>5. \A x \in Workers : wpc'[x] = "ran" => job'[x] \in finished
        BY <1>5 DEF IInv, JobInv
    <2> QED  BY <2>1, <2>4, <2>5 DEF JobInv
  <1>12. NoMissedWakeup'
    <2>1. \A x \in Workers : wpc[x] # "asleep"
        BY <1>1 DEF IInv, NoMissedWakeup
    <2> QED  BY <1>1, <1>5, <2>1 DEF IInv, NoMissedWakeup, HighIdle
  <1>13. LowShare'
      BY <1>1, <1>7, Parts DEF LowShare, CanTakeLow
  <1> QED  BY <1>8, <1>9, <1>10, <1>11, <1>12, <1>13 DEF IInv

\* The worker looks, sleeps, works or leaves, and keeps its job.
LEMMA SameQueues ==
    ASSUME IInv, NEW w \in Workers, NEW to \in States \ {"off"}, UNCHANGED <<locked, job, users>>,
           wpc' = [wpc EXCEPT ![w] = to], done' \subseteq Tickets,
           finished \subseteq finished', finished' \subseteq Jobs,
           wpc[w] # "off",
           to \in Working <=> wpc[w] \in Working,
           to = "ran" => job[w] \in finished',
           to = "asleep" => running /\ high_q = <<>> /\ ~CanTakeLow,
           to = "yield asleep" => ~HighIdle
    PROVE  IInv'
  <1>1. /\ wpc' \in [Workers -> States]
        /\ \A x \in Workers : wpc'[x] = IF x = w THEN to ELSE wpc[x]
      BY DEF IInv, TypeOK, States
  <1>2. \A x \in Workers : wpc'[x] \in Working <=> wpc[x] \in Working
      BY <1>1
  <1>3. job' = job /\ active_high' = active_high /\ active_low' = active_low /\ low_cap' = low_cap
      BY DEF locked
  <1>4. CountInv' /\ LowBusy' = LowBusy
      BY <1>2, <1>3, SameJobs
  <1>5. TypeOK'
      BY <1>1 DEF IInv, TypeOK, States, locked, users
  <1>6. PhaseInv'
      BY <1>1 DEF IInv, PhaseInv, locked, users
  <1>7. JobInv'
      BY <1>1 DEF IInv, JobInv, locked, users
  <1>8. NoMissedWakeup'
      BY <1>1 DEF IInv, NoMissedWakeup, locked, HighIdle, CanTakeLow
  <1>9. LowShare'
      BY <1>3, <1>4 DEF IInv, LowShare
  <1> QED  BY <1>4, <1>5, <1>6, <1>7, <1>8, <1>9 DEF IInv

\* A worker that leaves with low jobs queued leaves one that is running a low job.
LEMMA ExitStep == ASSUME IInv, NEW w \in Workers, Exit(w) PROVE IInv'
  <1>1. /\ wpc[w] = "ready" /\ ~running /\ high_q = <<>> /\ ~CanTakeLow
        /\ wpc' = [wpc EXCEPT ![w] = "off"] /\ UNCHANGED <<locked, done, job, users, finished>>
      BY DEF Exit
  <1>2. /\ wpc' \in [Workers -> States]
        /\ \A x \in Workers : wpc'[x] = IF x = w THEN "off" ELSE wpc[x]
      BY <1>1 DEF IInv, TypeOK, States
  <1>3. \A x \in Workers : wpc'[x] \in Working <=> wpc[x] \in Working
      BY <1>1, <1>2 DEF Working
  <1>4. job' = job /\ active_high' = active_high /\ active_low' = active_low /\ low_cap' = low_cap
      BY <1>1 DEF locked
  <1>5. CountInv' /\ LowBusy' = LowBusy
      BY <1>3, <1>4, SameJobs
  <1>6. TypeOK'
      BY <1>1, <1>2 DEF IInv, TypeOK, States, locked, users
  <1>7. PhaseInv'
    <2>1. main = "stopping" /\ main' = main /\ high_q' = <<>> /\ low_q' = low_q /\ running' = running
      <3>1. main \in {"new", "up", "stopping", "down"}
          BY DEF IInv, TypeOK
      <3>2. main # "up" /\ main # "new" /\ main # "down"
          BY <1>1 DEF IInv, PhaseInv
      <3> QED  BY <1>1, <3>1, <3>2 DEF locked, users
    <2>2. ASSUME low_q # <<>> PROVE \E x \in Workers : wpc'[x] # "off"
      <3>1. low_cap > 0 /\ active_low >= low_cap
          BY <1>1, <2>2, Parts DEF CanTakeLow
      <3>2. LowBusy # {}
        <4>1. Cardinality(LowBusy) # 0
            BY <3>1, Parts
        <4> QED  BY <4>1, FS_EmptySet
      <3>3. PICK x \in Workers : job[x] # NoJob
          BY <3>2 DEF LowBusy, Busy
      <3>4. wpc[x] \in Working
          BY <3>3 DEF IInv, CountInv
      <3> QED  BY <1>1, <1>2, <3>4 DEF Working
    <2> QED  BY <1>1, <2>1, <2>2 DEF PhaseInv, IInv
  <1>8. JobInv' /\ NoMissedWakeup'
      BY <1>1, <1>2 DEF IInv, JobInv, NoMissedWakeup, locked, users, HighIdle, CanTakeLow
  <1>9. LowShare'
      BY <1>4, <1>5 DEF IInv, LowShare
  <1> QED  BY <1>5, <1>6, <1>7, <1>8, <1>9 DEF IInv

\* A worker gives its own quota back, so neither counter goes below zero.
LEMMA ReleaseStep == ASSUME IInv, NEW w \in Workers, Release(w) PROVE IInv'
  <1>1. /\ wpc[w] = "ran"
        /\ job' = [job EXCEPT ![w] = NoJob]
        /\ wpc' = Notified([wpc EXCEPT ![w] = "ready"])
        /\ UNCHANGED <<running, high_q, low_q, low_cap, worker_count, done, users, finished>>
      BY DEF Release
  <1>2. /\ wpc' \in [Workers -> States]
        /\ \A x \in Workers : /\ wpc'[x] \notin {"asleep", "yield asleep"}
                              /\ wpc'[x] = "off" <=> wpc[x] = "off"
                              /\ wpc'[x] = "ran" => wpc[x] = "ran"
                              /\ wpc'[x] \in Working <=> x # w /\ wpc[x] \in Working
    <2> DEFINE p == [wpc EXCEPT ![w] = "ready"]
    <2>1. p \in [Workers -> States] /\ \A x \in Workers : p[x] = IF x = w THEN "ready" ELSE wpc[x]
        BY DEF IInv, TypeOK, States
    <2>2. wpc' = Notified(p)
        BY <1>1
    <2> HIDE DEF p
    <2>3. /\ Notified(p) \in [Workers -> States]
          /\ \A x \in Workers : /\ Notified(p)[x] \notin {"asleep", "yield asleep"}
                                /\ Notified(p)[x] = "off" <=> p[x] = "off"
                                /\ Notified(p)[x] = "ran" <=> p[x] = "ran"
                                /\ Notified(p)[x] \in Working <=> p[x] \in Working
        BY <2>1, NotifiedOK
    <2> QED  BY <1>1, <2>1, <2>2, <2>3 DEF Working
  <1>3. /\ job' \in [Workers -> Jobs \cup {NoJob}]
        /\ \A x \in Workers : job'[x] = IF x = w THEN NoJob ELSE job[x]
      BY <1>1 DEF IInv, TypeOK
  <1>4. job[w] # NoJob /\ job[w] \in Jobs
      BY <1>1 DEF IInv, TypeOK, CountInv, Working
  <1>5. NoJob \notin High /\ NoJob \notin LowTasks /\ High \cap LowTasks = {}
      BY JobsAssumption DEF JobsAssumption, Jobs
  <1>6. HighBusy' = HighBusy \ {w} /\ LowBusy' = LowBusy \ {w}
      BY <1>3, <1>5 DEF HighBusy, LowBusy, Busy
  <1>7. /\ Cardinality(HighBusy') = active_high' /\ active_high' \in Nat
        /\ Cardinality(LowBusy') = active_low' /\ active_low' \in Nat
        /\ Cardinality(LowBusy') <= Cardinality(LowBusy)
    <2>1. CASE job[w] \in High
      <3>1. w \in HighBusy /\ w \notin LowBusy
          BY <1>4, <1>5, <2>1 DEF HighBusy, LowBusy, Busy
      <3>2. /\ Cardinality(HighBusy \ {w}) = Cardinality(HighBusy) - 1
            /\ Cardinality(LowBusy \ {w}) = Cardinality(LowBusy)
            /\ Cardinality(HighBusy) # 0
          BY <3>1, BusyFinite, FS_RemoveElement, FS_EmptySet
      <3>3. active_high' = active_high - 1 /\ active_low' = active_low
          BY <2>1 DEF Release
      <3> QED  BY <1>6, <3>2, <3>3, BusyFinite, Parts
    <2>2. CASE job[w] \notin High
      <3>1. w \notin HighBusy /\ w \in LowBusy
          BY <1>4, <1>5, <2>2 DEF HighBusy, LowBusy, Busy, Jobs
      <3>2. /\ Cardinality(LowBusy \ {w}) = Cardinality(LowBusy) - 1
            /\ Cardinality(HighBusy \ {w}) = Cardinality(HighBusy)
            /\ Cardinality(LowBusy) # 0
          BY <3>1, BusyFinite, FS_RemoveElement, FS_EmptySet
      <3>3. active_low' = active_low - 1 /\ active_high' = active_high
          BY <2>2 DEF Release
      <3> QED  BY <1>6, <3>2, <3>3, BusyFinite, Parts
    <2> QED  BY <2>1, <2>2
  <1>8. CountInv'
    <2>1. \A x \in Workers : job'[x] # NoJob <=> wpc'[x] \in Working
        BY <1>2, <1>3 DEF IInv, CountInv
    <2> QED  BY <1>7, <2>1 DEF CountInv
  <1>9. TypeOK'
      BY <1>1, <1>2, <1>3, <1>7 DEF IInv, TypeOK, States, users
  <1>10. PhaseInv'
      BY <1>1, <1>2 DEF IInv, PhaseInv, users
  <1>11. JobInv'
    <2>1. \A x \in Workers : wpc'[x] = "ran" => job'[x] \in finished'
        BY <1>1, <1>2, <1>3 DEF IInv, JobInv, Working
    <2>2. job[w] \in finished
        BY <1>1 DEF IInv, JobInv
    <2> QED  BY <1>1, <1>3, <2>1, <2>2 DEF IInv, JobInv, users
  <1>12. NoMissedWakeup'
      BY <1>2 DEF NoMissedWakeup
  <1>13. LowShare'
      BY <1>1, <1>7, BusyFinite, Parts DEF LowShare
  <1> QED  BY <1>8, <1>9, <1>10, <1>11, <1>12, <1>13 DEF IInv

\* Every step of a worker keeps the invariant.
LEMMA LoopStep == ASSUME IInv, NEW w \in Workers, Loop(w) PROVE IInv'
  <1>1. job[w] \in Jobs \cup {NoJob} /\ done \subseteq Tickets /\ finished \subseteq Jobs
      BY DEF IInv, TypeOK
  <1>2. wpc[w] \in Working => job[w] \in Jobs
      BY <1>1 DEF IInv, CountInv
  <1>3. CASE Sleep(w)
      BY <1>1, <1>3, SameQueues DEF Sleep, States, Working
  <1>4. CASE Read(w)
      BY <1>1, <1>2, <1>4, SameQueues DEF Read, States, Working
  <1>5. CASE Task(w)
      BY <1>1, <1>2, <1>5, SameQueues DEF Task, States, Working
  <1>6. CASE YieldingTask(w)
      BY <1>1, <1>6, SameQueues DEF YieldingTask, States, Working
  <1>7. CASE YieldReturn(w)
      BY <1>1, <1>2, <1>7, SameQueues DEF YieldReturn, States, Working
  <1>8. CASE YieldSleep(w)
      BY <1>1, <1>8, SameQueues DEF YieldSleep, States, Working
  <1> QED  BY <1>3, <1>4, <1>5, <1>6, <1>7, <1>8, TakeHighStep, TakeLowStep, ExitStep, ReleaseStep DEF Loop

\* The invariant is inductive.
LEMMA IInvStep == IInv /\ [Next]_vars => IInv'
  <1> SUFFICES ASSUME IInv, [Next]_vars PROVE IInv'
      OBVIOUS
  <1>1. CASE UNCHANGED vars
      BY <1>1 DEF vars, IInv, locked, threads, users, TypeOK, CountInv, HighBusy, LowBusy, Busy, PhaseInv,
                  JobInv, NoMissedWakeup, HighIdle, CanTakeLow, LowShare
  <1>2. CASE Next
      BY <1>2, StartStep, SubmitStep, WaitAllStep, StopStep, JoinedStep, LoopStep DEF Next
  <1> QED  BY <1>1, <1>2
-----------------------------------------------------------------------------
\* The reader is well typed; neither of its counters goes below zero.
THEOREM TypeCorrect == Spec => []TypeOK
  <1>1. IInv => TypeOK
      BY DEF IInv
  <1> QED  BY <1>1, InitIInv, IInvStep, PTL DEF Spec

\* Predictions occupy at most low_cap workers, for any number of workers and
\* jobs, over stops and restarts too.
THEOREM PredictionsKeepToTheirShare == Spec => []LowShare
  <1>1. IInv => LowShare
      BY DEF IInv
  <1> QED  BY <1>1, InitIInv, IInvStep, PTL DEF Spec

\* No worker, and no task that yields to demand reads, sleeps on m_ while its
\* condition holds: every submission, release and stop wakes whom it concerns.
THEOREM NobodySleepsOverWork == Spec => []NoMissedWakeup
  <1>1. IInv => NoMissedWakeup
      BY DEF IInv
  <1> QED  BY <1>1, InitIInv, IInvStep, PTL DEF Spec

\* When stop() has joined its threads, every job submitted so far has run.
THEOREM StopLosesNothing == Spec => []StopDrains
  <1>1. IInv => StopDrains
    <2> SUFFICES ASSUME IInv, main = "down" PROVE sent \subseteq finished
        BY DEF StopDrains
    <2>1. Elements(high_q) = {} /\ Elements(low_q) = {}
        BY EmptyElements DEF IInv, PhaseInv
    <2>2. \A w \in Workers : job[w] = NoJob
        BY DEF IInv, PhaseInv, CountInv, Working
    <2>3. NoJob \notin sent
        BY JobsAssumption DEF IInv, TypeOK, JobsAssumption
    <2> QED  BY <2>1, <2>2, <2>3 DEF IInv, JobInv
  <1> QED  BY <1>1, InitIInv, IInvStep, PTL DEF Spec
=============================================================================
