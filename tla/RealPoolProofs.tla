--------------------------- MODULE RealPoolProofs ---------------------------
(* Machine-checked theorems about RealPool, for every value of its         *)
(* constants.                                                              *)
EXTENDS RealPool, FiniteSetTheorems, TLAPS

-----------------------------------------------------------------------------
(* Type correctness.                                                       *)

LEMMA InitTypeOK == Init => TypeOK
  <1> SUFFICES ASSUME Init PROVE TypeOK
    OBVIOUS
  <1>1. /\ e2r \in RowMap /\ pending_e2r \in RowMap
        /\ entry \in RowMap /\ local \in RowMap
    BY DEF Init, RowMap, NoRows
  <1>2. cb \in [on : BOOLEAN, protect : SUBSET Experts,
               todo : SUBSET Experts, taken : Nat]
    BY DEF Init, CbIdle
  <1>3. /\ content \in [Rows -> Experts \cup {Torn}]
        /\ writers \in [Rows -> SUBSET (Experts \cup {Torn})]
    BY DEF Init
  <1>4. QED  BY <1>1, <1>2, <1>3 DEF Init, TypeOK

\* What the allocator returns, whoever calls it.
LEMMA AllocSlotType ==
  ASSUME TypeOK, NEW e \in Experts, NEW r \in Rows, NEW protect,
         AllocSlot(e, r, protect)
  PROVE  e2r' \in RowMap /\ free_rows' \in SUBSET Rows
         /\ speculative' \in SUBSET Experts
  BY DEF TypeOK, RowMap, AllocSlot

LEMMA WriteBeginType ==
  ASSUME TypeOK, NEW e \in Experts, NEW r, WriteBegin(e, r)
  PROVE  /\ content' \in [Rows -> Experts \cup {Torn}]
         /\ writers' \in [Rows -> SUBSET (Experts \cup {Torn})]
  BY DEF TypeOK, WriteBegin

LEMMA WriteEndType ==
  ASSUME TypeOK, NEW e \in Experts, NEW r, NEW c \in BOOLEAN, WriteEnd(e, r, c)
  PROVE  /\ content' \in [Rows -> Experts \cup {Torn}]
         /\ writers' \in [Rows -> SUBSET (Experts \cup {Torn})]
  <1>1. content' \in [Rows -> Experts \cup {Torn}]
    BY DEF TypeOK, WriteEnd
  <1>2. writers' \in [Rows -> SUBSET (Experts \cup {Torn})]
    BY DEF TypeOK, WriteEnd
  <1>3. QED  BY <1>1, <1>2

LEMMA CallbackTypeOK == TypeOK /\ CallbackNext => TypeOK'
  <1> SUFFICES ASSUME TypeOK, CallbackNext PROVE TypeOK'
    OBVIOUS
  <1>1. ASSUME NEW P \in SUBSET Experts, ReserveBegin(P) PROVE TypeOK'
    BY <1>1 DEF TypeOK, RowMap, ReserveBegin, poolVars, byteVars, demandVars
  <1>2. ASSUME NEW e \in Experts, ReserveStep(e) PROVE TypeOK'
    <2>1. /\ UNCHANGED <<pinned, byteVars, leased, demandVars>>
          /\ cb' = [cb EXCEPT !.todo = @ \ {e}, !.taken = @ + 1]
          /\ stale' \in SUBSET Experts
      BY <1>2 DEF TypeOK, ReserveStep, ReserveRow
    <2>2. cb' \in [on : BOOLEAN, protect : SUBSET Experts,
                   todo : SUBSET Experts, taken : Nat]
      <3>1. cb' = [on |-> cb.on, protect |-> cb.protect,
                   todo |-> cb.todo \ {e}, taken |-> cb.taken + 1]
        BY <2>1 DEF TypeOK
      <3>2. cb.on \in BOOLEAN /\ cb.protect \in SUBSET Experts
            /\ cb.todo \in SUBSET Experts /\ cb.taken \in Nat
        BY DEF TypeOK
      <3>3. QED  BY <3>1, <3>2
    <2>3. e2r' \in RowMap /\ pending_e2r' \in RowMap
          /\ free_rows' \in SUBSET Rows /\ speculative' \in SUBSET Experts
      <3>1. CASE FromFree
        BY <1>2, <3>1 DEF TypeOK, RowMap, ReserveStep, ReserveRow
      <3>2. CASE ~FromFree
        <4>1. PICK v \in PrefetchVictims :
                /\ e2r' = [e2r EXCEPT ![v] = NoRow]
                /\ speculative' = speculative \ {v}
                /\ ReserveRow(e, e2r[v])
          BY <1>2, <3>2 DEF ReserveStep
        <4>2. free_rows' = free_rows
          BY <1>2, <3>2 DEF ReserveStep
        <4>3. v \in Experts
          BY <4>1 DEF PrefetchVictims, SpecVictims, VerifiedVictims, Evictable,
                      Resident
        <4>4. QED
          BY <4>1, <4>2, <4>3 DEF TypeOK, RowMap, ReserveRow
      <3>3. QED  BY <3>1, <3>2
    <2>4. QED
      BY <2>1, <2>2, <2>3 DEF TypeOK, byteVars, demandVars
  <1>3. ASSUME NEW e \in Experts, ReserveSkip(e) PROVE TypeOK'
    BY <1>3 DEF TypeOK, RowMap, ReserveSkip, poolVars, byteVars, demandVars
  <1>4. CASE ReserveEnd
    BY <1>4 DEF TypeOK, RowMap, ReserveEnd, CbIdle, poolVars, byteVars, demandVars
  <1>5. QED  BY <1>1, <1>2, <1>3, <1>4 DEF CallbackNext

LEMMA ReaderTypeOK == TypeOK /\ ReaderNext => TypeOK'
  <1> SUFFICES ASSUME TypeOK, NEW e \in Experts,
                      PrefetchRead(e) \/ PrefetchPublish(e) \/ PrefetchAbort(e)
               PROVE  TypeOK'
    BY DEF ReaderNext
  <1>1. CASE PrefetchRead(e)
    BY <1>1, WriteBeginType
    DEF TypeOK, RowMap, PrefetchRead, poolVars, demandVars
  <1>2. CASE PrefetchPublish(e)
    <2>1. /\ content' \in [Rows -> Experts \cup {Torn}]
          /\ writers' \in [Rows -> SUBSET (Experts \cup {Torn})]
      BY <1>2, WriteEndType DEF PrefetchPublish
    <2>2. QED
      BY <1>2, <2>1 DEF TypeOK, RowMap, PrefetchPublish, demandVars
  <1>3. CASE PrefetchAbort(e)
    <2>1. /\ content' \in [Rows -> Experts \cup {Torn}]
          /\ writers' \in [Rows -> SUBSET (Experts \cup {Torn})]
      BY <1>3, WriteEndType DEF PrefetchAbort, TypeOK, byteVars
    <2>2. free_rows' \in SUBSET Rows
      BY <1>3 DEF TypeOK, RowMap, PrefetchAbort, Pending
    <2>3. QED
      BY <1>3, <2>1, <2>2 DEF TypeOK, RowMap, PrefetchAbort, demandVars
  <1>4. QED  BY <1>1, <1>2, <1>3

LEMMA OverTypeOK ==
  ASSUME TypeOK, DemandOver
  PROVE  /\ pc' = "idle" /\ route' \in SUBSET Experts
         /\ leased' \in SUBSET Rows
         /\ entry' \in RowMap /\ local' \in RowMap
         /\ side' \in SUBSET Experts
         /\ todo' \in SUBSET Experts
         /\ reads' \in SUBSET Experts
  BY DEF TypeOK, DemandOver, RowMap, NoRows

LEMMA DemandTypeOK == TypeOK /\ DemandNext => TypeOK'
  <1> SUFFICES ASSUME TypeOK, DemandNext PROVE TypeOK'
    OBVIOUS
  <1>a. Modes \subseteq {"sync", "async"}
    BY SwitchesAssumption
  <1>b. NoteAccess => speculative' \in SUBSET Experts
    BY DEF TypeOK, NoteAccess
  <1>1. ASSUME NEW R \in SUBSET Experts, NEW m \in Modes, Begin(R, m)
        PROVE  TypeOK'
    BY <1>1, <1>a DEF TypeOK, RowMap, Begin, poolVars, byteVars
  <1>2. ASSUME NEW e \in Experts, Remap(e) PROVE TypeOK'
    BY <1>2 DEF TypeOK, RowMap, Remap, poolVars, byteVars
  <1>3. ASSUME NEW e \in Experts, AllocMiss(e) PROVE TypeOK'
    <2>1. PICK r \in Rows : /\ AllocSlot(e, r, RealNeeded)
                            /\ local' = [local EXCEPT ![e] = r]
      BY <1>3 DEF AllocMiss
    <2>2. e2r' \in RowMap /\ free_rows' \in SUBSET Rows
          /\ speculative' \in SUBSET Experts
      BY <2>1, AllocSlotType
    <2>3. local' \in RowMap
      BY <2>1 DEF TypeOK, RowMap
    <2>4. QED
      BY <1>3, <2>2, <2>3 DEF TypeOK, AllocMiss, byteVars
  <1>4. ASSUME NEW e \in Experts, DemandRead(e) PROVE TypeOK'
    BY <1>4, WriteBeginType
    DEF TypeOK, RowMap, DemandRead, poolVars, demandVars
  <1>5. ASSUME NEW e \in Experts, DemandReadDone(e) PROVE TypeOK'
    BY <1>5, WriteEndType
    DEF TypeOK, RowMap, DemandReadDone, poolVars
  <1>6. CASE HandlerStart
    BY <1>6 DEF TypeOK, RowMap, HandlerStart, Pending, poolVars, byteVars
  <1>7. CASE Join
    BY <1>7 DEF TypeOK, RowMap, Join, poolVars, byteVars
  <1>8. CASE Lookup
    <2>1. side' \in SUBSET Experts /\ local' \in RowMap
      BY <1>8 DEF TypeOK, RowMap, Lookup
    <2>2. QED
      BY <1>8, <2>1 DEF TypeOK, Lookup, poolVars, byteVars
  <1>9. CASE Note
    BY <1>9, <1>b DEF TypeOK, Note, byteVars
  <1>10. CASE Core
    <2>1. local' \in RowMap
      BY <1>10 DEF TypeOK, RowMap, Core
    <2>2. todo' \in SUBSET Experts /\ reads' \in SUBSET Experts
      BY <1>10 DEF TypeOK, Core, RealNeeded
    <2>3. QED
      BY <1>10, <1>b, <2>1, <2>2 DEF TypeOK, Core, byteVars
  <1>11. CASE CoreOverCap
    BY <1>11, <1>b, OverTypeOK DEF TypeOK, CoreOverCap, byteVars
  <1>12. CASE AllocThrow
    BY <1>12, OverTypeOK DEF TypeOK, AllocThrow, poolVars, byteVars
  <1>13. CASE Retire
    BY <1>13, OverTypeOK DEF TypeOK, Retire, poolVars, byteVars
  <1>14. CASE ReleaseLeases
    BY <1>14 DEF TypeOK, RowMap, ReleaseLeases, poolVars, byteVars, demandVars
  <1>15. CASE StatsReset
    BY <1>15 DEF TypeOK, StatsReset, poolVars, byteVars
  <1>16. QED
    BY <1>1, <1>2, <1>3, <1>4, <1>5, <1>6, <1>7, <1>8, <1>9, <1>10, <1>11,
       <1>12, <1>13, <1>14, <1>15 DEF DemandNext

LEMMA PinTypeOK == TypeOK /\ PinNext => TypeOK'
  <1> SUFFICES ASSUME TypeOK, PinNext PROVE TypeOK'
    OBVIOUS
  <1>1. ASSUME NEW S \in SUBSET Experts, PinBegin(S) PROVE TypeOK'
    <2>1. local' \in RowMap
      BY <1>1 DEF TypeOK, RowMap, PinBegin
    <2>2. QED
      BY <1>1, <2>1 DEF TypeOK, PinBegin, byteVars
  <1>2. ASSUME NEW e \in Experts, PinAlloc(e) PROVE TypeOK'
    <2>1. PICK r \in Rows : /\ AllocSlot(e, r, route)
                            /\ local' = [local EXCEPT ![e] = r]
      BY <1>2 DEF PinAlloc
    <2>2. e2r' \in RowMap /\ free_rows' \in SUBSET Rows
          /\ speculative' \in SUBSET Experts
      BY <2>1, AllocSlotType
    <2>3. local' \in RowMap
      BY <2>1 DEF TypeOK, RowMap
    <2>4. QED
      BY <1>2, <2>2, <2>3 DEF TypeOK, PinAlloc, byteVars
  <1>3. CASE PinThrow
    BY <1>3, OverTypeOK DEF TypeOK, PinThrow, poolVars, byteVars
  <1>4. CASE PinWrite
    <2> DEFINE owner(r) == CHOOSE e \in route : local[e] = r
               rows == {local[e] : e \in route}
    <2>1. \A r \in rows : owner(r) \in Experts
      BY DEF TypeOK
    <2>2. content' = [r \in Rows |->
              IF r \notin rows THEN content[r]
              ELSE IF writers[r] = {} THEN owner(r) ELSE Torn]
      BY <1>4 DEF PinWrite
    <2>3. content' \in [Rows -> Experts \cup {Torn}]
      BY <2>1, <2>2 DEF TypeOK
    <2>4. writers' \in [Rows -> SUBSET (Experts \cup {Torn})]
      BY <1>4 DEF TypeOK, PinWrite
    <2>5. QED
      BY <1>4, <2>3, <2>4, OverTypeOK DEF TypeOK, PinWrite, poolVars
  <1>5. QED  BY <1>1, <1>2, <1>3, <1>4 DEF PinNext

\* The variables stay in their types, whatever the pool's size, its bounds
\* and the order of callbacks, readers, demands and pins.
THEOREM TypeCorrect == Spec => []TypeOK
  <1>1. TypeOK /\ [Next]_vars => TypeOK'
    <2> SUFFICES ASSUME TypeOK, [Next]_vars PROVE TypeOK'
      OBVIOUS
    <2>1. CASE UNCHANGED vars
      BY <2>1 DEF TypeOK, RowMap, vars, poolVars, byteVars, demandVars
    <2>2. QED
      BY <2>1, CallbackTypeOK, ReaderTypeOK, DemandTypeOK, PinTypeOK DEF Next
  <1>2. QED  BY InitTypeOK, <1>1, PTL DEF Spec

-----------------------------------------------------------------------------
(* Exclusive ownership of rows.                                            *)

\* The allocator hands out a row nobody else keeps: one off the free list,
\* or the row of the expert it evicts.
LEMMA AllocSlotExclusive ==
  ASSUME TypeOK, RowExclusive, NEW e \in Experts, NEW r \in Rows, NEW protect,
         AllocSlot(e, r, protect), pending_e2r' = pending_e2r
  PROVE  RowExclusive'
  <1> USE RowsAssumption DEF TypeOK, RowMap, RowExclusive, Resident, Pending
  <1>1. CASE r \in free_rows /\ free_rows' = free_rows \ {r}
             /\ e2r' = [e2r EXCEPT ![e] = r]
    BY <1>1
  <1>2. CASE /\ free_rows' = free_rows
             /\ \E v \in DemandVictims(protect) :
                  /\ r = e2r[v]
                  /\ e2r' = [e2r EXCEPT ![v] = NoRow, ![e] = r]
    <2>1. PICK v \in DemandVictims(protect) :
                 /\ r = e2r[v]
                 /\ e2r' = [e2r EXCEPT ![v] = NoRow, ![e] = r]
      BY <1>2
    <2>2. v \in Experts
      BY <2>1 DEF DemandVictims, Evictable
    <2>3. QED  BY <1>2, <2>1, <2>2
  <1>3. QED  BY <1>1, <1>2 DEF AllocSlot

LEMMA SameRowsExclusive ==
  ASSUME RowExclusive, UNCHANGED <<e2r, pending_e2r, free_rows>>
  PROVE  RowExclusive'
  BY DEF RowExclusive, Resident, Pending

LEMMA CallbackExclusive == TypeOK /\ RowExclusive /\ CallbackNext => RowExclusive'
  <1> SUFFICES ASSUME TypeOK, RowExclusive, CallbackNext PROVE RowExclusive'
    OBVIOUS
  <1>1. ASSUME NEW e \in Experts, ReserveStep(e) PROVE RowExclusive'
    <2> USE RowsAssumption DEF TypeOK, RowMap, RowExclusive, Resident, Pending
    <2>1. CASE FromFree
      <3>1. PICK r \in free_rows :
              /\ free_rows' = free_rows \ {r}
              /\ pending_e2r' = [pending_e2r EXCEPT ![e] = r]
              /\ e2r' = e2r
        BY <1>1, <2>1 DEF ReserveStep, ReserveRow
      <3>2. QED  BY <3>1
    <2>2. CASE ~FromFree
      <3>1. PICK v \in PrefetchVictims :
              /\ e2r' = [e2r EXCEPT ![v] = NoRow]
              /\ pending_e2r' = [pending_e2r EXCEPT ![e] = e2r[v]]
              /\ free_rows' = free_rows
        BY <1>1, <2>2 DEF ReserveStep, ReserveRow
      <3>2. v \in Resident
        BY <3>1 DEF PrefetchVictims, SpecVictims, VerifiedVictims, Evictable
      <3>3. QED  BY <3>1, <3>2
    <2>3. QED  BY <2>1, <2>2
  <1>2. ASSUME ~\E e \in Experts : ReserveStep(e) PROVE RowExclusive'
    BY <1>2, SameRowsExclusive
    DEF CallbackNext, ReserveBegin, ReserveSkip, ReserveEnd, poolVars
  <1>3. QED  BY <1>1, <1>2

LEMMA ReaderExclusive == TypeOK /\ RowExclusive /\ ReaderNext => RowExclusive'
  <1> SUFFICES ASSUME TypeOK, RowExclusive, NEW e \in Experts,
                      PrefetchRead(e) \/ PrefetchPublish(e) \/ PrefetchAbort(e)
               PROVE  RowExclusive'
    BY DEF ReaderNext
  <1>1. CASE PrefetchRead(e)
    BY <1>1, SameRowsExclusive DEF PrefetchRead, poolVars
  <1>2. CASE PrefetchPublish(e)
    <2>1. /\ pending_e2r[e] # NoRow
          /\ e2r' = [e2r EXCEPT ![e] = pending_e2r[e]]
          /\ pending_e2r' = [pending_e2r EXCEPT ![e] = NoRow]
          /\ free_rows' = free_rows
      BY <1>2 DEF PrefetchPublish, Pending
    <2>2. QED
      BY <2>1, RowsAssumption
      DEF TypeOK, RowMap, RowExclusive, Resident, Pending
  <1>3. CASE PrefetchAbort(e)
    <2>1. /\ pending_e2r[e] # NoRow
          /\ e2r' = e2r
          /\ pending_e2r' = [pending_e2r EXCEPT ![e] = NoRow]
          /\ free_rows' = free_rows \cup {pending_e2r[e]}
      BY <1>3 DEF PrefetchAbort, Pending
    <2>2. QED
      BY <2>1, RowsAssumption
      DEF TypeOK, RowMap, RowExclusive, Resident, Pending
  <1>4. QED  BY <1>1, <1>2, <1>3

LEMMA DemandExclusive ==
  TypeOK /\ RowExclusive /\ (DemandNext \/ PinNext) => RowExclusive'
  <1> SUFFICES ASSUME TypeOK, RowExclusive, DemandNext \/ PinNext
               PROVE  RowExclusive'
    OBVIOUS
  <1>1. ASSUME NEW e \in Experts, AllocMiss(e) PROVE RowExclusive'
    BY <1>1, AllocSlotExclusive DEF AllocMiss
  <1>2. ASSUME NEW e \in Experts, PinAlloc(e) PROVE RowExclusive'
    BY <1>2, AllocSlotExclusive DEF PinAlloc
  <1>3. ASSUME ~\E e \in Experts : AllocMiss(e) \/ PinAlloc(e)
        PROVE  RowExclusive'
    <2>1. UNCHANGED <<e2r, pending_e2r, free_rows>>
      BY <1>3 DEF DemandNext, PinNext, Begin, Remap, HandlerStart, Join,
           Lookup, Note, Core, CoreOverCap, AllocThrow, DemandRead,
           DemandReadDone, Retire, ReleaseLeases, StatsReset, PinBegin, PinThrow, PinWrite,
           poolVars
    <2>2. QED  BY <2>1, SameRowsExclusive
  <1>4. QED  BY <1>1, <1>2, <1>3

\* No physical row is ever owned twice, for any pool, any bounds, and even
\* when prediction callbacks run after their target's demand has started.
THEOREM RowsExclusive == Spec => []RowExclusive
  <1>1. Init => RowExclusive
    BY RowsAssumption
    DEF Init, RowExclusive, NoRows, Resident, Pending
  <1>2. TypeOK /\ RowExclusive /\ [Next]_vars => RowExclusive'
    <2> SUFFICES ASSUME TypeOK, RowExclusive, [Next]_vars PROVE RowExclusive'
      OBVIOUS
    <2>1. CASE UNCHANGED vars
      BY <2>1, SameRowsExclusive DEF vars, poolVars
    <2>2. QED
      BY <2>1, CallbackExclusive, ReaderExclusive, DemandExclusive DEF Next
  <1>3. QED  BY <1>1, <1>2, TypeCorrect, PTL DEF Spec

-----------------------------------------------------------------------------
(* No row is lost when late callbacks spare the route and pins wait for    *)
(* reads in flight.                                                        *)

\* Giving a row to an expert that has none loses no row.
LEMMA AllocSlotKeepsRows ==
  ASSUME TypeOK, RowExclusive, NoRowLost, NEW e \in Experts, NEW r \in Rows,
         NEW protect, AllocSlot(e, r, protect), pending_e2r' = pending_e2r,
         e \notin Resident
  PROVE  /\ NoRowLost'
         /\ \A f \in Experts : f # e => (e2r'[f] # NoRow => e2r[f] # NoRow)
  <1> USE RowsAssumption DEF TypeOK, RowMap, NoRowLost, Resident
  <1>1. CASE /\ r \in free_rows /\ free_rows' = free_rows \ {r}
             /\ e2r' = [e2r EXCEPT ![e] = r]
    <2>1. \A f \in Experts : e2r'[f] = IF f = e THEN r ELSE e2r[f]
      BY <1>1
    <2>2. NoRowLost'
      BY <1>1, <2>1
    <2>3. QED  BY <2>1, <2>2
  <1>2. CASE /\ free_rows' = free_rows
             /\ \E v \in DemandVictims(protect) :
                  /\ r = e2r[v]
                  /\ e2r' = [e2r EXCEPT ![v] = NoRow, ![e] = r]
    <2>1. PICK v \in DemandVictims(protect) :
                 /\ r = e2r[v]
                 /\ e2r' = [e2r EXCEPT ![v] = NoRow, ![e] = r]
      BY <1>2
    <2>2. v \in Resident
      BY <2>1 DEF DemandVictims, Evictable
    <2>3. \A f \in Experts : e2r'[f] = IF f = e THEN r
                                       ELSE IF f = v THEN NoRow ELSE e2r[f]
      BY <2>1, <2>2
    <2>4. NoRowLost'
      BY <1>2, <2>1, <2>2, <2>3
    <2>5. QED  BY <2>3, <2>4
  <1>3. QED  BY <1>1, <1>2 DEF AllocSlot

LEMMA OneRowInit == Init => OneRowInv
  BY RowsAssumption
  DEF Init, OneRowInv, NoRowLost, NoRows, CbIdle, Resident, Pending

LEMMA CallbackOneRow ==
  ASSUME LateSparesRoute, TypeOK, RowExclusive, OneRowInv, CallbackNext
  PROVE  OneRowInv'
  <1> USE RowsAssumption DEF TypeOK, RowMap, Resident, Pending, NoRowLost
  <1>1. ASSUME NEW P \in SUBSET Experts, ReserveBegin(P) PROVE OneRowInv'
    BY <1>1 DEF ReserveBegin, LockFree, OneRowInv, poolVars, demandVars
  <1>2. ASSUME NEW e \in Experts, ReserveStep(e) PROVE OneRowInv'
    <2>1. /\ cb.on /\ e \in cb.todo /\ e2r[e] = NoRow /\ pending_e2r[e] = NoRow
          /\ pc \notin {"alloc", "pin"}
          /\ cb' = [cb EXCEPT !.todo = @ \ {e}, !.taken = @ + 1]
          /\ UNCHANGED <<pc, route, todo>>
      BY <1>2 DEF ReserveStep, ReserveRow, OneRowInv, demandVars
    <2>2. cb'.on /\ cb'.todo = cb.todo \ {e}
      BY <2>1
    <2>3. PICK r \in Rows :
            /\ pending_e2r' = [pending_e2r EXCEPT ![e] = r]
            /\ \/ e2r' = e2r /\ free_rows' = free_rows \ {r}
               \/ /\ free_rows' = free_rows
                  /\ \E v \in Experts : e2r[v] = r
                                        /\ e2r' = [e2r EXCEPT ![v] = NoRow]
      <3>1. CASE FromFree
        BY <1>2, <3>1 DEF ReserveStep, ReserveRow
      <3>2. CASE ~FromFree
        <4>1. PICK v \in PrefetchVictims :
                /\ e2r' = [e2r EXCEPT ![v] = NoRow]
                /\ pending_e2r' = [pending_e2r EXCEPT ![e] = e2r[v]]
                /\ free_rows' = free_rows
          BY <1>2, <3>2 DEF ReserveStep, ReserveRow
        <4>2. v \in Resident
          BY <4>1 DEF PrefetchVictims, SpecVictims, VerifiedVictims, Evictable
        <4>3. QED  BY <4>1, <4>2
      <3>3. QED  BY <3>1, <3>2
    <2>4. NoRowLost'
      BY <2>1, <2>3 DEF OneRowInv
    <2>5. \A f \in Experts : /\ e2r'[f] # NoRow => e2r[f] # NoRow
                             /\ f # e => pending_e2r'[f] = pending_e2r[f]
      BY <2>3
    <2>6. pc \in {"lookup", "core"} => e \notin route
      <3>1. pending_e2r'[e] # pending_e2r[e]
        BY <2>1, <2>3
      <3>2. QED  BY <2>1, <3>1 DEF LateSparesRoute
    <2>7. QED  BY <2>1, <2>2, <2>4, <2>5, <2>6 DEF OneRowInv
  <1>3. ASSUME NEW e \in Experts, ReserveSkip(e) PROVE OneRowInv'
    BY <1>3 DEF ReserveSkip, OneRowInv, poolVars, demandVars
  <1>4. CASE ReserveEnd
    BY <1>4 DEF ReserveEnd, CbIdle, OneRowInv, poolVars, demandVars
  <1>5. QED  BY <1>1, <1>2, <1>3, <1>4 DEF CallbackNext

LEMMA ReaderOneRow ==
  ASSUME TypeOK, RowExclusive, OneRowInv, ReaderNext
  PROVE  OneRowInv'
  <1> PICK e \in Experts : PrefetchRead(e) \/ PrefetchPublish(e) \/ PrefetchAbort(e)
    BY DEF ReaderNext
  <1> USE RowsAssumption DEF TypeOK, RowMap, Resident, Pending, NoRowLost
  <1>1. CASE PrefetchRead(e)
    BY <1>1 DEF PrefetchRead, OneRowInv, poolVars, demandVars
  <1>2. CASE PrefetchPublish(e)
    <2>1. /\ ~cb.on /\ cb' = cb /\ pc \notin {"alloc", "pin"}
          /\ pc' = pc /\ route' = route /\ todo' = todo
          /\ pending_e2r[e] # NoRow
          /\ e2r' = [e2r EXCEPT ![e] = pending_e2r[e]]
          /\ pending_e2r' = [pending_e2r EXCEPT ![e] = NoRow]
          /\ free_rows' = free_rows
      BY <1>2 DEF PrefetchPublish, LockFree, demandVars
    <2>2. e2r[e] = NoRow
      BY <2>1 DEF OneRowInv
    <2>3. NoRowLost'
      BY <2>1, <2>2 DEF OneRowInv
    <2>4. QED  BY <2>1, <2>3 DEF OneRowInv
  <1>3. CASE PrefetchAbort(e)
    <2>1. /\ ~cb.on /\ cb' = cb /\ pc \notin {"alloc", "pin"}
          /\ pc' = pc /\ route' = route /\ todo' = todo
          /\ pending_e2r[e] # NoRow /\ e2r' = e2r
          /\ pending_e2r' = [pending_e2r EXCEPT ![e] = NoRow]
          /\ free_rows' = free_rows \cup {pending_e2r[e]}
      BY <1>3 DEF PrefetchAbort, LockFree, demandVars
    <2>2. NoRowLost'
      BY <2>1 DEF OneRowInv
    <2>3. QED  BY <2>1, <2>2 DEF OneRowInv
  <1>4. QED  BY <1>1, <1>2, <1>3

LEMMA DemandOneRow ==
  ASSUME TypeOK, RowExclusive, OneRowInv, DemandNext
  PROVE  OneRowInv'
  <1> USE DEF Resident, Pending, NoRowLost
  <1>1. ASSUME NEW e \in Experts, AllocMiss(e) PROVE OneRowInv'
    <2>1. PICK r \in Rows : AllocSlot(e, r, RealNeeded)
      BY <1>1 DEF AllocMiss
    <2>2. /\ pc = "alloc" /\ e \in todo /\ e \in Experts /\ e \notin Resident
          /\ pending_e2r' = pending_e2r /\ cb' = cb /\ route' = route
          /\ todo' = todo \ {e} /\ pc' \in {"alloc", "fetch"}
      BY <1>1 DEF AllocMiss, OneRowInv
    <2>3. /\ NoRowLost'
          /\ \A f \in Experts : f # e => (e2r'[f] # NoRow => e2r[f] # NoRow)
      BY <2>1, <2>2, AllocSlotKeepsRows DEF OneRowInv
    <2>4. pending_e2r[e] = NoRow
      BY <2>2 DEF OneRowInv
    <2>5. QED  BY <2>2, <2>3, <2>4 DEF OneRowInv
  <1>2. CASE Core
    <2>1. /\ pc = "core" /\ ~cb.on /\ cb' = cb /\ route' = route
          /\ todo' = RealNeeded \ Resident /\ pc' \in {"ready", "alloc"}
          /\ UNCHANGED <<e2r, pending_e2r, free_rows>>
      BY <1>2 DEF Core, LockFree
    <2>2. QED  BY <2>1 DEF OneRowInv, RealNeeded
  <1>3. ASSUME ~Core, ~\E e \in Experts : AllocMiss(e) PROVE OneRowInv'
    <2>1. UNCHANGED <<e2r, pending_e2r, free_rows, cb>>
      BY <1>3 DEF DemandNext, Begin, Remap, HandlerStart, Join,
           Lookup, Note, CoreOverCap, AllocThrow, DemandRead,
           DemandReadDone, Retire, ReleaseLeases, StatsReset, poolVars
    <2>2. /\ pc' \notin {"alloc", "pin"}
          /\ pc' \in {"lookup", "core"} => route' \cap Pending = {}
      BY <1>3 DEF DemandNext, Begin, Remap, HandlerStart, Join,
           Lookup, Note, CoreOverCap, AllocThrow, DemandRead, DemandOver,
           DemandReadDone, Retire, ReleaseLeases, StatsReset, LockFree, OneRowInv, TypeOK,
           demandVars
    <2>3. QED  BY <2>1, <2>2 DEF OneRowInv
  <1>4. QED  BY <1>1, <1>2, <1>3

LEMMA PinOneRow ==
  ASSUME ~PinInFlight, TypeOK, RowExclusive, OneRowInv, PinNext
  PROVE  OneRowInv'
  <1> USE DEF Resident, Pending, NoRowLost
  <1>1. ASSUME NEW S \in SUBSET Experts, PinBegin(S) PROVE OneRowInv'
    BY <1>1 DEF PinBegin, LockFree, OneRowInv
  <1>2. ASSUME NEW e \in Experts, PinAlloc(e) PROVE OneRowInv'
    <2>1. PICK r \in Rows : AllocSlot(e, r, route)
      BY <1>2 DEF PinAlloc
    <2>2. /\ pc = "pin" /\ e \in todo /\ e \notin Resident
          /\ pending_e2r' = pending_e2r /\ cb' = cb
          /\ todo' = todo \ {e} /\ pc' \in {"pin", "write"}
      BY <1>2 DEF PinAlloc, OneRowInv
    <2>3. /\ NoRowLost'
          /\ \A f \in Experts : f # e => (e2r'[f] # NoRow => e2r[f] # NoRow)
      BY <2>1, <2>2, AllocSlotKeepsRows DEF OneRowInv
    <2>4. QED  BY <2>2, <2>3 DEF OneRowInv
  <1>3. CASE PinThrow \/ PinWrite
    BY <1>3 DEF PinThrow, PinWrite, DemandOver, OneRowInv, poolVars
  <1>4. QED  BY <1>1, <1>2, <1>3 DEF PinNext

LEMMA AlwaysOneRow ==
  ASSUME ~PinInFlight
  PROVE  Spec /\ [][LateSparesRoute]_vars => []OneRowInv
  <1>1. TypeOK /\ RowExclusive /\ OneRowInv /\ [Next]_vars /\ [LateSparesRoute]_vars
          => OneRowInv'
    <2> SUFFICES ASSUME TypeOK, RowExclusive, OneRowInv, [Next]_vars,
                        [LateSparesRoute]_vars
                 PROVE  OneRowInv'
      OBVIOUS
    <2>1. CASE UNCHANGED vars
      BY <2>1 DEF vars, poolVars, demandVars, OneRowInv, NoRowLost, Resident,
                  Pending
    <2>2. CASE Next /\ LateSparesRoute
      BY <2>2, CallbackOneRow, ReaderOneRow, DemandOneRow, PinOneRow DEF Next
    <2>3. QED  BY <2>1, <2>2
  <1>2. QED
    BY OneRowInit, <1>1, TypeCorrect, RowsExclusive, PTL DEF Spec

\* Callbacks in stream order spare the route: none runs after the join.
CbEarly == cb.on => pc \in {"idle", "remap", "join"}

LEMMA InOrderSpares ==
  ASSUME ~LateCallbacks
  PROVE  Spec => [][LateSparesRoute]_vars
  <1>1. Init => CbEarly
    BY DEF Init, CbEarly
  <1>2. CbEarly /\ [Next]_vars => CbEarly'
    <2> SUFFICES ASSUME CbEarly, [Next]_vars PROVE CbEarly'
      OBVIOUS
    <2>1. CASE UNCHANGED vars
      BY <2>1 DEF vars, demandVars, CbEarly
    <2>2. CASE CallbackNext
      <3>1. pc' = pc
        BY <2>2 DEF CallbackNext, ReserveBegin, ReserveStep, ReserveSkip,
           ReserveEnd, demandVars
      <3>2. cb.on \/ pc \in {"idle", "remap"}
        BY <2>2 DEF CallbackNext, ReserveBegin, CallbackMayRun, ReserveStep,
           ReserveSkip, ReserveEnd
      <3>3. QED  BY <3>1, <3>2 DEF CbEarly
    <2>3. CASE ReaderNext
      BY <2>3 DEF ReaderNext, PrefetchRead, PrefetchPublish, PrefetchAbort,
         demandVars, CbEarly
    <2>4. CASE DemandNext \/ PinNext
      <3>1. cb' = cb
        BY <2>4 DEF DemandNext, PinNext, Begin, Remap, HandlerStart, Join, Lookup,
           Note, Core, CoreOverCap, AllocMiss, AllocThrow, DemandRead,
           DemandReadDone, Retire, ReleaseLeases, StatsReset, PinBegin, PinAlloc,
           PinThrow, PinWrite
      <3>2. cb.on => pc' \in {"idle", "remap", "join"}
        BY <2>4 DEF DemandNext, PinNext, Begin, Remap, HandlerStart, Join, Lookup,
           Note, Core, CoreOverCap, AllocMiss, AllocThrow, DemandRead,
           DemandReadDone, Retire, ReleaseLeases, StatsReset, PinBegin, PinAlloc,
           PinThrow, PinWrite, DemandOver, LockFree, CbEarly, demandVars
      <3>3. QED  BY <3>1, <3>2 DEF CbEarly
    <2>5. QED  BY <2>1, <2>2, <2>3, <2>4 DEF Next
  <1>3. CbEarly => LateSparesRoute
    BY DEF CbEarly, LateSparesRoute
  <1>4. CbEarly /\ [Next]_vars => [LateSparesRoute]_vars
    BY <1>3
  <1>5. QED  BY <1>1, <1>2, <1>4, PTL DEF Spec

\* As long as late callbacks spare the route and pins find no read in flight,
\* no physical row is ever leaked: each is free, resident or reserved.  In
\* particular none is when callbacks run in stream order.
THEOREM NoRowIsLost ==
  ASSUME ~PinInFlight
  PROVE  /\ Spec /\ [][LateSparesRoute]_vars => []NoRowLost
         /\ ~LateCallbacks => (Spec => []NoRowLost)
  <1>1. OneRowInv => NoRowLost
    BY DEF OneRowInv
  <1>2. Spec /\ [][LateSparesRoute]_vars => []NoRowLost
    BY <1>1, AlwaysOneRow, PTL
  <1>3. ASSUME ~LateCallbacks PROVE Spec => []NoRowLost
    BY <1>2, <1>3, InOrderSpares, PTL
  <1>4. QED  BY <1>2, <1>3

-----------------------------------------------------------------------------
(* The speculative share.                                                  *)

LEMMA SpecInflightNat ==
  ASSUME TypeOK
  PROVE  /\ IsFiniteSet(speculative) /\ IsFiniteSet(Pending)
         /\ Cardinality(speculative) \in Nat /\ Cardinality(Pending) \in Nat
         /\ SpecInflight \in Nat
  <1>1. IsFiniteSet(speculative) /\ IsFiniteSet(Pending)
    BY RowsAssumption, FS_Subset DEF TypeOK, Pending
  <1>2. Cardinality(speculative) \in Nat /\ Cardinality(Pending) \in Nat
    BY <1>1, FS_CardinalityType
  <1>3. QED  BY <1>1, <1>2 DEF SpecInflight

LEMMA OneMore ==
  ASSUME NEW S, IsFiniteSet(S), NEW x
  PROVE  /\ IsFiniteSet(S \cup {x}) /\ Cardinality(S \cup {x}) \in Nat
         /\ Cardinality(S \cup {x}) <= Cardinality(S) + 1
  <1>1. /\ IsFiniteSet(S \cup {x})
        /\ Cardinality(S \cup {x}) = IF x \in S THEN Cardinality(S) ELSE Cardinality(S) + 1
    BY FS_AddElement
  <1>2. Cardinality(S) \in Nat
    BY FS_CardinalityType
  <1>3. QED  BY <1>1, <1>2

\* A step that takes nothing under speculation keeps the share.
LEMMA LessSpeculation ==
  ASSUME TypeOK, TypeOK', SpecQuota,
         speculative' \subseteq speculative, Pending' \subseteq Pending
  PROVE  SpecQuota'
  <1>1. /\ Cardinality(speculative') <= Cardinality(speculative)
        /\ Cardinality(Pending') <= Cardinality(Pending)
    BY SpecInflightNat, FS_Subset
  <1>2. /\ Cardinality(speculative') \in Nat /\ Cardinality(Pending') \in Nat
    <2>1. IsFiniteSet(speculative') /\ IsFiniteSet(Pending')
      BY SpecInflightNat, FS_Subset
    <2>2. QED  BY <2>1, FS_CardinalityType
  <1>3. QED
    BY <1>1, <1>2, SpecInflightNat, BoundsAssumption DEF SpecQuota, SpecInflight

LEMMA ReserveQuota ==
  ASSUME TypeOK, TypeOK', SpecQuota, NEW e \in Experts, ReserveStep(e)
  PROVE  SpecQuota'
  <1> USE SpecInflightNat, BoundsAssumption
  <1>1. Pending' \subseteq Pending \cup {e}
    BY DEF ReserveStep, ReserveRow, Pending, TypeOK, RowMap
  <1>2. /\ IsFiniteSet(Pending') /\ Cardinality(Pending') \in Nat
        /\ Cardinality(Pending') <= Cardinality(Pending) + 1
    <2>1. /\ IsFiniteSet(Pending \cup {e})
          /\ Cardinality(Pending \cup {e}) <= Cardinality(Pending) + 1
      BY OneMore
    <2>2. /\ IsFiniteSet(Pending')
          /\ Cardinality(Pending') <= Cardinality(Pending \cup {e})
      BY <1>1, <2>1, FS_Subset
    <2>3. Cardinality(Pending') \in Nat /\ Cardinality(Pending \cup {e}) \in Nat
      BY <2>1, <2>2, FS_CardinalityType
    <2>4. QED  BY <2>1, <2>2, <2>3
  <1>3. CASE SpecInflight < SpecLimit /\ speculative' \subseteq speculative
    <2>1. /\ Cardinality(speculative') \in Nat
          /\ Cardinality(speculative') <= Cardinality(speculative)
      BY <1>3, FS_Subset, FS_CardinalityType
    <2>2. QED  BY <1>2, <1>3, <2>1 DEF SpecQuota, SpecInflight
  <1>4. ASSUME NEW v \in speculative, speculative' = speculative \ {v}
        PROVE  SpecQuota'
    <2>1. /\ Cardinality(speculative') = Cardinality(speculative) - 1
          /\ IsFiniteSet(speculative')
      BY <1>4, FS_RemoveElement
    <2>2. Cardinality(speculative') \in Nat
      BY <2>1, FS_CardinalityType
    <2>3. QED  BY <1>2, <2>1, <2>2 DEF SpecQuota, SpecInflight
  <1>5. CASE FromFree
    BY <1>3, <1>5 DEF FromFree, ReserveStep
  <1>6. CASE ~FromFree
    <2>1. PICK v \in PrefetchVictims : speculative' = speculative \ {v}
      BY <1>6 DEF ReserveStep
    <2>2. v \in speculative \/ SpecInflight < SpecLimit
      BY <2>1 DEF PrefetchVictims, SpecVictims, VerifiedVictims
    <2>3. QED  BY <1>3, <1>4, <2>1, <2>2
  <1>7. QED  BY <1>5, <1>6

LEMMA PublishQuota ==
  ASSUME TypeOK, TypeOK', SpecQuota, NEW e \in Experts, PrefetchPublish(e)
  PROVE  SpecQuota'
  <1> USE SpecInflightNat, BoundsAssumption
  <1>1. e \in Pending /\ Pending' = Pending \ {e} /\ speculative' = speculative \cup {e}
    BY DEF PrefetchPublish, Pending, TypeOK, RowMap
  <1>2. /\ Cardinality(Pending') = Cardinality(Pending) - 1
        /\ Cardinality(Pending') \in Nat
    <2>1. /\ Cardinality(Pending') = Cardinality(Pending) - 1
          /\ IsFiniteSet(Pending')
      BY <1>1, FS_RemoveElement
    <2>2. QED  BY <2>1, FS_CardinalityType
  <1>3. /\ Cardinality(speculative') <= Cardinality(speculative) + 1
        /\ Cardinality(speculative') \in Nat
    BY <1>1, OneMore
  <1>4. QED  BY <1>2, <1>3 DEF SpecQuota, SpecInflight

\* Reservations and published predictions together never exceed the share the
\* pool grants to speculation, whenever callbacks, reads and pins come.
THEOREM QuotaKept == Spec => []SpecQuota
  <1>1. Init => SpecQuota
    <2> SUFFICES ASSUME Init PROVE SpecQuota
      OBVIOUS
    <2>1. speculative = {} /\ Pending = {}
      BY DEF Init, NoRows, Pending
    <2>2. QED  BY <2>1, FS_EmptySet, BoundsAssumption DEF SpecQuota, SpecInflight
  <1>2. TypeOK /\ TypeOK' /\ SpecQuota /\ [Next]_vars => SpecQuota'
    <2> SUFFICES ASSUME TypeOK, TypeOK', SpecQuota, [Next]_vars PROVE SpecQuota'
      OBVIOUS
    <2>1. CASE UNCHANGED <<speculative, pending_e2r>>
      BY <2>1, LessSpeculation DEF Pending
    <2>2. ASSUME NEW e \in Experts, PrefetchAbort(e) PROVE SpecQuota'
      <3>1. speculative' = speculative /\ Pending' \subseteq Pending
        BY <2>2 DEF PrefetchAbort, Pending, TypeOK, RowMap
      <3>2. QED  BY <3>1, LessSpeculation
    <2>3. ASSUME speculative' \subseteq speculative, UNCHANGED pending_e2r
          PROVE  SpecQuota'
      BY <2>3, LessSpeculation DEF Pending
    <2>4. CASE CallbackNext
      BY <2>1, <2>4, ReserveQuota
      DEF CallbackNext, ReserveBegin, ReserveSkip, ReserveEnd, poolVars
    <2>5. CASE ReaderNext
      BY <2>1, <2>2, <2>5, PublishQuota DEF ReaderNext, PrefetchRead, poolVars
    <2>6. ASSUME NEW e \in Experts, AllocMiss(e) \/ PinAlloc(e) PROVE SpecQuota'
      <3>1. speculative' \subseteq speculative /\ UNCHANGED pending_e2r
        BY <2>6 DEF AllocMiss, PinAlloc, AllocSlot
      <3>2. QED  BY <3>1, <2>3
    <2>7. ASSUME DemandNext \/ PinNext, ~\E e \in Experts : AllocMiss(e) \/ PinAlloc(e)
          PROVE  SpecQuota'
      <3>1. speculative' \subseteq speculative /\ UNCHANGED pending_e2r
        BY <2>7
        DEF DemandNext, Begin, Remap, HandlerStart, Join, Lookup, Note, Core,
            CoreOverCap, AllocThrow, DemandRead, DemandReadDone, Retire,
            ReleaseLeases, StatsReset, NoteAccess, PinNext, PinBegin, PinThrow, PinWrite,
            poolVars
      <3>2. QED  BY <3>1, <2>3
    <2>8. CASE UNCHANGED vars
      BY <2>1, <2>8 DEF vars, poolVars
    <2>9. QED  BY <2>4, <2>5, <2>6, <2>7, <2>8 DEF Next
  <1>3. QED  BY <1>1, <1>2, TypeCorrect, PTL DEF Spec

-----------------------------------------------------------------------------
(* Leased rows are not written.                                            *)

\* The named parts of LeaseInv, to be established one by one.
OwnedWriters ==
    \A r \in Rows :
        /\ \A f \in Experts : f \in writers[r] =>
             pending_e2r[f] = r \/ (pc = "fetch" /\ f \in reads /\ local[f] = r)
        /\ Torn \in writers[r] => \E f \in Experts : f \in writers[r]
UnleasedSources ==
    /\ free_rows \cap leased = {}
    /\ \A e \in Pending : pending_e2r[e] \notin leased
    /\ pc \in {"alloc", "fetch"} => \A e \in reads \ todo : local[e] \notin leased
Phases ==
    /\ pc = "fetch" => todo = {}
    /\ cb.on => pc \notin {"alloc", "pin"} /\ cb.todo \cap Pending = {}
    /\ pc \in {"alloc", "pin"} => todo \cap Resident = {}

LEMMA LeaseParts ==
  LeaseInv <=> LeasedRowsNotWritten /\ OwnedWriters /\ UnleasedSources /\ Phases
  BY DEF LeaseInv, OwnedWriters, UnleasedSources, Phases

LEMMA LeaseInit == Init => LeaseInv
  BY RowsAssumption
  DEF Init, LeaseInv, LeasedRowsNotWritten, NoRows, CbIdle, Resident, Pending

\* A step that moves no row, no byte and no lease keeps the invariant if the
\* phase and the lists of the demand go on as they should.
LEMMA LeaseFrame ==
  ASSUME LeaseInv,
         UNCHANGED <<e2r, pending_e2r, free_rows, writers, leased, cb>>,
         pc # "fetch", pc' \notin {"alloc", "fetch", "pin"}
  PROVE  LeaseInv'
  BY DEF LeaseInv, LeasedRowsNotWritten, Pending, Resident

\* The allocator returns a row nobody has leased.
LEMMA AllocSlotUnleased ==
  ASSUME TypeOK, RowExclusive, LeaseInv, NEW e \in Experts, NEW r \in Rows,
         NEW protect, AllocSlot(e, r, protect), e \notin Resident
  PROVE  /\ r \notin leased /\ free_rows' \subseteq free_rows
         /\ \A f \in Experts : f # e => (e2r'[f] # NoRow => e2r[f] # NoRow)
  <1> USE RowsAssumption DEF TypeOK, RowMap, Resident
  <1>1. CASE /\ r \in free_rows /\ free_rows' = free_rows \ {r}
             /\ e2r' = [e2r EXCEPT ![e] = r]
    BY <1>1 DEF LeaseInv
  <1>2. CASE /\ free_rows' = free_rows
             /\ \E v \in DemandVictims(protect) :
                  /\ r = e2r[v]
                  /\ e2r' = [e2r EXCEPT ![v] = NoRow, ![e] = r]
    <2>1. PICK v \in DemandVictims(protect) :
                 /\ r = e2r[v]
                 /\ e2r' = [e2r EXCEPT ![v] = NoRow, ![e] = r]
      BY <1>2
    <2>2. v \in Experts /\ e2r[v] \notin leased
      BY <2>1 DEF DemandVictims, Evictable
    <2>3. QED  BY <1>2, <2>1, <2>2
  <1>3. QED  BY <1>1, <1>2 DEF AllocSlot

LEMMA CallbackLease ==
  ASSUME TypeOK, RowExclusive, LeaseInv, CallbackNext
  PROVE  LeaseInv'
  <1> USE RowsAssumption DEF TypeOK, RowMap, Pending, Resident
  <1>1. ASSUME NEW P \in SUBSET Experts, ReserveBegin(P) PROVE LeaseInv'
    BY <1>1 DEF ReserveBegin, LockFree, LeaseInv, LeasedRowsNotWritten,
       poolVars, byteVars, demandVars
  <1>2. ASSUME NEW e \in Experts, ReserveStep(e) PROVE LeaseInv'
    <2>1. /\ cb.on /\ e \in cb.todo /\ pending_e2r[e] = NoRow
          /\ pc \notin {"alloc", "pin"}
          /\ UNCHANGED <<leased, writers, pc, reads, todo, local>>
          /\ cb'.on /\ cb'.todo = cb.todo \ {e}
      <3>1. /\ cb.on /\ e \in cb.todo
            /\ cb' = [cb EXCEPT !.todo = @ \ {e}, !.taken = @ + 1]
            /\ UNCHANGED <<leased, writers, pc, reads, todo, local>>
        BY <1>2 DEF ReserveStep, ReserveRow, demandVars, byteVars
      <3>2. pending_e2r[e] = NoRow /\ pc \notin {"alloc", "pin"}
        BY <3>1 DEF LeaseInv
      <3>3. cb'.on /\ cb'.todo = cb.todo \ {e}
        BY <3>1
      <3>4. QED  BY <3>1, <3>2, <3>3
    <2>2. PICK r \in Rows : /\ pending_e2r' = [pending_e2r EXCEPT ![e] = r]
                            /\ free_rows' \subseteq free_rows
                            /\ r \notin leased
      <3>1. CASE FromFree
        BY <1>2, <3>1 DEF ReserveStep, ReserveRow, LeaseInv
      <3>2. CASE ~FromFree
        <4>1. PICK v \in PrefetchVictims :
                /\ pending_e2r' = [pending_e2r EXCEPT ![e] = e2r[v]]
                /\ free_rows' = free_rows
          BY <1>2, <3>2 DEF ReserveStep, ReserveRow
        <4>2. v \in Experts /\ e2r[v] # NoRow /\ e2r[v] \notin leased
          BY <4>1 DEF PrefetchVictims, SpecVictims, VerifiedVictims, Evictable
        <4>3. QED  BY <4>1, <4>2
      <3>3. QED  BY <3>1, <3>2
    <2>3. \A f \in Experts : pending_e2r'[f] = IF f = e THEN r ELSE pending_e2r[f]
      BY <2>2
    <2>4. LeasedRowsNotWritten' /\ UnleasedSources' /\ Phases'
      BY <2>1, <2>2, <2>3 DEF LeaseInv, LeasedRowsNotWritten, UnleasedSources, Phases
    <2>5. OwnedWriters'
      BY <2>1, <2>2, <2>3 DEF LeaseInv, OwnedWriters
    <2>6. QED  BY <2>4, <2>5 DEF LeaseInv, LeasedRowsNotWritten, OwnedWriters,
               UnleasedSources, Phases
  <1>3. ASSUME NEW e \in Experts, ReserveSkip(e) PROVE LeaseInv'
    BY <1>3 DEF ReserveSkip, LeaseInv, LeasedRowsNotWritten, poolVars,
       byteVars, demandVars
  <1>4. CASE ReserveEnd
    BY <1>4 DEF ReserveEnd, CbIdle, LeaseInv, LeasedRowsNotWritten, poolVars,
       byteVars, demandVars
  <1>5. QED  BY <1>1, <1>2, <1>3, <1>4 DEF CallbackNext

\* Writers of a row after a read of it ends: the others, and the mark of the
\* overlap as long as one of them is left.
Without(e, r) ==
    /\ \A q \in Rows : q # r => writers'[q] = writers[q]
    /\ \A f \in Experts : f \in writers'[r] <=> f \in writers[r] /\ f # e
    /\ Torn \in writers'[r] => \E f \in Experts : f \in writers'[r]

LEMMA WriteEndWriters ==
  ASSUME TypeOK, NEW e \in Experts, NEW r \in Rows, NEW c, WriteEnd(e, r, c)
  PROVE  Without(e, r)
  <1> USE RowsAssumption DEF TypeOK
  <1> DEFINE others == writers[r] \ {e, Torn}
  <1>1. /\ e \in writers[r]
        /\ writers' = [writers EXCEPT ![r] = IF others = {} THEN {} ELSE others \cup {Torn}]
    BY DEF WriteEnd
  <1>2. others \subseteq Experts
    OBVIOUS
  <1>3. writers'[r] = IF others = {} THEN {} ELSE others \cup {Torn}
    BY <1>1
  <1>4. \A q \in Rows : q # r => writers'[q] = writers[q]
    BY <1>1
  <1>5. QED  BY <1>1, <1>2, <1>3, <1>4 DEF Without

LEMMA ReaderLease ==
  ASSUME TypeOK, RowExclusive, LeaseInv, ReaderNext
  PROVE  LeaseInv'
  <1> PICK e \in Experts : PrefetchRead(e) \/ PrefetchPublish(e) \/ PrefetchAbort(e)
    BY DEF ReaderNext
  <1> USE RowsAssumption DEF TypeOK, RowMap, Pending, Resident
  <1> DEFINE row == pending_e2r[e]
  <1>0. e \in Pending /\ row \in Rows /\ row \notin leased
        /\ UNCHANGED <<leased, cb, pc, reads, todo, local>>
    BY DEF PrefetchRead, PrefetchPublish, PrefetchAbort, LeaseInv, demandVars
  <1>1. CASE PrefetchRead(e)
    <2>1. /\ writers' = [writers EXCEPT ![row] = @ \cup {e}]
          /\ UNCHANGED <<e2r, pending_e2r, free_rows>>
      BY <1>1 DEF PrefetchRead, WriteBegin, poolVars
    <2>2. OwnedWriters'
      BY <1>0, <2>1 DEF OwnedWriters, LeaseInv
    <2>3. LeasedRowsNotWritten' /\ UnleasedSources' /\ Phases'
      BY <1>0, <2>1 DEF LeaseInv, LeasedRowsNotWritten, UnleasedSources, Phases
    <2>4. QED  BY <2>2, <2>3 DEF LeaseInv, LeasedRowsNotWritten, OwnedWriters,
               UnleasedSources, Phases
  <1>2. ASSUME \/ WriteEnd(e, row, TRUE) \/ WriteEnd(e, row, FALSE)
               \/ writers' = writers /\ e \notin writers[row],
               pending_e2r' = [pending_e2r EXCEPT ![e] = NoRow],
               free_rows' \subseteq free_rows \cup {row},
               LockFree, \A f \in Experts : f # e => e2r'[f] = e2r[f]
        PROVE  LeaseInv'
    <2>1. Without(e, row)
      <3>1. ASSUME NEW c \in BOOLEAN, WriteEnd(e, row, c) PROVE Without(e, row)
        BY <1>0, <3>1, WriteEndWriters
      <3>2. CASE writers' = writers /\ e \notin writers[row]
        BY <1>0, <3>2 DEF LeaseInv, Without
      <3>3. QED  BY <1>2, <3>1, <3>2
    <2>2. OwnedWriters'
      BY <1>0, <1>2, <2>1 DEF OwnedWriters, LeaseInv, Without
    <2>3. LeasedRowsNotWritten'
      BY <1>0, <2>1 DEF Without, LeaseInv, LeasedRowsNotWritten
    <2>4. UnleasedSources'
      BY <1>0, <1>2 DEF LeaseInv, UnleasedSources
    <2>5. Phases'
      BY <1>0, <1>2 DEF LeaseInv, Phases, LockFree
    <2>6. QED  BY <2>2, <2>3, <2>4, <2>5 DEF LeaseInv, LeasedRowsNotWritten,
               OwnedWriters, UnleasedSources, Phases
  <1>3. CASE PrefetchPublish(e)
    BY <1>2, <1>3 DEF PrefetchPublish
  <1>4. CASE PrefetchAbort(e)
    BY <1>0, <1>2, <1>4 DEF PrefetchAbort, Reading, byteVars
  <1>5. QED  BY <1>1, <1>3, <1>4

LEMMA DemandLease ==
  ASSUME TypeOK, RowExclusive, LeaseInv, DemandNext
  PROVE  LeaseInv'
  <1> USE RowsAssumption DEF TypeOK, RowMap, Pending, Resident
  <1>1. ASSUME NEW e \in Experts, Remap(e) PROVE LeaseInv'
    <2>1. /\ pc = "remap" /\ pc' = pc /\ leased' = leased \cup ({e2r[e]} \ {NoRow})
          /\ UNCHANGED <<e2r, pending_e2r, free_rows, writers, cb>>
      BY <1>1 DEF Remap, poolVars, byteVars
    <2>2. ASSUME e2r[e] # NoRow PROVE writers[e2r[e]] = {}
      <3>1. \A f \in Experts : f \notin writers[e2r[e]]
        BY <2>1, <2>2 DEF LeaseInv, RowExclusive
      <3>2. QED  BY <2>2, <3>1 DEF LeaseInv
    <2>3. LeasedRowsNotWritten'
      BY <2>1, <2>2 DEF LeaseInv, LeasedRowsNotWritten
    <2>4. OwnedWriters'
      BY <2>1 DEF LeaseInv, OwnedWriters
    <2>5. UnleasedSources' /\ Phases'
      BY <2>1 DEF LeaseInv, RowExclusive, UnleasedSources, Phases
    <2>6. QED  BY <2>3, <2>4, <2>5 DEF LeaseInv, LeasedRowsNotWritten,
               OwnedWriters, UnleasedSources, Phases
  <1>2. ASSUME NEW e \in Experts, AllocMiss(e) PROVE LeaseInv'
    <2>1. PICK r \in Rows : /\ AllocSlot(e, r, RealNeeded)
                            /\ local' = [local EXCEPT ![e] = r]
      BY <1>2 DEF AllocMiss
    <2>2. /\ pc = "alloc" /\ e \in todo /\ todo' = todo \ {e} /\ ~cb.on
          /\ pc' = (IF todo' = {} THEN "fetch" ELSE "alloc")
          /\ UNCHANGED <<pending_e2r, writers, leased, cb, reads>>
      BY <1>2 DEF AllocMiss, LeaseInv, byteVars
    <2>3. /\ r \notin leased /\ free_rows' \subseteq free_rows
          /\ \A f \in Experts : f # e => (e2r'[f] # NoRow => e2r[f] # NoRow)
      BY <2>1, <2>2, AllocSlotUnleased DEF LeaseInv
    <2>4. LeasedRowsNotWritten' /\ OwnedWriters'
      BY <2>2 DEF LeaseInv, LeasedRowsNotWritten, OwnedWriters
    <2>5. UnleasedSources'
      BY <2>1, <2>2, <2>3 DEF LeaseInv, UnleasedSources
    <2>6. Phases'
      BY <2>2, <2>3 DEF LeaseInv, Phases
    <2>7. QED  BY <2>4, <2>5, <2>6 DEF LeaseInv, LeasedRowsNotWritten,
               OwnedWriters, UnleasedSources, Phases
  <1>3. ASSUME NEW e \in Experts, DemandRead(e) PROVE LeaseInv'
    <2>1. /\ pc = "fetch" /\ e \in reads /\ local[e] \in Rows => local[e] \notin leased
          /\ writers' = [writers EXCEPT ![local[e]] = @ \cup {e}]
          /\ UNCHANGED <<e2r, pending_e2r, free_rows, leased, cb, pc, reads,
                         todo, local>>
      BY <1>3 DEF DemandRead, WriteBegin, LeaseInv, poolVars, demandVars
    <2>2. pc = "fetch" /\ e \in reads /\ local[e] \notin leased
      BY <1>3 DEF DemandRead, LeaseInv
    <2>3. OwnedWriters'
      BY <2>1, <2>2 DEF LeaseInv, OwnedWriters
    <2>4. LeasedRowsNotWritten' /\ UnleasedSources' /\ Phases'
      BY <2>1, <2>2 DEF LeaseInv, LeasedRowsNotWritten, UnleasedSources, Phases
    <2>5. QED  BY <2>3, <2>4 DEF LeaseInv, LeasedRowsNotWritten, OwnedWriters,
               UnleasedSources, Phases
  <1>4. ASSUME NEW e \in Experts, DemandReadDone(e) PROVE LeaseInv'
    <2>1. /\ pc = "fetch" /\ e \in reads /\ reads' = reads \ {e}
          /\ pc' = (IF reads' = {} THEN "ready" ELSE "fetch")
          /\ WriteEnd(e, local[e], TRUE)
          /\ UNCHANGED <<e2r, pending_e2r, free_rows, leased, cb, todo, local>>
      BY <1>4 DEF DemandReadDone, poolVars
    <2>2. local[e] \in Rows \/ local[e] = NoRow
      BY DEF TypeOK
    <2>3. CASE local[e] = NoRow
      <3>1. writers' = writers
        BY <2>1, <2>3 DEF WriteEnd
      <3>2. \A r \in Rows : ~(e \in writers[r] /\ local[e] = r)
        BY <2>3
      <3>3. QED
        BY <2>1, <3>1, <3>2 DEF LeaseInv, LeasedRowsNotWritten
    <2>4. CASE local[e] \in Rows
      <3>1. Without(e, local[e])
        BY <2>1, <2>4, WriteEndWriters
      <3>2. OwnedWriters'
        BY <2>1, <3>1 DEF LeaseInv, OwnedWriters, Without
      <3>3. LeasedRowsNotWritten' /\ UnleasedSources' /\ Phases'
        BY <2>1, <3>1 DEF LeaseInv, LeasedRowsNotWritten, UnleasedSources, Phases,
           Without
      <3>4. QED  BY <3>2, <3>3 DEF LeaseInv, LeasedRowsNotWritten, OwnedWriters,
                 UnleasedSources, Phases
    <2>5. QED  BY <2>2, <2>3, <2>4
  <1>5. CASE Core
    <2>1. /\ pc = "core" /\ ~cb.on /\ todo' = RealNeeded \ Resident
          /\ reads' = todo' /\ pc' \in {"ready", "alloc"}
          /\ UNCHANGED <<e2r, pending_e2r, free_rows, writers, leased, cb>>
      BY <1>5 DEF Core, LockFree, byteVars
    <2>2. QED  BY <2>1 DEF LeaseInv, LeasedRowsNotWritten
  <1>6. CASE CoreOverCap \/ AllocThrow \/ Retire \/ ReleaseLeases
    <2>1. /\ UNCHANGED <<e2r, pending_e2r, free_rows, writers, cb>>
          /\ pc # "fetch" /\ pc' = "idle" /\ leased' \subseteq leased
      BY <1>6 DEF CoreOverCap, AllocThrow, Retire, ReleaseLeases, DemandOver,
         poolVars, byteVars, demandVars
    <2>2. QED  BY <2>1 DEF LeaseInv, LeasedRowsNotWritten
  <1>7. CASE \/ \E R \in SUBSET Experts, m \in Modes : Begin(R, m)
             \/ HandlerStart \/ Join \/ Lookup \/ Note \/ StatsReset
    <2>1. /\ UNCHANGED <<e2r, pending_e2r, free_rows, writers, leased, cb>>
          /\ pc # "fetch" /\ pc' \notin {"alloc", "fetch", "pin"}
      BY <1>7 DEF Begin, HandlerStart, Join, Lookup, Note, StatsReset, poolVars,
         byteVars
    <2>2. QED  BY <2>1, LeaseFrame
  <1>8. QED
    BY <1>1, <1>2, <1>3, <1>4, <1>5, <1>6, <1>7 DEF DemandNext

LEMMA PinLease ==
  ASSUME TypeOK, RowExclusive, LeaseInv, PinNext
  PROVE  LeaseInv'
  <1> USE RowsAssumption DEF TypeOK, RowMap, Pending, Resident
  <1>1. ASSUME NEW S \in SUBSET Experts, PinBegin(S) PROVE LeaseInv'
    <2>1. /\ pc = "idle" /\ ~cb.on /\ todo' = S \ Resident /\ pc' \in {"write", "pin"}
          /\ UNCHANGED <<e2r, pending_e2r, free_rows, writers, leased, cb>>
      BY <1>1 DEF PinBegin, LockFree, byteVars
    <2>2. QED  BY <2>1 DEF LeaseInv, LeasedRowsNotWritten
  <1>2. ASSUME NEW e \in Experts, PinAlloc(e) PROVE LeaseInv'
    <2>1. PICK r \in Rows : AllocSlot(e, r, route)
      BY <1>2 DEF PinAlloc
    <2>2. /\ pc = "pin" /\ e \in todo /\ todo' = todo \ {e} /\ ~cb.on
          /\ pc' \in {"write", "pin"}
          /\ UNCHANGED <<pending_e2r, writers, leased, cb>>
      BY <1>2 DEF PinAlloc, LeaseInv, byteVars
    <2>3. /\ free_rows' \subseteq free_rows
          /\ \A f \in Experts : f # e => (e2r'[f] # NoRow => e2r[f] # NoRow)
      BY <2>1, <2>2, AllocSlotUnleased DEF LeaseInv
    <2>4. QED  BY <2>2, <2>3 DEF LeaseInv, LeasedRowsNotWritten
  <1>3. CASE PinThrow
    BY <1>3 DEF PinThrow, DemandOver, LeaseInv, LeasedRowsNotWritten, poolVars,
       byteVars
  <1>4. CASE PinWrite
    <2>1. /\ pc = "write" /\ pc' = "idle" /\ leased' \subseteq leased
          /\ UNCHANGED <<e2r, pending_e2r, free_rows, cb>>
      BY <1>4 DEF PinWrite, DemandOver, poolVars
    <2>2. \A r \in Rows : \/ writers'[r] = writers[r]
                          \/ writers[r] # {} /\ writers'[r] = writers[r] \cup {Torn}
      BY <1>4 DEF PinWrite
    <2>3. OwnedWriters'
      BY <2>1, <2>2 DEF LeaseInv, OwnedWriters
    <2>4. LeasedRowsNotWritten'
      BY <2>1, <2>2 DEF LeaseInv, LeasedRowsNotWritten
    <2>5. UnleasedSources' /\ Phases'
      BY <2>1 DEF LeaseInv, UnleasedSources, Phases
    <2>6. QED  BY <2>3, <2>4, <2>5 DEF LeaseInv, LeasedRowsNotWritten, OwnedWriters,
               UnleasedSources, Phases
  <1>5. QED  BY <1>1, <1>2, <1>3, <1>4 DEF PinNext

LEMMA AlwaysLease == Spec => []LeaseInv
  <1>1. TypeOK /\ RowExclusive /\ LeaseInv /\ [Next]_vars => LeaseInv'
    <2> SUFFICES ASSUME TypeOK, RowExclusive, LeaseInv, [Next]_vars
                 PROVE  LeaseInv'
      OBVIOUS
    <2>1. CASE UNCHANGED vars
      BY <2>1 DEF vars, poolVars, byteVars, demandVars, LeaseInv,
         LeasedRowsNotWritten, Pending, Resident
    <2>2. QED
      BY <2>1, CallbackLease, ReaderLease, DemandLease, PinLease DEF Next
  <1>2. QED  BY LeaseInit, <1>1, TypeCorrect, RowsExclusive, PTL DEF Spec

\* No read fills a row the GPU has leased, for any pool and any order of
\* callbacks, readers, demands and pins.
THEOREM LeasedRowsSafe == Spec => []LeasedRowsNotWritten
  <1>1. LeaseInv => LeasedRowsNotWritten
    BY DEF LeaseInv
  <1>2. QED  BY <1>1, AlwaysLease, PTL

-----------------------------------------------------------------------------
(* Pinned experts stay where they are.                                     *)

\* An allocation moves no pinned expert but the one it is made for.
LEMMA AllocSlotKeepsPinned ==
  ASSUME TypeOK, NEW e \in Experts, NEW r \in Rows, NEW protect,
         AllocSlot(e, r, protect), e \notin Resident,
         NEW p \in pinned \cap Resident
  PROVE  e2r'[p] = e2r[p]
  BY DEF TypeOK, RowMap, AllocSlot, DemandVictims, Evictable, Resident

\* No step evicts a resident pinned expert, and only the publication of a read
\* that was in flight for it gives it another row.
THEOREM PinnedRowsStay == Spec => PinnedRowsNeverMove
  <1> DEFINE Stay == \A e \in (pinned \cap Resident) \ Pending : e2r'[e] = e2r[e]
  <1>1. TypeOK /\ LeaseInv /\ [Next]_vars => [Stay]_vars
    <2> SUFFICES ASSUME TypeOK, LeaseInv, Next,
                        NEW p \in (pinned \cap Resident) \ Pending
                 PROVE  e2r'[p] = e2r[p]
      BY DEF vars
    <2>1. CASE UNCHANGED e2r
      BY <2>1
    <2>2. ASSUME NEW e \in Experts, ReserveStep(e) PROVE e2r'[p] = e2r[p]
      BY <2>2 DEF ReserveStep, PrefetchVictims, SpecVictims, VerifiedVictims,
         Evictable, TypeOK, RowMap
    <2>3. ASSUME NEW e \in Experts, PrefetchPublish(e) PROVE e2r'[p] = e2r[p]
      <3>1. e \in Pending /\ e2r' = [e2r EXCEPT ![e] = pending_e2r[e]]
        BY <2>3 DEF PrefetchPublish
      <3>2. e # p
        BY <3>1
      <3>3. QED  BY <3>1, <3>2 DEF TypeOK, RowMap, Resident
    <2>4. ASSUME NEW e \in Experts, AllocMiss(e) PROVE e2r'[p] = e2r[p]
      BY <2>4, AllocSlotKeepsPinned DEF AllocMiss, LeaseInv
    <2>5. ASSUME NEW e \in Experts, PinAlloc(e) PROVE e2r'[p] = e2r[p]
      BY <2>5, AllocSlotKeepsPinned DEF PinAlloc, LeaseInv
    <2>6. QED
      <3>1. CASE CallbackNext
        BY <3>1, <2>1, <2>2
        DEF CallbackNext, ReserveBegin, ReserveSkip, ReserveEnd, poolVars
      <3>2. CASE ReaderNext
        BY <3>2, <2>1, <2>3
        DEF ReaderNext, PrefetchRead, PrefetchAbort, poolVars
      <3>3. CASE DemandNext \/ PinNext
        BY <3>3, <2>1, <2>4, <2>5
        DEF DemandNext, PinNext, Begin, Remap, HandlerStart, Join, Lookup,
            Note, Core, CoreOverCap, AllocThrow, DemandRead, DemandReadDone,
            Retire, ReleaseLeases, StatsReset, PinBegin, PinThrow, PinWrite, poolVars
      <3>4. QED  BY <3>1, <3>2, <3>3 DEF Next
  <1>2. QED
    BY <1>1, AlwaysLease, TypeCorrect, PTL
    DEF Spec, PinnedRowsNeverMove
-----------------------------------------------------------------------------
(* The preflight suffices, and the demand path implements DemandService.   *)

\* Rows that the leases of an earlier demand may still hold: the last layer
\* keeps its leases through the synchronous demands and the pins that follow.
LeftOver == IF LastLayer THEN MaxRoute ELSE 0

\* The pool has room at once for a route, the pinned experts, everything
\* prediction may hold and what an earlier demand left leased.
Roomy == MaxRoute + MaxPins + SpecLimit + LeftOver <= Cap

\* In async mode an expert rescued by the wait is protected neither by a lease
\* nor by the core's protected set.  While the pool warms up note_access_locked
\* makes it an ordinary victim; it is safe if the free rows suffice then: the
\* residents below the threshold, the reservations and the misses, without the
\* rescued expert each, fit the pool.
RescueRoom ==
    "async" \in Modes =>
        (PromoteUntil - 1) + (SpecLimit - 1) + (MaxRoute - 1) <= Cap

\* Which lists and leases are empty in which phase.
PhaseInv ==
    /\ mode \in Modes \/ pc \in {"idle", "pin", "write"}
    /\ pc \in {"idle", "remap", "join", "lookup", "pin", "write"} => side = {}
    /\ mode = "sync" => side = {}
    /\ side \subseteq route
    /\ pc \in {"join", "lookup", "note", "core", "fetch", "ready", "write"} => todo = {}
    /\ pc \in {"remap", "lookup", "note"} => mode = "async"
    /\ pc \in {"idle", "pin", "write"} /\ ~LastLayer => leased = {}
    /\ pc \in {"pin", "write"} => route \subseteq pinned
    /\ pc \in {"remap", "pin"} => todo \subseteq route
    /\ pc \in {"alloc", "pin"} => todo # {}
    /\ pc = "alloc" => todo \subseteq reads /\ reads \subseteq route \ side
    /\ pc = "fetch" => reads \subseteq route

\* A route and the pins are within their bounds, and only routed experts are
\* leased, unless the leases are left over.
RoomInv ==
    /\ Cardinality(pinned) <= MaxPins
    /\ pc \notin {"idle", "pin", "write"} => Cardinality(route) <= MaxRoute
    /\ ~LastLayer \/ (mode = "async" /\ pc \notin {"idle", "pin", "write"}) =>
         \A e \in Resident : e2r[e] \in leased => e \in route

\* One demand leases no more rows than it has routed experts.
LeasesFew ==
    /\ Cardinality(leased) <= MaxRoute
    /\ pc = "remap" => Cardinality(leased) <= Cardinality(route \ todo)

\* What the GPU found stays where it found it.
EntryInv ==
    pc \in {"remap", "join", "lookup"} /\ mode = "async" =>
        \A e \in route \ todo :
            entry[e] # NoRow => e2r[e] = entry[e] /\ entry[e] \in leased

\* The experts of S are resident in the rows handed to the GPU.
Held(S) == \A e \in S : e2r[e] # NoRow /\ local[e] = e2r[e]

\* Every routed expert that is placed keeps its row.
PlacedInv ==
    /\ pc \in {"note", "alloc", "fetch", "ready", "pin", "write"} => Held(route \ todo)
    /\ pc = "core" => Held(side)

\* A resident expert's row holds its bytes unless the demand or the pin that
\* placed it has still to write them, and no two reads ever shared a row.
BytesInv ==
    /\ \A r \in Rows : Torn \notin writers[r]
    /\ \A e \in Resident :
        \/ content[e2r[e]] = e
        \/ pc \in {"alloc", "fetch"} /\ e \in reads \ todo
        \/ pc \in {"pin", "write"} /\ e \in route

\* What the theorems above establish, when late callbacks spare the route and
\* pins find no read in flight.
BaseInv == TypeOK /\ RowExclusive /\ OneRowInv /\ LeaseInv /\ SpecQuota

\* The phases of a demand and the experts and leases it counts with.
DemandInv == BaseInv /\ PhaseInv /\ RoomInv /\ LeasesFew

\* What is served: the rows of the route are found, kept and filled.
ServeInv == EntryInv /\ PlacedInv /\ BytesInv

\* The rows of S are leased or, for a rescued expert, speculative.
Kept(S) == \A e \in S : e2r[e] \in leased \/ e \in speculative

\* A routed expert that landed since the remap is still speculative, and the
\* core does not evict it: a verified victim is preferred to it, or the free
\* rows suffice.
RescueInv ==
    /\ pc \in {"remap", "join", "lookup"} /\ mode = "async" =>
         \A e \in route \ todo :
             e \in Resident => e2r[e] \in leased \/ e \in speculative
    /\ pc = "core" => Kept(side)
    /\ pc = "alloc" => \/ Kept(side)
                       \/ Cardinality(todo) <= Cardinality(free_rows)

-----------------------------------------------------------------------------
\* The rows that are not free are covered by the experts that own them.
LEMMA RowsCovered ==
  ASSUME TypeOK, NEW A \in SUBSET Experts,
         \A r \in Rows : \/ r \in free_rows
                         \/ \E e \in A : e2r[e] = r
                         \/ \E e \in Pending : pending_e2r[e] = r
  PROVE  /\ IsFiniteSet(A) /\ Cardinality(A) \in Nat /\ Cardinality(free_rows) \in Nat
         /\ Cardinality(Pending) \in Nat /\ Cap \in Nat
         /\ Cap <= Cardinality(free_rows) + Cardinality(A) + Cardinality(Pending)
  <1> DEFINE X == {e2r[e] : e \in A}
             Y == {pending_e2r[e] : e \in Pending}
             g == [e \in A |-> e2r[e]]
             h == [e \in Pending |-> pending_e2r[e]]
  <1>1. IsFiniteSet(A) /\ IsFiniteSet(Pending) /\ IsFiniteSet(free_rows)
        /\ IsFiniteSet(Rows)
    BY RowsAssumption, FS_Subset DEF TypeOK, Pending
  <1>2. /\ Cardinality(A) \in Nat /\ Cardinality(Pending) \in Nat
        /\ Cardinality(free_rows) \in Nat /\ Cap \in Nat
    BY <1>1, FS_CardinalityType DEF Cap
  <1>3. IsFiniteSet(X) /\ Cardinality(X) <= Cardinality(A)
    <2>1. g \in Surjection(A, X)
      BY DEF Surjection
    <2>2. QED  BY <1>1, <2>1, FS_Surjection
  <1>4. IsFiniteSet(Y) /\ Cardinality(Y) <= Cardinality(Pending)
    <2>1. h \in Surjection(Pending, Y)
      BY DEF Surjection
    <2>2. QED  BY <1>1, <2>1, FS_Surjection
  <1>5. Cardinality(X) \in Nat /\ Cardinality(Y) \in Nat
    BY <1>3, <1>4, FS_CardinalityType
  <1>6. /\ IsFiniteSet(X \cup Y)
        /\ Cardinality(X \cup Y) \in Nat
        /\ Cardinality(X \cup Y) <= Cardinality(X) + Cardinality(Y)
    <2>1. /\ IsFiniteSet(X \cup Y) /\ IsFiniteSet(X \cap Y)
          /\ Cardinality(X \cup Y) = Cardinality(X) + Cardinality(Y) - Cardinality(X \cap Y)
      BY <1>3, <1>4, FS_Union, FS_Intersection
    <2>2. Cardinality(X \cap Y) \in Nat /\ Cardinality(X \cup Y) \in Nat
      BY <2>1, FS_CardinalityType
    <2>3. QED  BY <1>5, <2>1, <2>2
  <1>7. /\ IsFiniteSet(free_rows \cup (X \cup Y))
        /\ Cardinality(free_rows \cup (X \cup Y)) \in Nat
        /\ Cardinality(free_rows \cup (X \cup Y))
             <= Cardinality(free_rows) + Cardinality(X \cup Y)
    <2> DEFINE Z == X \cup Y
    <2>1. /\ IsFiniteSet(free_rows \cup Z) /\ IsFiniteSet(free_rows \cap Z)
          /\ Cardinality(free_rows \cup Z)
               = Cardinality(free_rows) + Cardinality(Z) - Cardinality(free_rows \cap Z)
      BY <1>1, <1>6, FS_Union, FS_Intersection
    <2>2. Cardinality(free_rows \cap Z) \in Nat /\ Cardinality(free_rows \cup Z) \in Nat
      BY <2>1, FS_CardinalityType
    <2>3. QED  BY <1>2, <1>6, <2>1, <2>2
  <1>8. Rows \subseteq free_rows \cup (X \cup Y)
    OBVIOUS
  <1>9. Cap <= Cardinality(free_rows \cup (X \cup Y))
    BY <1>7, <1>8, FS_Subset DEF Cap
  <1> HIDE DEF X, Y
  <1>10. QED  BY <1>1, <1>2, <1>3, <1>4, <1>5, <1>6, <1>7, <1>9

\* The union of two finite sets is no larger than both together.
LEMMA UnionBound ==
  ASSUME NEW S, NEW T, IsFiniteSet(S), IsFiniteSet(T)
  PROVE  /\ IsFiniteSet(S \cup T) /\ Cardinality(S \cup T) \in Nat
         /\ Cardinality(S) \in Nat /\ Cardinality(T) \in Nat
         /\ Cardinality(S \cup T) <= Cardinality(S) + Cardinality(T)
  <1>1. /\ IsFiniteSet(S \cup T) /\ IsFiniteSet(S \cap T)
        /\ Cardinality(S \cup T) = Cardinality(S) + Cardinality(T) - Cardinality(S \cap T)
    BY FS_Union, FS_Intersection
  <1>2. /\ Cardinality(S \cap T) \in Nat /\ Cardinality(S \cup T) \in Nat
        /\ Cardinality(S) \in Nat /\ Cardinality(T) \in Nat
    BY <1>1, FS_CardinalityType
  <1>3. QED  BY <1>1, <1>2

\* The experts that only an earlier demand's lease keeps, and how many.
OtherLeased == {e \in Resident \ route : e2r[e] \in leased}

LEMMA FewOtherLeased ==
  ASSUME DemandInv
  PROVE  /\ IsFiniteSet(OtherLeased) /\ Cardinality(OtherLeased) \in Nat
         /\ LeftOver \in Nat /\ Cardinality(OtherLeased) <= LeftOver
  <1>1. IsFiniteSet(OtherLeased) /\ IsFiniteSet(leased)
    BY RowsAssumption, FS_Subset DEF OtherLeased, Resident, DemandInv, BaseInv, TypeOK
  <1>2. Cardinality(OtherLeased) \in Nat /\ Cardinality(leased) \in Nat
    BY <1>1, FS_CardinalityType
  <1>3. LeftOver \in Nat
    BY BoundsAssumption DEF LeftOver
  <1>4. CASE ~LastLayer
    <2>1. OtherLeased = {}
      BY <1>4 DEF OtherLeased, RoomInv, DemandInv
    <2>2. Cardinality(OtherLeased) = 0
      BY <2>1, FS_EmptySet
    <2>3. QED  BY <1>1, <1>2, <1>3, <2>2
  <1>5. CASE LastLayer
    <2> DEFINE f == [e \in OtherLeased |-> e2r[e]]
    <2>1. f \in Injection(OtherLeased, leased)
      <3>1. f \in [OtherLeased -> leased]
        BY DEF OtherLeased
      <3>2. \A d, e \in OtherLeased : f[d] = f[e] => d = e
        BY DEF OtherLeased, Resident, RowExclusive, DemandInv, BaseInv
      <3>3. QED  BY <3>1, <3>2 DEF Injection, IsInjective
    <2>2. Cardinality(OtherLeased) <= Cardinality(leased)
      BY <1>1, <2>1, FS_Injection
    <2>3. Cardinality(leased) <= MaxRoute /\ LeftOver = MaxRoute
      BY <1>5 DEF LeasesFew, DemandInv, LeftOver
    <2>4. QED  BY <1>1, <1>2, <1>3, <2>2, <2>3
  <1>6. QED  BY <1>4, <1>5, SwitchesAssumption

\* In a roomy pool an allocation with no free row left still finds a verified
\* expert to evict, outside the route: the preflight suffices, and a rescued
\* expert, still speculative, is not the one evicted.
LEMMA VerifiedVictim ==
  ASSUME DemandInv, Roomy, pc = "alloc", free_rows = {}
  PROVE  Evictable(RealNeeded) \ speculative # {}
  <1> SUFFICES ASSUME Evictable(RealNeeded) \subseteq speculative PROVE FALSE
    OBVIOUS
  <1>1. PICK t \in todo : t \in route /\ t \notin Resident /\ t \in Experts
    BY DEF PhaseInv, DemandInv, OneRowInv, TypeOK, BaseInv
  <1> DEFINE A == speculative \cup (pinned \cup (route \ {t}))
             C == A \cup OtherLeased
             B == C \ {t}
  <1>2. \A e \in Resident : e \in B
    BY <1>1 DEF Evictable, RealNeeded, OtherLeased
  <1>3. B \in SUBSET Experts
    BY DEF DemandInv, TypeOK, BaseInv, OtherLeased, Resident
  <1>4. \A r \in Rows : \/ r \in free_rows
                        \/ \E e \in B : e2r[e] = r
                        \/ \E e \in Pending : pending_e2r[e] = r
    BY <1>2, RowsAssumption DEF DemandInv, OneRowInv, NoRowLost, Resident,
       Pending, BaseInv
  <1>5. /\ IsFiniteSet(B) /\ Cardinality(B) \in Nat /\ Cap \in Nat
        /\ Cardinality(Pending) \in Nat
        /\ Cap <= Cardinality(B) + Cardinality(Pending)
    <2>1. /\ IsFiniteSet(B) /\ Cardinality(B) \in Nat /\ Cap \in Nat
          /\ Cardinality(Pending) \in Nat /\ Cardinality(free_rows) \in Nat
          /\ Cap <= Cardinality(free_rows) + Cardinality(B) + Cardinality(Pending)
      BY <1>3, <1>4, RowsCovered DEF DemandInv, BaseInv
    <2>2. Cardinality(free_rows) = 0
      BY FS_EmptySet
    <2> HIDE DEF B
    <2>3. QED  BY <2>1, <2>2
  <1>6. /\ IsFiniteSet(route) /\ IsFiniteSet(pinned) /\ IsFiniteSet(speculative)
    BY RowsAssumption, FS_Subset DEF DemandInv, TypeOK, BaseInv
  <1>7. /\ IsFiniteSet(route \ {t})
        /\ Cardinality(route \ {t}) \in Nat /\ Cardinality(route) \in Nat
        /\ Cardinality(route \ {t}) = Cardinality(route) - 1
    BY <1>1, <1>6, FS_RemoveElement, FS_CardinalityType
  <1>8. /\ IsFiniteSet(pinned \cup (route \ {t}))
        /\ Cardinality(pinned \cup (route \ {t})) \in Nat /\ Cardinality(pinned) \in Nat
        /\ Cardinality(pinned \cup (route \ {t})) <= Cardinality(pinned) + Cardinality(route \ {t})
    BY <1>6, <1>7, UnionBound
  <1>9. /\ IsFiniteSet(A) /\ Cardinality(A) \in Nat /\ Cardinality(speculative) \in Nat
        /\ Cardinality(A) <= Cardinality(speculative) + Cardinality(pinned \cup (route \ {t}))
    BY <1>6, <1>8, UnionBound
  <1>a. /\ IsFiniteSet(C) /\ Cardinality(C) \in Nat
        /\ Cardinality(OtherLeased) \in Nat
        /\ Cardinality(C) <= Cardinality(A) + Cardinality(OtherLeased)
    <2> HIDE DEF A
    <2>1. QED  BY <1>9, FewOtherLeased, UnionBound
  <1>10. Cardinality(B) <= Cardinality(C)
    <2> HIDE DEF C
    <2>1. QED  BY <1>a, FS_Subset
  <1>11. /\ Cardinality(pinned) <= MaxPins /\ Cardinality(route) <= MaxRoute
         /\ Cardinality(speculative) + Cardinality(Pending) <= SpecLimit
         /\ MaxRoute + MaxPins + SpecLimit + LeftOver <= Cap
         /\ Cardinality(OtherLeased) <= LeftOver /\ LeftOver \in Nat
         /\ MaxRoute \in Nat /\ MaxPins \in Nat /\ SpecLimit \in Nat
    BY BoundsAssumption, FewOtherLeased
    DEF DemandInv, RoomInv, SpecQuota, SpecInflight, Roomy, BaseInv
  <1> HIDE DEF A, B, C
  <1>12. QED  BY <1>5, <1>7, <1>8, <1>9, <1>a, <1>10, <1>11

LEMMA PreflightHolds ==
  ASSUME DemandInv, Roomy
  PROVE  PreflightSuffices
  BY VerifiedVictim DEF PreflightSuffices, CanAlloc, DemandVictims

\* In a roomy pool a pin always finds a row.
LEMMA PinFindsRow ==
  ASSUME DemandInv, Roomy, pc = "pin"
  PROVE  CanAlloc(route)
  <1> SUFFICES ASSUME free_rows = {}, Evictable(route) = {} PROVE FALSE
    BY DEF CanAlloc, DemandVictims
  <1>1. PICK t \in todo : t \in pinned /\ t \notin Resident /\ t \in Experts
    BY DEF PhaseInv, DemandInv, OneRowInv, TypeOK, BaseInv
  <1> DEFINE P == pinned \ {t}
             B == P \cup OtherLeased
  <1>2. \A e \in Resident : e \in B
    BY <1>1 DEF Evictable, PhaseInv, DemandInv, BaseInv, OtherLeased
  <1>3. B \in SUBSET Experts
    BY DEF DemandInv, TypeOK, BaseInv, OtherLeased, Resident
  <1>4. \A r \in Rows : \/ r \in free_rows
                        \/ \E e \in B : e2r[e] = r
                        \/ \E e \in Pending : pending_e2r[e] = r
    BY <1>2, RowsAssumption DEF DemandInv, OneRowInv, NoRowLost, Resident,
       Pending, BaseInv
  <1>5. /\ IsFiniteSet(B) /\ Cardinality(B) \in Nat /\ Cap \in Nat
        /\ Cap <= Cardinality(B)
    <2>1. /\ IsFiniteSet(B) /\ Cardinality(B) \in Nat /\ Cap \in Nat
          /\ Cardinality(Pending) \in Nat /\ Cardinality(free_rows) \in Nat
          /\ Cap <= Cardinality(free_rows) + Cardinality(B) + Cardinality(Pending)
      BY <1>3, <1>4, RowsCovered DEF DemandInv, BaseInv
    <2>2. Cardinality(free_rows) = 0 /\ Cardinality(Pending) = 0
      BY FS_EmptySet DEF OneRowInv, DemandInv, BaseInv
    <2> HIDE DEF B
    <2>3. QED  BY <2>1, <2>2
  <1>6. IsFiniteSet(pinned)
    BY RowsAssumption, FS_Subset DEF DemandInv, TypeOK, BaseInv
  <1>7. /\ IsFiniteSet(P) /\ Cardinality(P) \in Nat /\ Cardinality(pinned) \in Nat
        /\ Cardinality(P) = Cardinality(pinned) - 1
    BY <1>1, <1>6, FS_RemoveElement, FS_CardinalityType
  <1>8. Cardinality(B) <= Cardinality(P) + Cardinality(OtherLeased)
    <2> HIDE DEF P
    <2>1. QED  BY <1>7, FewOtherLeased, UnionBound
  <1>9. /\ Cardinality(pinned) <= MaxPins /\ Cardinality(OtherLeased) <= LeftOver
        /\ Cardinality(OtherLeased) \in Nat /\ LeftOver \in Nat
        /\ MaxRoute + MaxPins + SpecLimit + LeftOver <= Cap
        /\ MaxRoute \in Nat /\ MaxPins \in Nat /\ SpecLimit \in Nat
    BY BoundsAssumption, FewOtherLeased DEF DemandInv, RoomInv, Roomy
  <1> HIDE DEF P, B
  <1>10. QED  BY <1>5, <1>7, <1>8, <1>9

-----------------------------------------------------------------------------
LEMMA RoomInit == Init => PhaseInv /\ RoomInv /\ LeasesFew
  <1> SUFFICES ASSUME Init PROVE PhaseInv /\ RoomInv /\ LeasesFew
    OBVIOUS
  <1>1. PhaseInv
    BY DEF Init, PhaseInv
  <1>2. Cardinality({}) = 0
    BY FS_EmptySet
  <1>3. RoomInv /\ LeasesFew
    BY <1>2, BoundsAssumption DEF Init, RoomInv, LeasesFew, NoRows, Resident
  <1>4. QED  BY <1>1, <1>3

LEMMA RoomStep ==
  ASSUME BaseInv, PhaseInv, RoomInv, [Next]_vars
  PROVE  PhaseInv' /\ RoomInv'
  <1> USE RowsAssumption DEF RowMap, Resident, Pending
  <1>a. ASSUME UNCHANGED <<e2r, pinned, leased, pc, mode, route, side, todo, reads>>
        PROVE  PhaseInv' /\ RoomInv'
    BY <1>a DEF PhaseInv, RoomInv
  <1>1. CASE UNCHANGED vars
    BY <1>1, <1>a DEF vars, poolVars, demandVars
  <1>2. CASE CallbackNext
    <2>1. ASSUME NEW e \in Experts, ReserveStep(e) PROVE PhaseInv' /\ RoomInv'
      <3>1. UNCHANGED <<pinned, leased, pc, mode, route, side, todo, reads>>
        BY <2>1 DEF ReserveStep, demandVars
      <3>2. \A f \in Experts : e2r'[f] = e2r[f] \/ e2r'[f] = NoRow
        BY <2>1 DEF ReserveStep, PrefetchVictims, SpecVictims, VerifiedVictims,
                    Evictable, BaseInv, TypeOK
      <3>3. QED  BY <3>1, <3>2 DEF PhaseInv, RoomInv
    <2>2. QED
      BY <1>2, <1>a, <2>1 DEF CallbackNext, ReserveBegin, ReserveSkip, ReserveEnd,
         poolVars, demandVars
  <1>3. CASE ReaderNext
    <2>1. PICK e \in Experts : PrefetchRead(e) \/ PrefetchPublish(e) \/ PrefetchAbort(e)
      BY <1>3 DEF ReaderNext
    <2>2. /\ pending_e2r[e] \notin leased
          /\ UNCHANGED <<pinned, leased, pc, mode, route, side, todo, reads>>
      BY <2>1 DEF PrefetchRead, PrefetchPublish, PrefetchAbort, BaseInv, LeaseInv,
         poolVars, demandVars
    <2>3. e2r' = e2r \/ e2r' = [e2r EXCEPT ![e] = pending_e2r[e]]
      BY <2>1 DEF PrefetchRead, PrefetchPublish, PrefetchAbort, poolVars
    <2>4. QED  BY <2>2, <2>3 DEF PhaseInv, RoomInv, BaseInv, TypeOK
  <1>4. ASSUME NEW e \in Experts, AllocMiss(e) \/ PinAlloc(e)
        PROVE  PhaseInv' /\ RoomInv'
    <2>1. PICK r \in Rows : AllocSlot(e, r, RealNeeded) \/ AllocSlot(e, r, route)
      BY <1>4 DEF AllocMiss, PinAlloc
    <2>2. /\ e \in todo /\ todo' = todo \ {e} /\ e \notin Resident
          /\ UNCHANGED <<pinned, leased, mode, route, side, reads>>
          /\ \/ pc = "alloc" /\ pc' = (IF todo' = {} THEN "fetch" ELSE "alloc")
             \/ pc = "pin" /\ pc' = (IF todo' = {} THEN "write" ELSE "pin")
      BY <1>4 DEF AllocMiss, PinAlloc, BaseInv, OneRowInv
    <2>3. r \notin leased
      BY <2>1, <2>2, AllocSlotUnleased DEF BaseInv
    <2>4. \A f \in Experts : e2r'[f] = e2r[f] \/ e2r'[f] = NoRow \/ e2r'[f] = r
      BY <2>1 DEF AllocSlot, DemandVictims, Evictable, BaseInv, TypeOK
    <2>5. PhaseInv'
      BY <2>2 DEF PhaseInv
    <2>6. RoomInv'
      BY <2>2, <2>3, <2>4 DEF RoomInv
    <2>7. QED  BY <2>5, <2>6
  <1>5. ASSUME NEW R \in SUBSET Experts, NEW m \in Modes, Begin(R, m)
        PROVE  PhaseInv' /\ RoomInv'
    BY <1>5 DEF Begin, PhaseInv, RoomInv, poolVars
  <1>6. ASSUME NEW e \in Experts, Remap(e) PROVE PhaseInv' /\ RoomInv'
    <2>1. /\ pc = "remap" /\ e \in todo /\ todo' = todo \ {e}
          /\ leased' = leased \cup ({e2r[e]} \ {NoRow})
          /\ UNCHANGED <<e2r, pinned, pc, mode, route, side, reads>>
      BY <1>6 DEF Remap, poolVars
    <2>2. PhaseInv'
      BY <2>1 DEF PhaseInv
    <2>3. RoomInv'
      BY <2>1 DEF RoomInv, PhaseInv, BaseInv, RowExclusive
    <2>4. QED  BY <2>2, <2>3
  <1>7. ASSUME HandlerStart \/ Join \/ Lookup \/ Note PROVE PhaseInv' /\ RoomInv'
    BY <1>7 DEF HandlerStart, Join, Lookup, Note, PhaseInv, RoomInv, BaseInv,
       TypeOK,
       poolVars
  <1>8. ASSUME Core PROVE PhaseInv' /\ RoomInv'
    BY <1>8 DEF Core, PhaseInv, RoomInv, RealNeeded
  <1>9. ASSUME CoreOverCap \/ AllocThrow \/ Retire \/ PinThrow \/ PinWrite
        PROVE  PhaseInv' /\ RoomInv'
    BY <1>9 DEF CoreOverCap, AllocThrow, Retire, PinThrow, PinWrite, DemandOver,
       PhaseInv, RoomInv, poolVars
  <1>10. ASSUME StatsReset \/ ReleaseLeases PROVE PhaseInv' /\ RoomInv'
    BY <1>10 DEF StatsReset, ReleaseLeases, PhaseInv, RoomInv, poolVars, demandVars
  <1>11. ASSUME NEW e \in Experts, DemandRead(e) \/ DemandReadDone(e)
         PROVE  PhaseInv' /\ RoomInv'
    BY <1>11 DEF DemandRead, DemandReadDone, PhaseInv, RoomInv, poolVars, demandVars
  <1>12. ASSUME NEW S \in SUBSET Experts, PinBegin(S) PROVE PhaseInv' /\ RoomInv'
    BY <1>12 DEF PinBegin, PhaseInv, RoomInv
  <1>13. QED
    BY <1>1, <1>2, <1>3, <1>4, <1>5, <1>6, <1>7, <1>8, <1>9, <1>10, <1>11, <1>12
    DEF Next, DemandNext, PinNext

\* Each expert remapped leases at most its own row.
LEMMA RemapLeases ==
  ASSUME TypeOK, PhaseInv, RoomInv, LeasesFew, NEW e \in Experts, Remap(e)
  PROVE  LeasesFew'
  <1> DEFINE D == route \ todo
  <1>1. /\ pc = "remap" /\ e \in todo /\ todo' = todo \ {e} /\ route' = route
        /\ leased' \subseteq leased \cup {e2r[e]} /\ todo \subseteq route
    BY DEF Remap, PhaseInv
  <1>2. IsFiniteSet(leased) /\ IsFiniteSet(route) /\ IsFiniteSet(D)
    BY RowsAssumption, FS_Subset DEF TypeOK
  <1>3. /\ IsFiniteSet(D \cup {e}) /\ Cardinality(D \cup {e}) = Cardinality(D) + 1
        /\ Cardinality(D) \in Nat
    BY <1>1, <1>2, FS_AddElement, FS_CardinalityType
  <1>4. Cardinality(leased') <= Cardinality(leased) + 1
        /\ Cardinality(leased) \in Nat /\ Cardinality(leased') \in Nat
    <2>1. /\ IsFiniteSet(leased \cup {e2r[e]})
          /\ Cardinality(leased \cup {e2r[e]}) \in Nat
          /\ Cardinality(leased \cup {e2r[e]}) <= Cardinality(leased) + 1
      BY <1>2, OneMore
    <2>2. IsFiniteSet(leased') /\ Cardinality(leased') <= Cardinality(leased \cup {e2r[e]})
      BY <1>1, <2>1, FS_Subset
    <2>3. Cardinality(leased) \in Nat /\ Cardinality(leased') \in Nat
      BY <1>2, <2>2, FS_CardinalityType
    <2>4. QED  BY <2>1, <2>2, <2>3
  <1>5. route' \ todo' = D \cup {e} /\ D \cup {e} \in SUBSET route
    BY <1>1
  <1>6. /\ Cardinality(D \cup {e}) <= Cardinality(route)
        /\ Cardinality(route) \in Nat /\ Cardinality(route) <= MaxRoute
    BY <1>1, <1>2, <1>5, FS_Subset, FS_CardinalityType DEF RoomInv
  <1>7. Cardinality(leased) <= Cardinality(D)
    BY <1>1 DEF LeasesFew
  <1> HIDE DEF D
  <1>8. /\ Cardinality(leased') <= Cardinality(D \cup {e})
        /\ Cardinality(leased') <= MaxRoute
    BY <1>3, <1>4, <1>6, <1>7, BoundsAssumption
  <1>9. QED  BY <1>5, <1>8 DEF LeasesFew

LEMMA LeasesFewStep ==
  ASSUME TypeOK, PhaseInv, RoomInv, LeasesFew, [Next]_vars
  PROVE  LeasesFew'
  <1>1. ASSUME leased' \subseteq leased,
               pc' = "remap" => leased' = leased /\ UNCHANGED <<pc, route, todo>>
        PROVE  LeasesFew'
    <2>1. IsFiniteSet(leased)
      BY RowsAssumption, FS_Subset DEF TypeOK
    <2>2. IsFiniteSet(leased') /\ Cardinality(leased') <= Cardinality(leased)
      BY <1>1, <2>1, FS_Subset
    <2>3. Cardinality(leased) \in Nat /\ Cardinality(leased') \in Nat
      BY <2>1, <2>2, FS_CardinalityType
    <2>4. Cardinality(leased') <= MaxRoute
      BY <2>2, <2>3, BoundsAssumption DEF LeasesFew
    <2>5. QED  BY <1>1, <2>4 DEF LeasesFew
  <1>2. CASE UNCHANGED vars
    BY <1>1, <1>2 DEF vars, demandVars
  <1>3. CASE CallbackNext \/ ReaderNext
    <2>1. UNCHANGED <<leased, pc, route, todo>>
      BY <1>3 DEF CallbackNext, ReserveBegin, ReserveStep, ReserveSkip, ReserveEnd,
         ReaderNext, PrefetchRead, PrefetchPublish, PrefetchAbort, demandVars
    <2>2. QED  BY <1>1, <2>1
  <1>4. ASSUME NEW R \in SUBSET Experts, NEW m \in Modes, Begin(R, m)
        PROVE  LeasesFew'
    <2>1. CASE m = "async"
      <3>1. leased' = {} /\ route' \ todo' = {}
        BY <1>4, <2>1 DEF Begin
      <3>2. Cardinality({}) = 0
        BY FS_EmptySet
      <3>3. QED  BY <3>1, <3>2, BoundsAssumption DEF LeasesFew
    <2>2. CASE m # "async"
      <3>1. leased' = leased /\ pc' = "join"
        BY <1>4, <2>2 DEF Begin
      <3>2. QED  BY <1>1, <3>1
    <2>3. QED  BY <2>1, <2>2
  <1>5. ASSUME NEW e \in Experts, Remap(e) PROVE LeasesFew'
    BY <1>5, RemapLeases
  <1>6. ASSUME CoreOverCap \/ AllocThrow \/ Retire \/ ReleaseLeases \/ PinThrow \/ PinWrite
        PROVE  LeasesFew'
    <2>1. leased' \subseteq leased /\ pc' = "idle"
      BY <1>6 DEF CoreOverCap, AllocThrow, Retire, ReleaseLeases, PinThrow,
         PinWrite, DemandOver, demandVars
    <2>2. QED  BY <1>1, <2>1
  <1>7. ASSUME \/ HandlerStart \/ Join \/ Lookup \/ Note \/ Core \/ StatsReset
               \/ \E e \in Experts : AllocMiss(e) \/ DemandRead(e) \/ DemandReadDone(e)
               \/ \E e \in Experts : PinAlloc(e)
               \/ \E S \in SUBSET Experts : PinBegin(S)
        PROVE  LeasesFew'
    <2>1. leased' = leased /\ pc' # "remap"
      BY <1>7 DEF HandlerStart, Join, Lookup, Note, Core, StatsReset, AllocMiss,
         DemandRead, DemandReadDone, PinAlloc, PinBegin, demandVars
    <2>2. QED  BY <1>1, <2>1
  <1>8. QED
    BY <1>2, <1>3, <1>4, <1>5, <1>6, <1>7 DEF Next, DemandNext, PinNext

LEMMA ServeInit == Init => ServeInv
  <1> SUFFICES ASSUME Init PROVE ServeInv
    OBVIOUS
  <1>1. EntryInv /\ PlacedInv
    BY DEF Init, EntryInv, PlacedInv
  <1>2. BytesInv
    BY DEF Init, BytesInv, NoRows, Resident
  <1>3. QED  BY <1>1, <1>2 DEF ServeInv

\* A step that leaves rows, bytes, leases and the demand alone.
LEMMA ServeFrame ==
  ASSUME ServeInv,
         UNCHANGED <<e2r, pending_e2r, free_rows, speculative, pinned, leased,
                     content, writers, pc, mode, route, entry, side, local,
                     todo, reads>>
  PROVE  ServeInv'
  <1>1. EntryInv'
    BY DEF ServeInv, EntryInv, Resident
  <1>2. PlacedInv'
    BY DEF ServeInv, PlacedInv, Held, Resident
  <1>3. BytesInv'
    BY DEF ServeInv, BytesInv, Resident
  <1>4. QED  BY <1>1, <1>2, <1>3 DEF ServeInv

LEMMA CallbackServe ==
  ASSUME LateSparesRoute, DemandInv, ServeInv, CallbackNext
  PROVE  ServeInv'
  <1>1. ASSUME NEW P \in SUBSET Experts, ReserveBegin(P) PROVE ServeInv'
    BY <1>1, ServeFrame DEF ReserveBegin, poolVars, byteVars, demandVars
  <1>2. ASSUME NEW e \in Experts, ReserveSkip(e) PROVE ServeInv'
    BY <1>2, ServeFrame DEF ReserveSkip, poolVars, byteVars, demandVars
  <1>3. CASE ReserveEnd
    BY <1>3, ServeFrame DEF ReserveEnd, poolVars, byteVars, demandVars
  <1>4. ASSUME NEW e \in Experts, ReserveStep(e) PROVE ServeInv'
    <2> USE RowsAssumption DEF RowMap, Resident
    <2>1. /\ cb.on /\ pc \notin {"alloc", "pin"}
          /\ UNCHANGED <<pinned, content, writers, leased, pc, mode, route, entry,
                         side, local, todo, reads>>
      BY <1>4 DEF ReserveStep, DemandInv, OneRowInv, byteVars, demandVars, BaseInv
    <2>2. \A f \in Experts :
             \/ e2r'[f] = e2r[f]
             \/ e2r'[f] = NoRow /\ e2r[f] \notin leased
      <3>1. CASE FromFree
        BY <1>4, <3>1 DEF ReserveStep
      <3>2. CASE ~FromFree
        <4>1. PICK v \in PrefetchVictims : e2r' = [e2r EXCEPT ![v] = NoRow]
          BY <1>4, <3>2 DEF ReserveStep
        <4>2. v \in Experts /\ e2r[v] \notin leased
          BY <4>1 DEF PrefetchVictims, SpecVictims, VerifiedVictims, Evictable
        <4>3. QED  BY <4>1, <4>2 DEF DemandInv, TypeOK, BaseInv
      <3>3. QED  BY <3>1, <3>2
    <2>3. pc \notin {"idle", "remap", "join"} => \A f \in route : e2r'[f] = e2r[f]
      BY <2>1 DEF LateSparesRoute
    <2>4. PlacedInv'
      BY <2>1, <2>3 DEF ServeInv, PlacedInv, Held, PhaseInv, DemandInv
    <2>5. EntryInv'
      BY <2>1, <2>2 DEF ServeInv, EntryInv, DemandInv, TypeOK, BaseInv
    <2>6. BytesInv'
      BY <2>1, <2>2 DEF ServeInv, BytesInv
    <2>7. QED  BY <2>4, <2>5, <2>6 DEF ServeInv
  <1>5. QED  BY <1>1, <1>2, <1>3, <1>4 DEF CallbackNext

\* The row of a resident expert is written by nobody but, while it is being
\* fetched, by the demand; a reserved row by its own read alone.
LEMMA SoleWriter ==
  ASSUME DemandInv, ServeInv, NEW e \in Experts, NEW r \in Rows,
         \/ pending_e2r[e] = r
         \/ pc = "fetch" /\ e2r[e] = r
  PROVE  writers[r] \subseteq {e}
  <1> USE RowsAssumption DEF RowMap, Resident, Pending
  <1>1. Torn \notin writers[r] /\ writers[r] \subseteq Experts \cup {Torn}
    BY DEF ServeInv, BytesInv, DemandInv, TypeOK, BaseInv
  <1>2. ASSUME NEW f \in Experts, f \in writers[r] PROVE f = e
    <2>1. \/ pending_e2r[f] = r
          \/ pc = "fetch" /\ f \in reads /\ local[f] = r
      BY <1>2 DEF DemandInv, LeaseInv, BaseInv
    <2>2. pc = "fetch" /\ f \in reads => local[f] = e2r[f] /\ e2r[f] # NoRow
      BY DEF ServeInv, PhaseInv, PlacedInv, Held, DemandInv, BaseInv
    <2>3. pending_e2r[f] = r \/ e2r[f] = r
      BY <2>1, <2>2
    <2>4. QED  BY <2>3 DEF DemandInv, RowExclusive, BaseInv
  <1>3. QED  BY <1>1, <1>2

LEMMA ReaderServe ==
  ASSUME DemandInv, ServeInv, ReaderNext
  PROVE  ServeInv'
  <1> PICK e \in Experts : PrefetchRead(e) \/ PrefetchPublish(e) \/ PrefetchAbort(e)
    BY DEF ReaderNext
  <1> USE RowsAssumption DEF RowMap, Resident, Pending
  <1> DEFINE row == pending_e2r[e]
  <1>1. /\ row \in Rows /\ e2r[e] = NoRow /\ writers[row] \subseteq {e}
        /\ row \notin leased /\ pc # "pin"
        /\ \A f \in Experts : e2r[f] # NoRow => e2r[f] # row
        /\ UNCHANGED <<pinned, leased, pc, mode, route, entry, side, local,
                       todo, reads>>
    <2>1. e \in Pending
      BY DEF PrefetchRead, PrefetchPublish, PrefetchAbort
    <2>2. row \in Rows
      BY <2>1 DEF DemandInv, TypeOK, BaseInv
    <2>3. writers[row] \subseteq {e}
      BY <2>2, SoleWriter
    <2>4. e2r[e] = NoRow /\ row \notin leased /\ pc # "pin"
          /\ \A f \in Experts : e2r[f] # NoRow => e2r[f] # row
      BY <2>1 DEF DemandInv, OneRowInv, LeaseInv, ServeInv, PhaseInv, RowExclusive,
         BaseInv
    <2>5. UNCHANGED <<pinned, leased, pc, mode, route, entry, side, local,
                      todo, reads>>
      BY DEF PrefetchRead, PrefetchPublish, PrefetchAbort, poolVars,
         demandVars
    <2>6. QED  BY <2>2, <2>3, <2>4, <2>5
  <1>2. /\ \A r \in Rows : r # row => content'[r] = content[r]
        /\ \A r \in Rows : Torn \notin writers'[r]
    <2>1. Torn \notin writers[row] /\ \A r \in Rows : Torn \notin writers[r]
      BY <1>1 DEF ServeInv, BytesInv
    <2>2. CASE WriteBegin(e, row)
      BY <1>1, <2>1, <2>2 DEF WriteBegin, DemandInv, TypeOK, BaseInv
    <2>3. ASSUME NEW c, WriteEnd(e, row, c) PROVE <1>2!1 /\ <1>2!2
      BY <1>1, <2>1, <2>3 DEF WriteEnd, DemandInv, TypeOK, BaseInv
    <2>4. CASE UNCHANGED byteVars
      BY <2>1, <2>4 DEF byteVars
    <2>5. QED
      BY <2>2, <2>3, <2>4 DEF PrefetchRead, PrefetchPublish, PrefetchAbort
  <1> HIDE DEF row
  <1>3. ASSUME e2r' = e2r
        PROVE  ServeInv'
    <2>1. EntryInv'
      BY <1>1, <1>3 DEF ServeInv, PhaseInv, RoomInv, EntryInv, DemandInv, BaseInv
    <2>2. PlacedInv'
      BY <1>1, <1>3 DEF ServeInv, PlacedInv, Held
    <2>3. BytesInv'
      BY <1>1, <1>2, <1>3 DEF ServeInv, BytesInv, DemandInv, TypeOK, BaseInv
    <2>4. QED  BY <2>1, <2>2, <2>3 DEF ServeInv
  <1>4. CASE PrefetchRead(e)
    BY <1>3, <1>4 DEF PrefetchRead, poolVars
  <1>5. CASE PrefetchAbort(e)
    BY <1>3, <1>5 DEF PrefetchAbort
  <1>6. CASE PrefetchPublish(e)
    <2>1. e2r' = [e2r EXCEPT ![e] = row] /\ WriteEnd(e, row, TRUE)
      BY <1>6 DEF PrefetchPublish, row
    <2>2. /\ e2r'[e] = row
          /\ \A f \in Experts : f # e => e2r'[f] = e2r[f]
      BY <2>1 DEF DemandInv, TypeOK, BaseInv
    <2>3. content'[row] = e
      <3>1. writers[row] = {e}
        BY <1>1, <2>1 DEF WriteEnd
      <3>2. QED  BY <1>1, <2>1, <3>1 DEF WriteEnd, DemandInv, TypeOK, BaseInv
    <2>6. EntryInv'
      BY <1>1, <2>1, <2>2 DEF ServeInv, EntryInv
    <2>7. PlacedInv'
      BY <1>1, <2>1, <2>2 DEF ServeInv, PlacedInv, Held
    <2>8. BytesInv'
      BY <1>1, <1>2, <2>2, <2>3 DEF ServeInv, BytesInv, DemandInv, TypeOK, BaseInv
    <2>9. QED  BY <2>6, <2>7, <2>8 DEF ServeInv
  <1>7. QED  BY <1>4, <1>5, <1>6

\* What an allocation does to the maps, whoever asks and whatever is protected.
LEMMA AllocSlotMoves ==
  ASSUME TypeOK, NEW e \in Experts, NEW r \in Rows, NEW protect,
         AllocSlot(e, r, protect), e \notin Resident
  PROVE  /\ e2r'[e] = r
         /\ \/ /\ free_rows # {} /\ r \in free_rows /\ free_rows' = free_rows \ {r}
               /\ speculative' = speculative
               /\ \A f \in Experts : f # e => e2r'[f] = e2r[f]
            \/ /\ free_rows = {} /\ free_rows' = free_rows
               /\ \E v \in DemandVictims(protect) :
                    /\ v \in Resident /\ v # e
                    /\ speculative' = speculative \ {v} /\ e2r'[v] = NoRow
                    /\ \A f \in Experts : f \notin {e, v} => e2r'[f] = e2r[f]
  <1> USE RowsAssumption DEF RowMap, Resident
  <1>1. CASE /\ r \in free_rows /\ free_rows' = free_rows \ {r}
             /\ e2r' = [e2r EXCEPT ![e] = r] /\ UNCHANGED speculative
    BY <1>1 DEF TypeOK
  <1>2. CASE /\ free_rows = {}
             /\ \E v \in DemandVictims(protect) :
                  /\ r = e2r[v]
                  /\ e2r' = [e2r EXCEPT ![v] = NoRow, ![e] = r]
                  /\ speculative' = speculative \ {v}
             /\ UNCHANGED free_rows
    <2>1. PICK v \in DemandVictims(protect) :
                  /\ r = e2r[v]
                  /\ e2r' = [e2r EXCEPT ![v] = NoRow, ![e] = r]
                  /\ speculative' = speculative \ {v}
      BY <1>2
    <2>2. v \in Resident
      BY <2>1 DEF DemandVictims, Evictable
    <2>3. v # e /\ v \in Experts
      BY <2>2
    <2>4. /\ e2r'[v] = NoRow /\ e2r'[e] = r
          /\ \A f \in Experts : f \notin {e, v} => e2r'[f] = e2r[f]
      BY <2>1, <2>3 DEF TypeOK
    <2>5. QED  BY <1>2, <2>1, <2>2, <2>3, <2>4
  <1>3. QED  BY <1>1, <1>2 DEF AllocSlot

LEMMA StartServe ==
  ASSUME DemandInv, ServeInv
  PROVE  /\ \A R \in SUBSET Experts : \A m \in Modes : Begin(R, m) => ServeInv'
         /\ \A e \in Experts : Remap(e) => ServeInv'
         /\ HandlerStart => ServeInv'
         /\ Join => ServeInv'
  <1> USE RowsAssumption DEF RowMap, Resident, Pending
  <1>1. ASSUME NEW R \in SUBSET Experts, NEW m \in Modes, Begin(R, m)
        PROVE  ServeInv'
    <2>1. /\ pc = "idle" /\ Cardinality(R) <= MaxRoute
          /\ route' = R /\ mode' = m
          /\ pc' = (IF m = "async" THEN "remap" ELSE "join")
          /\ todo' = (IF m = "async" THEN R ELSE {})
          /\ UNCHANGED <<e2r, pending_e2r, free_rows, speculative, pinned, leased,
                         content, writers, entry, side, local, reads>>
      BY <1>1 DEF Begin, poolVars, byteVars
    <2>4. EntryInv' /\ PlacedInv'
      BY <2>1 DEF ServeInv, EntryInv, PlacedInv
    <2>5. BytesInv'
      BY <2>1 DEF ServeInv, BytesInv
    <2>6. QED  BY <2>4, <2>5 DEF ServeInv
  <1>2. ASSUME NEW e \in Experts, Remap(e) PROVE ServeInv'
    <2>1. /\ pc = "remap" /\ e \in todo /\ todo' = todo \ {e}
          /\ entry' = [entry EXCEPT ![e] = e2r[e]]
          /\ leased' = leased \cup ({e2r[e]} \ {NoRow})
          /\ UNCHANGED <<e2r, pending_e2r, free_rows, speculative, pinned,
                         content, writers, pc, mode, route, side, local, reads>>
      BY <1>2 DEF Remap, poolVars, byteVars
    <2>4. EntryInv'
      <3>1. /\ entry'[e] = e2r[e]
            /\ \A f \in Experts : f # e => entry'[f] = entry[f]
        BY <2>1 DEF DemandInv, TypeOK, BaseInv
      <3>2. route \subseteq Experts
        BY DEF DemandInv, TypeOK, BaseInv
      <3>3. QED  BY <2>1, <3>1, <3>2 DEF ServeInv, EntryInv
    <2>5. PlacedInv'
      BY <2>1 DEF ServeInv, PlacedInv
    <2>6. BytesInv'
      BY <2>1 DEF ServeInv, BytesInv
    <2>7. QED  BY <2>4, <2>5, <2>6 DEF ServeInv
  <1>3. ASSUME HandlerStart PROVE ServeInv'
    <2>1. /\ pc = "remap" /\ todo = {} /\ local' = entry
          /\ pc' = (IF Missing(entry) = {} THEN "note" ELSE "join")
          /\ UNCHANGED <<e2r, pending_e2r, free_rows, speculative, pinned, leased,
                         content, writers, mode, route, entry, side, todo, reads>>
      BY <1>3 DEF HandlerStart, poolVars, byteVars
    <2>3. EntryInv'
      BY <2>1 DEF ServeInv, EntryInv
    <2>4. PlacedInv'
      BY <2>1 DEF ServeInv, PlacedInv, Held, Missing, EntryInv, PhaseInv, DemandInv,
         BaseInv
    <2>5. BytesInv'
      BY <2>1 DEF ServeInv, BytesInv
    <2>6. QED  BY <2>3, <2>4, <2>5 DEF ServeInv
  <1>4. ASSUME Join PROVE ServeInv'
    <2>1. /\ pc = "join" /\ pc' = (IF mode = "sync" THEN "core" ELSE "lookup")
          /\ UNCHANGED <<e2r, pending_e2r, free_rows, speculative, pinned, leased,
                         content, writers, mode, route, entry, side, local, todo,
                         reads>>
      BY <1>4 DEF Join, poolVars, byteVars
    <2>3. EntryInv'
      BY <2>1 DEF ServeInv, EntryInv
    <2>4. PlacedInv'
      BY <2>1 DEF ServeInv, PlacedInv, Held, PhaseInv, DemandInv, BaseInv
    <2>5. BytesInv'
      BY <2>1 DEF ServeInv, BytesInv
    <2>6. QED  BY <2>3, <2>4, <2>5 DEF ServeInv
  <1>5. QED  BY <1>1, <1>2, <1>3, <1>4

LEMMA CoreServe ==
  ASSUME DemandInv, ServeInv
  PROVE  /\ Lookup => ServeInv'
         /\ Note => ServeInv'
         /\ Core => ServeInv'
         /\ CoreOverCap => ServeInv'
  <1> USE RowsAssumption DEF RowMap, Resident, Pending
  <1>1. ASSUME Lookup PROVE ServeInv'
    <2>1. /\ pc = "lookup" /\ todo = {} /\ mode = "async"
          /\ side' = route \cap Resident
          /\ local' = [e \in Experts |-> IF e \in side' THEN e2r[e] ELSE entry[e]]
          /\ pc' = (IF Missing(local') = {} THEN "note" ELSE "core")
          /\ UNCHANGED <<e2r, pending_e2r, free_rows, speculative, pinned, leased,
                         content, writers, mode, route, entry, todo, reads>>
      BY <1>1 DEF Lookup, poolVars, byteVars, ServeInv, PhaseInv, DemandInv, BaseInv
    <2>3. EntryInv'
      BY <2>1 DEF ServeInv, EntryInv
    <2>4. route \subseteq Experts
      BY DEF DemandInv, TypeOK, BaseInv
    <2>5. Held(side)'
      BY <2>1, <2>4 DEF Held
    <2>6. ASSUME pc' = "note" PROVE Held(route)'
      <3>1. \A e \in route : local'[e] # NoRow
        BY <2>1, <2>6 DEF Missing
      <3>2. \A e \in route : e2r[e] # NoRow /\ local'[e] = e2r[e]
        BY <2>1, <2>4, <3>1 DEF ServeInv, EntryInv
      <3>3. QED  BY <2>1, <3>2 DEF Held
    <2>7. PlacedInv'
      BY <2>1, <2>5, <2>6 DEF PlacedInv, Held
    <2>8. BytesInv'
      BY <2>1 DEF ServeInv, BytesInv
    <2>9. QED  BY <2>3, <2>7, <2>8 DEF ServeInv
  <1>2. ASSUME Note PROVE ServeInv'
    <2>1. /\ pc = "note" /\ pc' = "ready"
          /\ UNCHANGED <<e2r, pending_e2r, free_rows, pinned, leased, content,
                         writers, mode, route, entry, side, local, todo, reads>>
      BY <1>2 DEF Note, byteVars
    <2>3. EntryInv' /\ PlacedInv'
      BY <2>1 DEF ServeInv, EntryInv, PlacedInv, Held, DemandInv, BaseInv
    <2>4. BytesInv'
      BY <2>1 DEF ServeInv, BytesInv
    <2>5. QED  BY <2>3, <2>4 DEF ServeInv
  <1>3. ASSUME Core PROVE ServeInv'
    <2>1. /\ pc = "core"
          /\ local' = [e \in Experts |-> IF e \in side THEN local[e]
                                   ELSE IF e \in route THEN e2r[e] ELSE NoRow]
          /\ todo' = RealNeeded \ Resident /\ reads' = RealNeeded \ Resident
          /\ pc' = (IF todo' = {} THEN "ready" ELSE "alloc")
          /\ UNCHANGED <<e2r, pending_e2r, free_rows, pinned, leased, content,
                         writers, mode, route, entry, side>>
      BY <1>3 DEF Core, byteVars
    <2>2. route \subseteq Experts /\ side \subseteq route /\ Held(side)
      BY <2>1 DEF DemandInv, TypeOK, ServeInv, PlacedInv, PhaseInv, BaseInv
    <2>4. EntryInv'
      BY <2>1 DEF ServeInv, EntryInv
    <2>5. Held(route \ todo)'
      BY <2>1, <2>2 DEF Held, RealNeeded
    <2>6. PlacedInv'
      BY <2>1, <2>5 DEF PlacedInv
    <2>7. BytesInv'
      BY <2>1 DEF ServeInv, BytesInv
    <2>8. QED  BY <2>4, <2>6, <2>7 DEF ServeInv
  <1>4. ASSUME CoreOverCap PROVE ServeInv'
    <2>1. /\ pc = "core" /\ pc' = "idle"
          /\ UNCHANGED <<e2r, pending_e2r, free_rows, pinned, content,
                         writers, mode>>
      BY <1>4 DEF CoreOverCap, DemandOver, byteVars
    <2>2. EntryInv' /\ PlacedInv'
      BY <2>1 DEF EntryInv, PlacedInv
    <2>3. BytesInv'
      BY <2>1 DEF ServeInv, BytesInv
    <2>4. QED  BY <2>2, <2>3 DEF ServeInv
  <1>5. QED  BY <1>1, <1>2, <1>3, <1>4

\* The victim is no expert of the route: a missing one is protected, and a
\* rescued one is spared.
LEMMA AllocServe ==
  ASSUME DemandInv, ServeInv, AllocSparesRescued, NEW e \in Experts, AllocMiss(e)
  PROVE  ServeInv'
  <1> USE RowsAssumption DEF RowMap, Resident
  <1>1. PICK r \in Rows : /\ AllocSlot(e, r, RealNeeded)
                          /\ local' = [local EXCEPT ![e] = r]
    BY DEF AllocMiss
  <1>2. /\ pc = "alloc" /\ e \in todo /\ todo' = todo \ {e}
        /\ pc' = (IF todo' = {} THEN "fetch" ELSE "alloc")
        /\ UNCHANGED <<pending_e2r, pinned, leased, content, writers, mode, route,
                       entry, side, reads>>
    BY DEF AllocMiss, byteVars
  <1>3. /\ todo \subseteq route /\ e \notin Resident /\ e \notin side
        /\ route \subseteq Experts /\ todo \subseteq reads
        /\ reads \subseteq route \ side
    BY <1>2 DEF DemandInv, OneRowInv, TypeOK, PhaseInv, BaseInv
  <1>4. /\ e2r'[e] = r
        /\ \/ \A f \in Experts : f # e => e2r'[f] = e2r[f]
           \/ \E v \in DemandVictims(RealNeeded) :
                /\ v \in Resident /\ e2r'[v] = NoRow
                /\ \A f \in Experts : f \notin {e, v} => e2r'[f] = e2r[f]
    BY <1>1, <1>3, AllocSlotMoves DEF DemandInv, BaseInv
  <1>5. ASSUME NEW v \in DemandVictims(RealNeeded), v \in Resident, e2r'[v] = NoRow
        PROVE  v \notin route
    <2>1. v \notin RealNeeded
      BY <1>5 DEF DemandVictims, Evictable
    <2>2. v \notin side
      BY <1>2, <1>5 DEF AllocSparesRescued
    <2>3. QED  BY <2>1, <2>2 DEF RealNeeded
  <1>6. /\ \A f \in Experts : f # e => e2r'[f] = e2r[f] \/ e2r'[f] = NoRow
        /\ \A f \in route : f # e => e2r'[f] = e2r[f]
    BY <1>3, <1>4, <1>5
  <1>7. EntryInv'
    BY <1>2 DEF EntryInv
  <1>8. PlacedInv'
    <2>1. /\ local'[e] = r
          /\ \A f \in Experts : f # e => local'[f] = local[f]
      BY <1>1 DEF DemandInv, TypeOK, BaseInv
    <2>2. Held(route \ todo)
      BY <1>2 DEF ServeInv, PlacedInv
    <2>3. Held(route \ todo)'
      BY <1>2, <1>3, <1>4, <1>6, <2>1, <2>2 DEF Held
    <2>4. QED  BY <1>2, <2>3 DEF PlacedInv
  <1>9. BytesInv'
    BY <1>2, <1>3, <1>6 DEF ServeInv, BytesInv
  <1>10. QED  BY <1>7, <1>8, <1>9 DEF ServeInv

LEMMA FetchServe ==
  ASSUME DemandInv, ServeInv
  PROVE  /\ \A e \in Experts : DemandRead(e) => ServeInv'
         /\ \A e \in Experts : DemandReadDone(e) => ServeInv'
  <1> USE RowsAssumption DEF RowMap, Resident
  <1>1. ASSUME NEW e \in Experts, pc = "fetch", e \in reads
        PROVE  /\ local[e] \in Rows /\ local[e] = e2r[e] /\ e2r[e] # NoRow
               /\ writers[local[e]] \subseteq {e}
               /\ \A f \in Experts : f # e => e2r[f] # local[e]
    <2>1. local[e] = e2r[e] /\ e2r[e] # NoRow
      BY <1>1 DEF ServeInv, PhaseInv, PlacedInv, Held, DemandInv, BaseInv
    <2>2. local[e] \in Rows
      BY <2>1 DEF DemandInv, TypeOK, BaseInv
    <2>3. writers[local[e]] \subseteq {e}
      BY <1>1, <2>1, <2>2, SoleWriter
    <2>4. \A f \in Experts : f # e => e2r[f] # local[e]
      BY <2>1 DEF DemandInv, RowExclusive, BaseInv
    <2>5. QED  BY <2>1, <2>2, <2>3, <2>4
  <1>2. ASSUME NEW e \in Experts, DemandRead(e) PROVE ServeInv'
    <2>1. /\ pc = "fetch" /\ e \in reads /\ WriteBegin(e, local[e])
          /\ UNCHANGED <<e2r, pending_e2r, free_rows, speculative, pinned, leased,
                         pc, mode, route, entry, side, local, todo, reads>>
      BY <1>2 DEF DemandRead, poolVars, demandVars
    <2>3. EntryInv' /\ PlacedInv'
      BY <2>1 DEF ServeInv, EntryInv, PlacedInv, Held
    <2>4. BytesInv'
      <3>1. \A r \in Rows : r # local[e] => content'[r] = content[r]
        BY <2>1 DEF WriteBegin, DemandInv, TypeOK, BaseInv
      <3>2. \A r \in Rows : Torn \notin writers'[r]
        BY <2>1 DEF WriteBegin, DemandInv, TypeOK, ServeInv, BytesInv, BaseInv
      <3>3. todo = {}
        BY <2>1 DEF ServeInv, PhaseInv, DemandInv, BaseInv
      <3>4. \A f \in Experts : f # e /\ e2r[f] # NoRow => content'[e2r[f]] = content[e2r[f]]
        BY <1>1, <2>1, <3>1 DEF DemandInv, TypeOK, BaseInv
      <3>5. QED  BY <2>1, <3>2, <3>3, <3>4 DEF ServeInv, BytesInv
    <2>5. QED  BY <2>3, <2>4 DEF ServeInv
  <1>3. ASSUME NEW e \in Experts, DemandReadDone(e) PROVE ServeInv'
    <2>1. /\ pc = "fetch" /\ e \in reads /\ WriteEnd(e, local[e], TRUE)
          /\ reads' = reads \ {e}
          /\ pc' = (IF reads' = {} THEN "ready" ELSE "fetch")
          /\ UNCHANGED <<e2r, pending_e2r, free_rows, speculative, pinned, leased,
                         mode, route, entry, side, local, todo>>
      BY <1>3 DEF DemandReadDone, poolVars
    <2>3. EntryInv' /\ PlacedInv'
      BY <2>1 DEF ServeInv, EntryInv, PlacedInv, Held
    <2>4. BytesInv'
      <3>1. writers[local[e]] = {e}
        BY <1>1, <2>1 DEF WriteEnd
      <3>2. /\ content'[local[e]] = e
            /\ \A r \in Rows : r # local[e] => content'[r] = content[r]
        BY <1>1, <2>1, <3>1 DEF WriteEnd, DemandInv, TypeOK, BaseInv
      <3>3. \A r \in Rows : Torn \notin writers'[r]
        BY <2>1, <3>1 DEF WriteEnd, DemandInv, TypeOK, ServeInv, BytesInv, BaseInv
      <3>4. todo = {}
        BY <2>1 DEF ServeInv, PhaseInv, DemandInv, BaseInv
      <3>5. \A f \in Experts : f # e /\ e2r[f] # NoRow => content'[e2r[f]] = content[e2r[f]]
        BY <1>1, <2>1, <3>2 DEF DemandInv, TypeOK, BaseInv
      <3>6. local[e] = e2r[e]
        BY <1>1, <2>1
      <3>7. QED  BY <2>1, <3>2, <3>3, <3>4, <3>5, <3>6 DEF ServeInv, BytesInv
    <2>5. QED  BY <2>3, <2>4 DEF ServeInv
  <1>4. QED  BY <1>2, <1>3

LEMMA DemandServe ==
  ASSUME DemandInv, ServeInv, Roomy, AllocSparesRescued, DemandNext
  PROVE  ServeInv'
  <1>1. CASE AllocThrow
    <2>1. pc = "alloc" /\ ~CanAlloc(RealNeeded)
      BY <1>1 DEF AllocThrow
    <2>2. QED  BY <2>1, PreflightHolds DEF PreflightSuffices
  <1>2. CASE Retire \/ ReleaseLeases
    <2>1. /\ pc \in {"ready", "idle"} /\ pc' = "idle"
          /\ UNCHANGED <<e2r, content, writers>>
      BY <1>2 DEF Retire, ReleaseLeases, DemandOver, poolVars, byteVars, demandVars
    <2>2. EntryInv' /\ PlacedInv'
      BY <2>1 DEF EntryInv, PlacedInv
    <2>3. BytesInv'
      BY <2>1 DEF ServeInv, BytesInv, Resident
    <2>4. QED  BY <2>2, <2>3 DEF ServeInv
  <1>3. CASE StatsReset
    BY <1>3, ServeFrame DEF StatsReset, poolVars, byteVars
  <1>4. QED
    BY <1>1, <1>2, <1>3, StartServe, CoreServe, AllocServe, FetchServe
    DEF DemandNext

LEMMA PinServe ==
  ASSUME DemandInv, ServeInv, Roomy, PinNext
  PROVE  ServeInv'
  <1> USE RowsAssumption DEF RowMap, Resident
  <1>1. ASSUME NEW S \in SUBSET Experts, PinBegin(S) PROVE ServeInv'
    <2>1. /\ pc = "idle" /\ route' = S /\ todo' = S \ Resident
          /\ local' = [e \in Experts |-> IF e \in S THEN e2r[e] ELSE NoRow]
          /\ pc' = (IF todo' = {} THEN "write" ELSE "pin")
          /\ UNCHANGED <<e2r, content, writers>>
      BY <1>1 DEF PinBegin, byteVars
    <2>3. EntryInv'
      BY <2>1 DEF EntryInv
    <2>4. PlacedInv'
      BY <2>1 DEF ServeInv, PlacedInv, Held
    <2>5. BytesInv'
      BY <2>1 DEF ServeInv, BytesInv
    <2>6. QED  BY <2>3, <2>4, <2>5 DEF ServeInv
  <1>2. ASSUME NEW e \in Experts, PinAlloc(e) PROVE ServeInv'
    <2>1. PICK r \in Rows : /\ AllocSlot(e, r, route)
                            /\ local' = [local EXCEPT ![e] = r]
      BY <1>2 DEF PinAlloc
    <2>2. /\ pc = "pin" /\ e \in todo /\ todo' = todo \ {e}
          /\ pc' = (IF todo' = {} THEN "write" ELSE "pin")
          /\ UNCHANGED <<pending_e2r, pinned, leased, content, writers, mode, route,
                         entry, side, reads>>
      BY <1>2 DEF PinAlloc, byteVars
    <2>3. e \notin Resident /\ e \in route /\ route \subseteq Experts
      BY <2>2 DEF DemandInv, OneRowInv, TypeOK, ServeInv, PhaseInv, BaseInv
    <2>4. /\ e2r'[e] = r
          /\ \A f \in Experts : f # e => e2r'[f] = e2r[f] \/ e2r'[f] = NoRow
          /\ \A f \in route : f # e => e2r'[f] = e2r[f]
      BY <2>1, <2>3, AllocSlotMoves DEF DemandInv, DemandVictims, Evictable, BaseInv
    <2>6. EntryInv'
      BY <2>2 DEF ServeInv, EntryInv, PhaseInv, DemandInv, BaseInv
    <2>7. PlacedInv'
      <3>1. /\ local'[e] = r
            /\ \A f \in Experts : f # e => local'[f] = local[f]
        BY <2>1 DEF DemandInv, TypeOK, BaseInv
      <3>2. Held(route \ todo)
        BY <2>2 DEF ServeInv, PlacedInv
      <3>3. Held(route \ todo)'
        BY <2>2, <2>3, <2>4, <3>1, <3>2 DEF Held
      <3>4. QED  BY <2>2, <3>3 DEF PlacedInv
    <2>8. BytesInv'
      BY <2>2, <2>3, <2>4 DEF ServeInv, BytesInv
    <2>9. QED  BY <2>6, <2>7, <2>8 DEF ServeInv
  <1>3. CASE PinThrow
    BY <1>3, PinFindsRow DEF PinThrow
  <1>4. CASE PinWrite
    <2> DEFINE owner(r) == CHOOSE e \in route : local[e] = r
               rows == {local[e] : e \in route}
    <2>1. /\ pc = "write" /\ pc' = "idle"
          /\ content' = [r \in Rows |->
               IF r \notin rows THEN content[r]
               ELSE IF writers[r] = {} THEN owner(r) ELSE Torn]
          /\ writers' = [r \in Rows |->
               IF r \notin rows \/ writers[r] = {} THEN writers[r]
               ELSE writers[r] \cup {Torn}]
          /\ e2r' = e2r
      BY <1>4 DEF PinWrite, DemandOver, poolVars
    <2>2. Held(route) /\ route \subseteq Experts
      BY <2>1 DEF ServeInv, PhaseInv, PlacedInv, Held, DemandInv, TypeOK, BaseInv
    <2>3. ASSUME NEW r \in Rows, r \in rows PROVE writers[r] = {}
      <3>1. Torn \notin writers[r] /\ writers[r] \subseteq Experts \cup {Torn}
        BY DEF ServeInv, BytesInv, DemandInv, TypeOK, BaseInv
      <3>2. PICK g \in route : e2r[g] = r /\ e2r[g] # NoRow
        BY <2>2, <2>3 DEF Held
      <3>3. \A f \in Experts : pending_e2r[f] # r
        BY <2>2, <3>2 DEF DemandInv, RowExclusive, BaseInv
      <3>4. \A f \in Experts : f \notin writers[r]
        BY <2>1, <3>3 DEF DemandInv, LeaseInv, BaseInv
      <3>5. QED  BY <3>1, <3>4
    <2>4. ASSUME NEW f \in route PROVE owner(local[f]) = f
      <3>1. \A g \in route : local[g] = local[f] => g = f
        BY <2>2, <2>4 DEF Held, DemandInv, RowExclusive, BaseInv
      <3>2. QED  BY <2>4, <3>1
    <2>5. EntryInv' /\ PlacedInv'
      BY <2>1 DEF EntryInv, PlacedInv
    <2>7. ASSUME NEW f \in Experts, e2r[f] # NoRow PROVE content'[e2r[f]] = f
      <3>1. e2r[f] \in Rows
        BY <2>7 DEF DemandInv, TypeOK, BaseInv
      <3>2. CASE f \in route
        <4>1. e2r[f] = local[f] /\ e2r[f] \in rows
          BY <2>2, <3>2 DEF Held
        <4>2. QED  BY <2>1, <2>3, <2>4, <3>1, <3>2, <4>1
      <3>3. CASE f \notin route
        <4>1. e2r[f] \notin rows
          BY <2>2, <2>7, <3>3 DEF Held, DemandInv, RowExclusive, BaseInv
        <4>2. content[e2r[f]] = f
          BY <2>1, <2>7, <3>3 DEF ServeInv, BytesInv
        <4>3. QED  BY <2>1, <3>1, <4>1, <4>2
      <3>4. QED  BY <3>2, <3>3
    <2>8. BytesInv'
      <3>1. \A r \in Rows : Torn \notin writers'[r]
        BY <2>1, <2>3 DEF ServeInv, BytesInv
      <3>2. QED  BY <2>1, <2>7, <3>1 DEF BytesInv
    <2>9. QED  BY <2>5, <2>8 DEF ServeInv
  <1>5. QED  BY <1>1, <1>2, <1>3, <1>4 DEF PinNext

-----------------------------------------------------------------------------
(* The core spares the experts that the wait rescued.                      *)

LEMMA RescueCallback ==
  ASSUME LateSparesRoute, DemandInv, RescueInv, CallbackNext
  PROVE  RescueInv'
  <1> USE RowsAssumption DEF RowMap, Resident
  <1>1. ASSUME NEW e \in Experts, ReserveStep(e) PROVE RescueInv'
    <2>1. /\ cb.on /\ pc # "alloc"
          /\ UNCHANGED <<leased, pc, mode, route, side, todo>>
      BY <1>1 DEF ReserveStep, DemandInv, OneRowInv, demandVars, BaseInv
    <2>2. \A f \in Experts :
             \/ e2r'[f] = e2r[f] /\ (f \in speculative => f \in speculative')
             \/ e2r'[f] = NoRow /\ e2r[f] # NoRow
      <3>1. CASE FromFree
        BY <1>1, <3>1 DEF ReserveStep
      <3>2. CASE ~FromFree
        <4>1. PICK v \in PrefetchVictims :
                /\ e2r' = [e2r EXCEPT ![v] = NoRow]
                /\ speculative' = speculative \ {v}
          BY <1>1, <3>2 DEF ReserveStep
        <4>2. v \in Resident
          BY <4>1 DEF PrefetchVictims, SpecVictims, VerifiedVictims, Evictable
        <4>3. QED  BY <4>1, <4>2 DEF DemandInv, TypeOK, BaseInv
      <3>3. QED  BY <3>1, <3>2
    <2>3. pc \notin {"idle", "remap", "join"} => \A f \in route : e2r'[f] = e2r[f]
      BY <2>1 DEF LateSparesRoute
    <2>4. route \subseteq Experts /\ side \subseteq route
      BY DEF DemandInv, TypeOK, BaseInv, PhaseInv
    <2>5. QED  BY <2>1, <2>2, <2>3, <2>4 DEF RescueInv, Kept
  <1>2. ASSUME ~\E e \in Experts : ReserveStep(e) PROVE RescueInv'
    BY <1>2 DEF CallbackNext, ReserveBegin, ReserveSkip, ReserveEnd, poolVars,
       demandVars, RescueInv, Kept
  <1>3. QED  BY <1>1, <1>2

LEMMA RescueReader ==
  ASSUME DemandInv, RescueInv, ReaderNext
  PROVE  RescueInv'
  <1> PICK e \in Experts : PrefetchRead(e) \/ PrefetchPublish(e) \/ PrefetchAbort(e)
    BY DEF ReaderNext
  <1> USE DEF RowMap, Resident
  <1>1. CASE PrefetchRead(e)
    BY <1>1 DEF PrefetchRead, poolVars, demandVars, RescueInv, Kept
  <1>2. CASE PrefetchAbort(e)
    BY <1>2 DEF PrefetchAbort, LockFree, demandVars, RescueInv, Kept
  <1>3. CASE PrefetchPublish(e)
    <2>1. /\ pc # "alloc" /\ speculative' = speculative \cup {e}
          /\ e2r' = [e2r EXCEPT ![e] = pending_e2r[e]]
          /\ UNCHANGED <<leased, pc, mode, route, side, todo>>
      BY <1>3 DEF PrefetchPublish, LockFree, demandVars
    <2>2. \A f \in Experts : f # e => e2r'[f] = e2r[f]
      BY <2>1 DEF DemandInv, TypeOK, BaseInv
    <2>3. route \subseteq Experts /\ side \subseteq Experts
      BY DEF DemandInv, TypeOK, BaseInv
    <2>4. QED  BY <2>1, <2>2, <2>3 DEF RescueInv, Kept
  <1>4. QED  BY <1>1, <1>2, <1>3

\* A promotion of the rescued experts by the core leaves free rows for all
\* its misses.
LEMMA RescuedOrRoom ==
  ASSUME DemandInv, RescueInv, RescueRoom, Core, pc' = "alloc"
  PROVE  Kept(side)' \/ Cardinality(todo') <= Cardinality(free_rows')
  <1> USE RowsAssumption DEF RowMap
  <1>1. /\ pc = "core" /\ NoteAccess /\ todo' = RealNeeded \ Resident
        /\ UNCHANGED <<e2r, free_rows, leased, side>>
    BY DEF Core
  <1>2. Kept(side) /\ side \subseteq route
    BY <1>1 DEF RescueInv, PhaseInv, DemandInv
  <1>3. CASE speculative' = speculative
    BY <1>1, <1>2, <1>3 DEF Kept
  <1>4. CASE \A u \in side : e2r[u] \in leased
    BY <1>1, <1>4 DEF Kept
  <1>5. ASSUME speculative' # speculative,
               NEW u \in side, e2r[u] \notin leased
        PROVE  Cardinality(todo') <= Cardinality(free_rows')
    <2>1. Cardinality(Resident) < PromoteUntil
      BY <1>1, <1>5 DEF NoteAccess
    <2>2. u \in speculative /\ u \in route /\ u \in Experts
      BY <1>2, <1>5 DEF Kept, DemandInv, TypeOK, BaseInv
    <2>3. mode = "async" /\ "async" \in Modes
      BY <1>1, <1>5, SwitchesAssumption DEF PhaseInv, DemandInv,
         TypeOK, BaseInv
    <2>4. /\ IsFiniteSet(Resident) /\ Cardinality(Resident) \in Nat
          /\ Cardinality(free_rows) \in Nat /\ Cardinality(Pending) \in Nat
          /\ Cap \in Nat
          /\ Cap <= Cardinality(free_rows) + Cardinality(Resident) + Cardinality(Pending)
      <3>1. Resident \in SUBSET Experts
        BY DEF Resident
      <3>2. \A r \in Rows : \/ r \in free_rows
                            \/ \E e \in Resident : e2r[e] = r
                            \/ \E e \in Pending : pending_e2r[e] = r
        BY DEF DemandInv, OneRowInv, NoRowLost, Resident, Pending, BaseInv
      <3>3. QED  BY <3>1, <3>2, RowsCovered DEF DemandInv, BaseInv
    <2>5. IsFiniteSet(route) /\ IsFiniteSet(speculative)
      BY RowsAssumption, FS_Subset DEF DemandInv, TypeOK, BaseInv
    <2>6. /\ Cardinality(speculative) \in Nat /\ Cardinality(speculative) # 0
          /\ Cardinality(speculative) + Cardinality(Pending) <= SpecLimit
      BY <2>2, <2>5, FS_CardinalityType, FS_EmptySet DEF DemandInv, SpecQuota,
         SpecInflight, BaseInv
    <2>7. /\ IsFiniteSet(route \ {u})
          /\ Cardinality(route \ {u}) = Cardinality(route) - 1
          /\ Cardinality(route) \in Nat /\ Cardinality(route \ {u}) \in Nat
          /\ Cardinality(route) <= MaxRoute
      BY <1>1, <2>2, <2>5, FS_RemoveElement, FS_CardinalityType DEF RoomInv,
         DemandInv, BaseInv
    <2>8. Cardinality(todo') \in Nat /\ Cardinality(todo') <= Cardinality(route) - 1
      <3>1. todo' \in SUBSET (route \ {u})
        BY <1>1, <1>5 DEF RealNeeded
      <3>2. IsFiniteSet(todo') /\ Cardinality(todo') <= Cardinality(route \ {u})
        BY <2>7, <3>1, FS_Subset
      <3>3. QED  BY <2>7, <3>2, FS_CardinalityType
    <2>9. PromoteUntil \in Nat
      <3>1. \A n \in Nat : (85 * n) \div 100 \in Nat
        OBVIOUS
      <3>2. QED  BY <2>4, <3>1 DEF PromoteUntil
    <2>10. (PromoteUntil - 1) + (SpecLimit - 1) + (MaxRoute - 1) <= Cap
      BY <2>3 DEF RescueRoom
    <2>11. free_rows' = free_rows
      BY <1>1
    <2>12. Cardinality(todo') <= Cardinality(free_rows)
      BY <2>1, <2>4, <2>6, <2>7, <2>8, <2>9, <2>10, BoundsAssumption
    <2>13. QED  BY <2>11, <2>12
  <1>6. QED  BY <1>3, <1>4, <1>5

LEMMA RescueAlloc ==
  ASSUME DemandInv, RescueInv, Roomy, NEW e \in Experts, AllocMiss(e)
  PROVE  RescueInv' /\ AllocSparesRescued
  <1> USE RowsAssumption DEF RowMap, Resident
  <1>1. PICK r \in Rows : AllocSlot(e, r, RealNeeded)
    BY DEF AllocMiss
  <1>2. /\ pc = "alloc" /\ e \in todo /\ todo' = todo \ {e}
        /\ pc' \in {"alloc", "fetch"}
        /\ UNCHANGED <<leased, route, side>>
    BY DEF AllocMiss
  <1>3. /\ e \notin Resident /\ e \notin side /\ side \subseteq route
        /\ route \subseteq Experts
    BY <1>2 DEF DemandInv, OneRowInv, TypeOK, PhaseInv, BaseInv
  <1>4. \/ /\ free_rows # {} /\ r \in free_rows /\ free_rows' = free_rows \ {r}
           /\ speculative' = speculative
           /\ \A f \in Experts : f # e => e2r'[f] = e2r[f]
        \/ /\ free_rows = {} /\ free_rows' = free_rows
           /\ \E v \in DemandVictims(RealNeeded) :
                /\ speculative' = speculative \ {v}
                /\ \A f \in Experts : f \notin {e, v} => e2r'[f] = e2r[f]
    BY <1>1, <1>3, AllocSlotMoves DEF DemandInv, BaseInv
  <1>5. IsFiniteSet(todo) /\ IsFiniteSet(free_rows)
        /\ Cardinality(todo) \in Nat /\ Cardinality(free_rows) \in Nat
    <2>1. IsFiniteSet(todo) /\ IsFiniteSet(free_rows)
      BY RowsAssumption, FS_Subset DEF DemandInv, TypeOK, BaseInv
    <2>2. QED  BY <2>1, FS_CardinalityType
  <1>6. Cardinality(todo) # 0 /\ Cardinality(todo \ {e}) = Cardinality(todo) - 1
    BY <1>2, <1>5, FS_EmptySet, FS_RemoveElement
  \* The victim is no expert of the route.
  <1>7. ASSUME free_rows = {}, NEW v \in DemandVictims(RealNeeded)
        PROVE  v \notin route
    <2>1. v \in Evictable(RealNeeded) \ speculative
      BY <1>2, <1>7, VerifiedVictim DEF DemandVictims
    <2>2. v \notin RealNeeded /\ e2r[v] \notin leased /\ v \notin speculative
      BY <2>1 DEF Evictable
    <2>3. Kept(side) \/ Cardinality(todo) <= Cardinality(free_rows)
      BY <1>2 DEF RescueInv
    <2>4. Kept(side)
      BY <1>5, <1>6, <1>7, <2>3, FS_EmptySet
    <2>5. QED  BY <2>2, <2>4 DEF Kept, RealNeeded
  <1>8. /\ \A f \in side : e2r'[f] = e2r[f]
        /\ \A f \in side : f \in speculative => f \in speculative'
    BY <1>3, <1>4, <1>7
  <1>9. AllocSparesRescued
    BY <1>8 DEF AllocSparesRescued
  <1>10. Kept(side)' \/ Cardinality(todo') <= Cardinality(free_rows')
    <2>1. CASE Kept(side)
      BY <1>2, <1>8, <2>1 DEF Kept
    <2>2. CASE Cardinality(todo) <= Cardinality(free_rows)
      <3>1. r \in free_rows /\ free_rows' = free_rows \ {r}
        BY <1>4, <1>5, <1>6, <2>2, FS_EmptySet
      <3>2. Cardinality(free_rows \ {r}) = Cardinality(free_rows) - 1
        BY <1>5, <3>1, FS_RemoveElement
      <3>3. QED  BY <1>2, <1>5, <1>6, <2>2, <3>1, <3>2
    <2>3. QED  BY <1>2, <2>1, <2>2 DEF RescueInv
  <1>11. RescueInv'
    BY <1>2, <1>10 DEF RescueInv
  <1>12. QED  BY <1>9, <1>11

LEMMA RescueDemand ==
  ASSUME DemandInv, RescueInv, Roomy, RescueRoom, DemandNext
  PROVE  RescueInv' /\ AllocSparesRescued
  <1> USE DEF RowMap, Resident
  <1>1. ASSUME NEW R \in SUBSET Experts, NEW m \in Modes, Begin(R, m)
        PROVE  RescueInv'
    BY <1>1 DEF Begin, RescueInv
  <1>2. ASSUME NEW e \in Experts, Remap(e) PROVE RescueInv'
    <2>1. /\ pc = "remap" /\ e \in todo /\ todo' = todo \ {e}
          /\ leased' = leased \cup ({e2r[e]} \ {NoRow})
          /\ UNCHANGED <<e2r, speculative, pc, mode, route>>
      BY <1>2 DEF Remap, poolVars
    <2>2. QED  BY <2>1 DEF RescueInv
  <1>3. ASSUME HandlerStart \/ Join \/ Lookup PROVE RescueInv'
    <2>1. ASSUME HandlerStart PROVE RescueInv'
      <3>1. /\ pc = "remap" /\ pc' \in {"note", "join"}
            /\ UNCHANGED <<e2r, speculative, leased, mode, route, todo>>
        BY <2>1 DEF HandlerStart, poolVars
      <3>2. QED  BY <3>1 DEF RescueInv
    <2>2. ASSUME Join PROVE RescueInv'
      <3>1. /\ pc = "join" /\ pc' = (IF mode = "sync" THEN "core" ELSE "lookup")
            /\ side = {} /\ side' = {}
            /\ UNCHANGED <<e2r, speculative, leased, mode, route, todo>>
        BY <2>2 DEF Join, poolVars, PhaseInv, DemandInv
      <3>2. Kept(side)'
        BY <3>1 DEF Kept
      <3>3. QED  BY <3>1, <3>2 DEF RescueInv
    <2>3. ASSUME Lookup PROVE RescueInv'
      <3>1. /\ pc = "lookup" /\ todo = {} /\ mode = "async"
            /\ side' = route \cap Resident /\ pc' \in {"note", "core"}
            /\ UNCHANGED <<e2r, speculative, leased>>
        BY <2>3 DEF Lookup, poolVars, PhaseInv, DemandInv
      <3>2. Kept(side)'
        BY <3>1 DEF RescueInv, Kept
      <3>3. QED  BY <3>1, <3>2 DEF RescueInv, Kept
    <2>4. QED  BY <1>3, <2>1, <2>2, <2>3
  <1>4. ASSUME Core PROVE RescueInv'
    <2>1. pc' \in {"ready", "alloc"}
      BY <1>4 DEF Core
    <2>2. pc' = "alloc" => Kept(side)' \/ Cardinality(todo') <= Cardinality(free_rows')
      BY <1>4, RescuedOrRoom
    <2>3. QED  BY <2>1, <2>2 DEF RescueInv, Kept
  <1>5. ASSUME NEW e \in Experts, AllocMiss(e)
        PROVE  RescueInv' /\ AllocSparesRescued
    BY <1>5, RescueAlloc
  <1>6. ASSUME \/ Note \/ CoreOverCap \/ AllocThrow \/ Retire \/ ReleaseLeases
               \/ StatsReset
               \/ \E e \in Experts : DemandRead(e) \/ DemandReadDone(e)
        PROVE  RescueInv'
    <2>1. pc' \notin {"remap", "join", "lookup", "core", "alloc"}
      BY <1>6 DEF Note, CoreOverCap, AllocThrow, Retire, ReleaseLeases, StatsReset,
         DemandRead, DemandReadDone, DemandOver, demandVars
    <2>2. QED  BY <2>1 DEF RescueInv
  <1>7. ASSUME ~\E e \in Experts : AllocMiss(e) PROVE AllocSparesRescued
    <2>1. pc = "alloc" => e2r' = e2r
      BY <1>7 DEF DemandNext, Begin, Remap, HandlerStart, Join, Lookup, Note, Core,
         CoreOverCap, AllocThrow, DemandRead, DemandReadDone, Retire,
         ReleaseLeases, StatsReset, poolVars
    <2>2. QED  BY <2>1 DEF AllocSparesRescued
  <1>8. RescueInv'
    BY <1>1, <1>2, <1>3, <1>4, <1>5, <1>6 DEF DemandNext
  <1>9. QED  BY <1>5, <1>7, <1>8

LEMMA RescueStep ==
  ASSUME DemandInv, RescueInv, Roomy, RescueRoom, LateSparesRoute, Next
  PROVE  RescueInv' /\ AllocSparesRescued
  <1>1. CASE CallbackNext
    <2>1. cb.on => pc # "alloc"
      BY DEF DemandInv, BaseInv, OneRowInv
    <2>2. cb.on \/ pc # "alloc"
      BY <1>1 DEF CallbackNext, ReserveBegin, ReserveStep, ReserveSkip, ReserveEnd,
         LockFree
    <2>3. QED  BY <1>1, <2>1, <2>2, RescueCallback DEF AllocSparesRescued
  <1>2. CASE ReaderNext
    <2>1. pc = "alloc" => e2r' = e2r
      BY <1>2 DEF ReaderNext, PrefetchRead, PrefetchPublish, PrefetchAbort,
         LockFree, poolVars
    <2>2. QED  BY <1>2, <2>1, RescueReader DEF AllocSparesRescued
  <1>3. CASE PinNext
    <2>1. /\ pc \in {"idle", "pin", "write"} /\ pc' \in {"idle", "pin", "write"}
      BY <1>3 DEF PinNext, PinBegin, PinAlloc, PinThrow, PinWrite, DemandOver
    <2>2. QED  BY <2>1 DEF RescueInv, AllocSparesRescued
  <1>4. QED  BY <1>1, <1>2, <1>3, RescueDemand DEF Next

-----------------------------------------------------------------------------
\* The invariants that need no room: the phases and the counts.
LEMMA AlwaysDemandInv ==
  ASSUME ~PinInFlight
  PROVE  Spec /\ [][LateSparesRoute]_vars => []DemandInv
  <1>1. Spec /\ [][LateSparesRoute]_vars => []BaseInv
    <2>1. TypeOK /\ RowExclusive /\ OneRowInv /\ LeaseInv /\ SpecQuota => BaseInv
      BY DEF BaseInv
    <2>2. QED
      BY <2>1, TypeCorrect, RowsExclusive, AlwaysOneRow, AlwaysLease, QuotaKept,
         PTL
  <1>2. BaseInv /\ PhaseInv /\ RoomInv /\ LeasesFew /\ [Next]_vars
          => PhaseInv' /\ RoomInv' /\ LeasesFew'
    BY RoomStep, LeasesFewStep DEF BaseInv
  <1>3. BaseInv /\ PhaseInv /\ RoomInv /\ LeasesFew => DemandInv
    BY DEF DemandInv
  <1>4. QED  BY <1>1, <1>2, <1>3, RoomInit, PTL DEF Spec

\* "preflight passed but no evictable real slot" is never raised when the pool
\* has room for a route, the pins, the speculative share and what an earlier
\* demand left leased together, as long as late callbacks spare the route.  The
\* preflight of demand_core_locked counts neither the rows that reservations
\* hold nor the leased ones, so the room for them has to be there.
THEOREM PreflightIsEnough ==
  ASSUME ~PinInFlight, Roomy
  PROVE  /\ Spec /\ [][LateSparesRoute]_vars => []PreflightSuffices
         /\ ~LateCallbacks => (Spec => []PreflightSuffices)
  <1>1. DemandInv => PreflightSuffices
    BY PreflightHolds
  <1>2. Spec /\ [][LateSparesRoute]_vars => []PreflightSuffices
    BY <1>1, AlwaysDemandInv, PTL
  <1>3. ASSUME ~LateCallbacks PROVE Spec => []PreflightSuffices
    BY <1>2, <1>3, InOrderSpares, PTL
  <1>4. QED  BY <1>2, <1>3

LEMMA ServeStep ==
  ASSUME DemandInv, ServeInv, Roomy, Next, LateSparesRoute, AllocSparesRescued
  PROVE  ServeInv'
  BY CallbackServe, ReaderServe, DemandServe, PinServe DEF Next

LEMMA AlwaysServe ==
  ASSUME ~PinInFlight, Roomy
  PROVE  Spec /\ [][LateSparesRoute]_vars /\ [][AllocSparesRescued]_vars => []ServeInv
  <1>1. DemandInv /\ ServeInv /\ [Next]_vars /\ [LateSparesRoute]_vars
          /\ [AllocSparesRescued]_vars => ServeInv'
    <2> SUFFICES ASSUME DemandInv, ServeInv, [Next]_vars, [LateSparesRoute]_vars,
                        [AllocSparesRescued]_vars
                 PROVE  ServeInv'
      OBVIOUS
    <2>1. CASE UNCHANGED vars
      BY <2>1, ServeFrame DEF vars, poolVars, byteVars, demandVars
    <2>2. CASE Next /\ LateSparesRoute /\ AllocSparesRescued
      BY <2>2, ServeStep
    <2>3. QED  BY <2>1, <2>2
  <1>2. QED  BY <1>1, AlwaysDemandInv, ServeInit, PTL DEF Spec

\* With RescueRoom the core never evicts a rescued expert.
LEMMA RescuedSpared ==
  ASSUME ~PinInFlight, Roomy, RescueRoom
  PROVE  Spec /\ [][LateSparesRoute]_vars => [][AllocSparesRescued]_vars
  <1>1. Init => RescueInv
    BY DEF Init, RescueInv
  <1>2. DemandInv /\ RescueInv /\ [Next]_vars /\ [LateSparesRoute]_vars
          => RescueInv' /\ [AllocSparesRescued]_vars
    <2> SUFFICES ASSUME DemandInv, RescueInv, [Next]_vars, [LateSparesRoute]_vars
                 PROVE  RescueInv' /\ [AllocSparesRescued]_vars
      OBVIOUS
    <2>1. CASE UNCHANGED vars
      BY <2>1 DEF vars, poolVars, demandVars, RescueInv, Kept, Resident
    <2>2. CASE Next /\ LateSparesRoute
      BY <2>2, RescueStep
    <2>3. QED  BY <2>1, <2>2
  <1>3. QED  BY <1>1, <1>2, AlwaysDemandInv, PTL DEF Spec

\* At "ready" every routed expert's row holds its bytes.
LEMMA ReadyServes ==
  ASSUME DemandInv, ServeInv, pc = "ready"
  PROVE  {e \in route : content[local[e]] = e} = route
  <1>1. route \subseteq Experts /\ Held(route)
    BY DEF DemandInv, TypeOK, ServeInv, PhaseInv, PlacedInv, Held, BaseInv
  <1>2. ASSUME NEW e \in route PROVE content[local[e]] = e
    BY <1>1, <1>2 DEF Held, ServeInv, BytesInv, Resident
  <1>3. QED  BY <1>2

Asked == IF Phase = "idle" THEN {} ELSE route
Served == IF pc = "ready" THEN {e \in route : content[local[e]] = e} ELSE {}

LEMMA ServedIs == DemandInv /\ ServeInv => Served = IF pc = "ready" THEN route ELSE {}
  BY ReadyServes DEF Served

LEMMA ServedNext ==
  ASSUME DemandInv', ServeInv'
  PROVE  Served' = IF pc' = "ready" THEN route' ELSE {}
  <1>1. ASSUME pc' = "ready"
        PROVE  {e \in route' : content'[local'[e]] = e} = route'
    <2>1. route' \subseteq Experts /\ Held(route)'
      BY <1>1 DEF DemandInv, TypeOK, ServeInv, PhaseInv, PlacedInv, Held, BaseInv
    <2>2. ASSUME NEW e \in route' PROVE content'[local'[e]] = e
      BY <1>1, <2>1, <2>2 DEF Held, ServeInv, BytesInv, Resident
    <2>3. QED  BY <2>2
  <1>2. QED  BY <1>1 DEF Served

\* Steps inside one phase that keep route and pins are invisible.
LEMMA Invisible ==
  ASSUME DemandInv, ServeInv, DemandInv', ServeInv',
         Phase' = Phase, pinned' = pinned, Phase = "idle" \/ route' = route
  PROVE  UNCHANGED <<Phase, Asked, Served, pinned>>
  <1>1. Asked' = Asked
    BY DEF Asked
  <1>2. pc' = "ready" <=> pc = "ready"
    BY DEF Phase
  <1>3. Served = (IF pc = "ready" THEN route ELSE {})
    BY ServedIs
  <1>4. Served' = (IF pc' = "ready" THEN route' ELSE {})
    BY ServedNext
  <1>5. pc = "ready" => Phase # "idle"
    BY DEF Phase
  <1>6. QED  BY <1>1, <1>2, <1>3, <1>4, <1>5

\* The instance counts with its own copy of Cardinality.
LEMMA ServiceCounts ==
  ASSUME NEW X
  PROVE  Service!Cardinality(X) = Cardinality(X)
  BY DEF Service!Cardinality, Cardinality

LEMMA ServiceStep ==
  ASSUME DemandInv, ServeInv, DemandInv', ServeInv', Roomy, [Next]_vars
  PROVE  [Service!Next]_(Service!vars)
  <1>a. /\ Served = (IF pc = "ready" THEN route ELSE {})
        /\ Served' = (IF pc' = "ready" THEN route' ELSE {})
    BY ServedIs, ServedNext
  <1>b. Service!vars = <<Phase, Asked, Served, pinned>>
    BY DEF Service!vars, Asked, Served
  <1>c. ASSUME UNCHANGED <<Phase, Asked, Served, pinned>>
        PROVE  [Service!Next]_(Service!vars)
    BY <1>c DEF Service!vars, Asked, Served
  <1>d. ASSUME Phase' = Phase, pinned' = pinned, Phase = "idle" \/ route' = route
        PROVE  [Service!Next]_(Service!vars)
    BY <1>c, <1>d, Invisible
  <1>1. CASE UNCHANGED vars
    BY <1>1, <1>d DEF vars, poolVars, demandVars, Phase
  <1>2. CASE CallbackNext \/ ReaderNext
    BY <1>2, <1>d
    DEF CallbackNext, ReserveBegin, ReserveStep, ReserveSkip,
         ReserveEnd, ReaderNext, PrefetchRead, PrefetchPublish,
         PrefetchAbort, poolVars, demandVars, Phase
  <1>3. ASSUME NEW R \in SUBSET Experts, NEW m \in Modes, Begin(R, m)
        PROVE  [Service!Next]_(Service!vars)
    <2>1. /\ pc = "idle" /\ pc' \in {"remap", "join"} /\ R # {} /\ route' = R
          /\ pinned' = pinned
      BY <1>3 DEF Begin, poolVars
    <2>2. /\ Phase = "idle" /\ Phase' = "asked" /\ Asked' = R
          /\ Served = {} /\ Served' = {}
      BY <1>a, <2>1 DEF Phase, Asked
    <2>3. Service!Ask(R)
      BY <2>1, <2>2 DEF Service!Ask, Asked, Served
    <2>4. QED  BY <2>3 DEF Service!Next
  <1>4. ASSUME pc \in {"note", "core", "fetch"}, pc' = "ready", route' = route,
               pinned' = pinned
        PROVE  [Service!Next]_(Service!vars)
    <2>1. /\ Phase = "asked" /\ Phase' = "answered" /\ Asked = route
          /\ Asked' = route /\ Served' = route
      BY <1>a, <1>4 DEF Phase, Asked
    <2>2. Service!Answer
      BY <1>4, <2>1 DEF Service!Answer, Asked, Served
    <2>3. QED  BY <2>2 DEF Service!Next
  <1>5. ASSUME pc \notin {"idle", "ready", "pin", "write"},
               pc' \notin {"idle", "ready", "pin", "write"},
               route' = route, pinned' = pinned
        PROVE  [Service!Next]_(Service!vars)
    BY <1>5, <1>d DEF Phase
  <1>6. ASSUME NEW e \in Experts,
               Remap(e) \/ AllocMiss(e) \/ DemandRead(e) \/ DemandReadDone(e)
        PROVE  [Service!Next]_(Service!vars)
    BY <1>4, <1>5, <1>6
    DEF Remap, AllocMiss, DemandRead, DemandReadDone, poolVars,
         demandVars
  <1>7. CASE HandlerStart \/ Join \/ Lookup \/ Note \/ Core
    BY <1>4, <1>5, <1>7 DEF HandlerStart, Join, Lookup, Note, Core, poolVars
  <1>8. CASE CoreOverCap
    <2>1. /\ pc = "core" /\ pc' = "idle" /\ route' = {} /\ pinned' = pinned
          /\ Cardinality(RealNeeded \cup pinned) > Cap
      BY <1>8 DEF CoreOverCap, DemandOver, OverCap
    <2>2. /\ Phase = "asked" /\ Phase' = "idle" /\ Asked = route /\ Asked' = {}
          /\ Served = {} /\ Served' = {}
      BY <1>a, <2>1 DEF Phase, Asked
    <2>3. Cardinality(route \cup pinned) > Cap
      <3>1. IsFiniteSet(route \cup pinned) /\ IsFiniteSet(Rows)
        BY RowsAssumption, FS_Subset, UnionBound DEF DemandInv, TypeOK, BaseInv
      <3>2. RealNeeded \cup pinned \in SUBSET (route \cup pinned)
        BY DEF RealNeeded
      <3>3. /\ Cardinality(RealNeeded \cup pinned) <= Cardinality(route \cup pinned)
            /\ IsFiniteSet(RealNeeded \cup pinned)
        BY <3>1, <3>2, FS_Subset
      <3>4. /\ Cardinality(RealNeeded \cup pinned) \in Nat
            /\ Cardinality(route \cup pinned) \in Nat /\ Cap \in Nat
        BY <3>1, <3>3, FS_CardinalityType DEF Cap
      <3>5. QED  BY <2>1, <3>3, <3>4
    <2>4. Service!Refuse
      BY <2>1, <2>2, <2>3, ServiceCounts DEF Service!Refuse, Asked, Served
    <2>5. QED  BY <2>4 DEF Service!Next
  <1>9. CASE AllocThrow
    <2>1. pc = "alloc" /\ ~CanAlloc(RealNeeded)
      BY <1>9 DEF AllocThrow
    <2>2. QED  BY <2>1, PreflightHolds DEF PreflightSuffices
  <1>10. CASE Retire
    <2>1. pc = "ready" /\ pc' = "idle" /\ route' = {} /\ pinned' = pinned
      BY <1>10 DEF Retire, DemandOver, poolVars
    <2>2. /\ Phase = "answered" /\ Phase' = "idle" /\ Asked' = {} /\ Served' = {}
      BY <1>a, <2>1 DEF Phase, Asked
    <2>3. Service!Done
      BY <2>1, <2>2 DEF Service!Done, Asked, Served
    <2>4. QED  BY <2>3 DEF Service!Next
  <1>11. CASE StatsReset \/ ReleaseLeases
    BY <1>11, <1>d DEF StatsReset, ReleaseLeases, poolVars, demandVars, Phase
  <1>12. ASSUME NEW S \in SUBSET Experts, PinBegin(S)
         PROVE  [Service!Next]_(Service!vars)
    <2>1. /\ pc = "idle" /\ pc' \in {"write", "pin"} /\ pinned' = pinned \cup S
          /\ Cardinality(pinned \cup S) <= Cap
      BY <1>12 DEF PinBegin
    <2>2. /\ Phase = "idle" /\ Phase' = "idle" /\ Asked = {} /\ Asked' = {}
          /\ Served = {} /\ Served' = {}
      BY <1>a, <2>1 DEF Phase, Asked
    <2>3. Service!Pin(S)
      BY <2>1, <2>2, ServiceCounts DEF Service!Pin, Asked, Served
    <2>4. QED  BY <2>3 DEF Service!Next
  <1>13. ASSUME NEW e \in Experts, PinAlloc(e)
         PROVE  [Service!Next]_(Service!vars)
    BY <1>13, <1>d DEF PinAlloc, Phase
  <1>14. CASE PinThrow \/ PinWrite
    BY <1>14, <1>d DEF PinThrow, PinWrite, DemandOver, poolVars, Phase
  <1>15. CASE DemandNext
    BY <1>3, <1>6, <1>7, <1>8, <1>9, <1>10, <1>11, <1>15 DEF DemandNext
  <1>16. CASE PinNext
    BY <1>12, <1>13, <1>14, <1>16 DEF PinNext
  <1>17. QED  BY <1>1, <1>2, <1>15, <1>16 DEF Next

\* The demand path of a roomy pool implements DemandService (a routed expert is
\* served its own bytes until the kernel is done, pins never exceed the pool,
\* and a demand is refused only when route and pins do not fit), as long as
\* late callbacks spare the route and the core spares the rescued experts.  The
\* second condition always holds with RescueRoom, the first when callbacks run
\* in stream order.
THEOREM DemandIsServed ==
  ASSUME ~PinInFlight, Roomy
  PROVE  /\ Spec /\ [][LateSparesRoute]_vars /\ [][AllocSparesRescued]_vars
              => ImplementsService
         /\ RescueRoom => (Spec /\ [][LateSparesRoute]_vars => ImplementsService)
         /\ RescueRoom /\ ~LateCallbacks => (Spec => ImplementsService)
  <1>1. Init => Service!Init
    BY DEF Init, Service!Init, Phase
  <1>2. DemandInv /\ ServeInv /\ (DemandInv /\ ServeInv)' /\ [Next]_vars
          => [Service!Next]_(Service!vars)
    BY ServiceStep
  <1>3. Spec /\ [][LateSparesRoute]_vars /\ [][AllocSparesRescued]_vars
          => ImplementsService
    BY <1>1, <1>2, AlwaysDemandInv, AlwaysServe, PTL
    DEF Spec, ImplementsService, Service!Spec
  <1>4. ASSUME RescueRoom
        PROVE  Spec /\ [][LateSparesRoute]_vars => ImplementsService
    BY <1>3, <1>4, RescuedSpared, PTL
  <1>5. ASSUME RescueRoom, ~LateCallbacks
        PROVE  Spec => ImplementsService
    BY <1>4, <1>5, InOrderSpares, PTL
  <1>6. QED  BY <1>3, <1>4, <1>5
=============================================================================
