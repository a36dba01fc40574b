---------------------------- MODULE YouTube_proofs ---------------------------
(***************************************************************************)
(* Theorems about what YouTubeClient is made of, each by itself: the quota *)
(* manager, for any number of processes and requests, any costs and any    *)
(* limit; the circuit breaker and the key pool, for any number of          *)
(* overlapping calls, keys and callers, and any thresholds and durations.  *)
(***************************************************************************)
EXTENDS Quota, CircuitBreaker, ApiKeyPool, FiniteSetTheorems, TLAPS


(* Sums of quota units, the facts the proofs below cite.                   *)

(* The units of one request are as many as it costs.                       *)
LEMMA UnitsOfOne ==
    ASSUME NEW r \in Requests
    PROVE  /\ IsFiniteSet({r} \X (1 .. Cost[r]))
           /\ Cardinality({r} \X (1 .. Cost[r])) = Cost[r]
<1>1. Cost[r] \in Nat
  BY UnitsAssumption
<1>2. IsFiniteSet(1 .. Cost[r]) /\ Cardinality(1 .. Cost[r]) = Cost[r]
  BY SMTT(60), <1>1, FS_Interval
<1>3. IsFiniteSet({r}) /\ Cardinality({r}) = 1
  BY FS_Singleton
<1>4. /\ IsFiniteSet({r} \X (1 .. Cost[r]))
      /\ Cardinality({r} \X (1 .. Cost[r])) = Cardinality({r}) * Cardinality(1 .. Cost[r])
  BY <1>2, <1>3, FS_Product
<1> QED
  BY <1>1, <1>2, <1>3, <1>4

(* A set of requests has finitely many units.                              *)
LEMMA UnitsFinite ==
    ASSUME NEW S \in SUBSET Requests
    PROVE  IsFiniteSet(UnitsOf(S))
<1> DEFINE Op(r) == {r} \X (1 .. Cost[r])
           Parts == {Op(r) : r \in S}
<1>1. IsFiniteSet(S)
  BY UnitsAssumption, FS_Subset
<1>2. IsFiniteSet(Parts)
  <2>1. PICK f : f = [r \in S |-> Op(r)]
    OBVIOUS
  <2>2. f \in Surjection(S, Parts)
    BY <2>1 DEF Surjection
  <2> QED
    BY <1>1, <2>2, FS_Surjection
<1>3. \A P \in Parts : IsFiniteSet(P)
  BY UnitsOfOne
<1>4. IsFiniteSet(UNION Parts)
  BY <1>2, <1>3, FS_UNION
<1> QED
  BY <1>4 DEF UnitsOf

(* The weight of a set of requests is a natural number.                    *)
LEMMA WeightNat ==
    ASSUME NEW S \in SUBSET Requests
    PROVE  Weight(S) \in Nat
BY UnitsFinite, FS_CardinalityType DEF Weight

(* Nothing weighs nothing.                                                 *)
LEMMA WeightEmpty == Weight({}) = 0
<1>1. UnitsOf({}) = {}
  BY DEF UnitsOf
<1> QED
  BY <1>1, FS_EmptySet DEF Weight

(* A larger set weighs no less.                                            *)
LEMMA WeightMonotone ==
    ASSUME NEW S \in SUBSET Requests, NEW T \in SUBSET S
    PROVE  Weight(T) <= Weight(S)
<1>1. UnitsOf(T) \subseteq UnitsOf(S)
  BY DEF UnitsOf
<1>2. IsFiniteSet(UnitsOf(S))
  BY UnitsFinite
<1> QED
  BY <1>1, <1>2, FS_Subset DEF Weight

(* Adding a request adds its cost.                                         *)
LEMMA WeightAdd ==
    ASSUME NEW S \in SUBSET Requests, NEW r \in Requests, r \notin S
    PROVE  Weight(S \cup {r}) = Weight(S) + Cost[r]
<1> DEFINE New == {r} \X (1 .. Cost[r])
<1>1. UnitsOf(S \cup {r}) = UnitsOf(S) \cup New
  BY DEF UnitsOf
<1>2. UnitsOf(S) \cap New = {}
  BY DEF UnitsOf
<1>3. IsFiniteSet(UnitsOf(S)) /\ Cardinality(UnitsOf(S)) \in Nat
  BY UnitsFinite, FS_CardinalityType
<1>4. IsFiniteSet(New) /\ Cardinality(New) = Cost[r] /\ Cost[r] \in Nat
  BY UnitsOfOne, UnitsAssumption
<1>5. Cardinality(UnitsOf(S) \cup New)
        = Cardinality(UnitsOf(S)) + Cardinality(New) - Cardinality(UnitsOf(S) \cap New)
  BY <1>3, <1>4, FS_Union
<1>6. Cardinality(UnitsOf(S) \cap New) = 0
  BY <1>2, FS_EmptySet
<1>7. Weight(S \cup {r}) = Cardinality(UnitsOf(S) \cup New)
  BY <1>1 DEF Weight
<1>8. Weight(S) = Cardinality(UnitsOf(S))
  BY DEF Weight
<1> QED
  BY <1>3, <1>4, <1>5, <1>6, <1>7, <1>8

(* Taking a request away takes its cost away.                              *)
LEMMA WeightRemove ==
    ASSUME NEW S \in SUBSET Requests, NEW r \in S
    PROVE  Weight(S) = Weight(S \ {r}) + Cost[r]
<1>1. S \ {r} \in SUBSET Requests /\ r \in Requests /\ r \notin S \ {r}
  OBVIOUS
<1>2. (S \ {r}) \cup {r} = S
  OBVIOUS
<1>3. Weight((S \ {r}) \cup {r}) = Weight(S \ {r}) + Cost[r]
  BY <1>1, WeightAdd
<1> QED
  BY <1>2, <1>3

-----------------------------------------------------------------------------

(* Every step keeps the types.                                             *)
LEMMA QuotaTypeStep == TypeOK /\ [QuotaNext]_quotaVars => TypeOK'
<1> USE UnitsAssumption, QuotaAssumption
<1> SUFFICES ASSUME TypeOK, [QuotaNext]_quotaVars PROVE TypeOK'
  OBVIOUS
<1> USE DEF TypeOK, Days, Entries, Calls
<1>1. ASSUME NEW r \in Requests, ReserveRead(r) PROVE TypeOK'
  BY <1>1 DEF ReserveRead
<1>2. ASSUME NEW r \in Requests, ReserveAccept(r) PROVE TypeOK'
  BY <1>2 DEF ReserveAccept
<1>3. ASSUME NEW r \in Requests, ReserveReject(r) PROVE TypeOK'
  BY <1>3 DEF ReserveReject
<1>4. ASSUME NEW r \in Requests, ConsumeMark(r) PROVE TypeOK'
  BY <1>4 DEF ConsumeMark
<1>5. ASSUME NEW r \in Requests, ConsumeIncrby(r) PROVE TypeOK'
  <2>1. counter' \in [0 .. LastDay -> Nat]
    BY <1>5 DEF ConsumeIncrby
  <2>2. spent' \in [Procs -> Nat] /\ billed' \in [Requests -> Nat]
    BY <1>5 DEF ConsumeIncrby
  <2> QED
    BY <1>5, <2>1, <2>2 DEF ConsumeIncrby
<1>6. ASSUME NEW r \in Requests, ConsumePop(r) PROVE TypeOK'
  BY <1>6 DEF ConsumePop
<1>7. ASSUME NEW r \in Requests, Abort(r) PROVE TypeOK'
  BY <1>7 DEF Abort
<1>8. ASSUME NEW r \in Requests, Release(r) PROVE TypeOK'
  BY <1>8 DEF Release
<1>9. CASE Midnight
  BY <1>9 DEF Midnight
<1>10. ASSUME NEW p \in Procs, Restart(p) PROVE TypeOK'
  BY <1>10 DEF Restart
<1>11. CASE UNCHANGED quotaVars
  BY <1>11 DEF quotaVars
<1> QED
  BY <1>1, <1>2, <1>3, <1>4, <1>5, <1>6, <1>7, <1>8, <1>9, <1>10, <1>11 DEF QuotaNext

(* The variables keep their types.                                         *)
THEOREM QuotaTyping == QuotaSpec => []TypeOK
<1>1. QuotaInit => TypeOK
  BY UnitsAssumption, QuotaAssumption DEF QuotaInit, TypeOK, Days, Entries, Calls
<1> QED
  BY <1>1, QuotaTypeStep, PTL DEF QuotaSpec

-----------------------------------------------------------------------------
(* The lock: one call at a time in a process, and what its entry is then.  *)
OneCall ==
    \A r, s \in Requests :
        ProcOf[r] = ProcOf[s] /\ call[r] # "none" /\ call[s] # "none" => r = s

EntryInCall ==
    \A r \in Requests :
        /\ call[r] = "reserve" => reservation[r] = "unused"
        /\ call[r] \in {"incrby", "expire"} => reservation[r] = "consumed"

(* What reserve has read is no less than what its own process has charged: *)
(* the lock keeps the process from charging, and a new day only lowers it. *)
SeenCoversSpent ==
    \A r \in Requests : call[r] = "reserve" => spent[ProcOf[r]] <= seen[r]

SpentInCounter == \A p \in Procs : spent[p] <= counter[today]

(* A request that was not charged yet, and what the charge comes to.       *)
Billing ==
    \A r \in Requests :
        /\ billed[r] \in {0, Cost[r]}
        /\ reservation[r] \in {"unused", "held"} \/ call[r] = "incrby" => billed[r] = 0

QuotaIInv ==
    /\ TypeOK
    /\ OneCall
    /\ EntryInCall
    /\ SeenCoversSpent
    /\ SpentInCounter
    /\ Billing
    /\ ProcessCap

(* A step after which a process has charged no more and has no more aside  *)
(* keeps its cap.                                                          *)
LEMMA CapKept ==
    ASSUME TypeOK, TypeOK', ProcessCap,
           \A p \in Procs : spent'[p] <= spent[p] /\ AsideBy(p)' \subseteq AsideBy(p)
    PROVE  ProcessCap'
<1> SUFFICES ASSUME NEW p \in Procs
             PROVE  spent'[p] + Weight(AsideBy(p)') <= Limit
  BY DEF ProcessCap, Weight, UnitsOf
<1>1. AsideBy(p) \in SUBSET Requests /\ AsideBy(p)' \in SUBSET AsideBy(p)
  BY DEF AsideBy, HeldBy, InTransit
<1>2. Weight(AsideBy(p)') <= Weight(AsideBy(p))
  BY <1>1, WeightMonotone
<1>3. Weight(AsideBy(p)) \in Nat /\ Weight(AsideBy(p)') \in Nat
  BY <1>1, WeightNat
<1>4. spent[p] \in Nat /\ spent'[p] \in Nat
  BY DEF TypeOK
<1>5. spent[p] + Weight(AsideBy(p)) <= Limit
  BY DEF ProcessCap
<1> QED
  BY <1>2, <1>3, <1>4, <1>5, QuotaAssumption

(* The inductive invariant holds initially and is kept by every step.      *)
LEMMA QuotaInvInit == QuotaInit => QuotaIInv
<1> SUFFICES ASSUME QuotaInit PROVE QuotaIInv
  OBVIOUS
<1> USE UnitsAssumption, QuotaAssumption
<1>1. TypeOK
  BY DEF QuotaInit, TypeOK, Days, Entries, Calls
<1>2. OneCall /\ EntryInCall /\ SeenCoversSpent /\ Billing
  BY DEF QuotaInit, OneCall, EntryInCall, SeenCoversSpent, Billing
<1>3. SpentInCounter
  BY DEF QuotaInit, SpentInCounter, Days
<1>4. ProcessCap
  <2>1. \A p \in Procs : AsideBy(p) = {}
    BY DEF QuotaInit, AsideBy, HeldBy, InTransit
  <2> QED
    BY SMTT(60), <2>1, WeightEmpty DEF QuotaInit, ProcessCap
<1> QED
  BY <1>1, <1>2, <1>3, <1>4 DEF QuotaIInv

(* Every step keeps it.                                                    *)
LEMMA QuotaInvStep == QuotaIInv /\ [QuotaNext]_quotaVars => QuotaIInv'
<1> SUFFICES ASSUME QuotaIInv, [QuotaNext]_quotaVars PROVE QuotaIInv'
  OBVIOUS
<1> USE UnitsAssumption, QuotaAssumption
<1>0. TypeOK'
  BY QuotaTypeStep DEF QuotaIInv
<1>1. ASSUME NEW r \in Requests, ReserveRead(r) PROVE QuotaIInv'
  <2> USE DEF QuotaIInv, TypeOK
  <2>1. OneCall' /\ EntryInCall' /\ Billing'
    BY <1>1 DEF ReserveRead, LockFree, OneCall, EntryInCall, Billing
  <2>2. SeenCoversSpent' /\ SpentInCounter'
    BY <1>1 DEF ReserveRead, SeenCoversSpent, SpentInCounter
  <2>3. \A p \in Procs : spent'[p] <= spent[p] /\ AsideBy(p)' \subseteq AsideBy(p)
    BY <1>1 DEF ReserveRead, AsideBy, HeldBy, InTransit
  <2> QED
    BY <1>0, <2>1, <2>2, <2>3, CapKept
<1>2. ASSUME NEW r \in Requests, ReserveAccept(r) PROVE QuotaIInv'
  <2> USE DEF QuotaIInv, TypeOK
  <2>1. OneCall' /\ EntryInCall' /\ Billing'
    BY <1>2 DEF ReserveAccept, OneCall, EntryInCall, Billing
  <2>2. SeenCoversSpent' /\ SpentInCounter'
    BY <1>2 DEF ReserveAccept, SeenCoversSpent, SpentInCounter
  <2>3. ProcessCap'
    <3> SUFFICES ASSUME NEW p \in Procs
                 PROVE  spent'[p] + Weight(AsideBy(p)') <= Limit
      BY DEF ProcessCap, Weight, UnitsOf
    <3>1. CASE p # ProcOf[r]
      <4>1. AsideBy(p)' = AsideBy(p) /\ spent' = spent
        BY <1>2, <3>1 DEF ReserveAccept, AsideBy, HeldBy, InTransit
      <4> QED
        BY <4>1 DEF ProcessCap
    <3>2. CASE p = ProcOf[r]
      <4>1. AsideBy(p) = HeldBy(p)
        BY <1>2, <3>2 DEF ReserveAccept, AsideBy, InTransit, OneCall
      <4>2. AsideBy(p)' = AsideBy(p) \cup {r} /\ r \notin AsideBy(p)
        BY <1>2, <3>2, <4>1 DEF ReserveAccept, AsideBy, HeldBy, InTransit, EntryInCall
      <4>3. AsideBy(p) \in SUBSET Requests
        BY DEF AsideBy, HeldBy, InTransit
      <4>4. Weight(AsideBy(p)') = Weight(AsideBy(p)) + Cost[r]
        BY <4>2, <4>3, WeightAdd
      <4>5. seen[r] + Weight(AsideBy(p)) + Cost[r] <= Limit
        BY <1>2, <3>2, <4>1 DEF ReserveAccept, Fits
      <4>6. spent'[p] = spent[p] /\ spent[p] <= seen[r]
        BY <1>2, <3>2 DEF ReserveAccept, SeenCoversSpent
      <4>7. Weight(AsideBy(p)) \in Nat /\ Cost[r] \in Nat /\ spent[p] \in Nat /\ seen[r] \in Nat
        BY <4>3, WeightNat
      <4> QED
        BY <4>4, <4>5, <4>6, <4>7
    <3> QED
      BY <3>1, <3>2
  <2> QED
    BY <1>0, <2>1, <2>2, <2>3
<1>3. ASSUME NEW r \in Requests, ReserveReject(r) PROVE QuotaIInv'
  <2> USE DEF QuotaIInv, TypeOK
  <2>1. OneCall' /\ EntryInCall' /\ Billing'
    BY <1>3 DEF ReserveReject, OneCall, EntryInCall, Billing
  <2>2. SeenCoversSpent' /\ SpentInCounter'
    BY <1>3 DEF ReserveReject, SeenCoversSpent, SpentInCounter
  <2>3. \A p \in Procs : spent'[p] <= spent[p] /\ AsideBy(p)' \subseteq AsideBy(p)
    BY <1>3 DEF ReserveReject, AsideBy, HeldBy, InTransit
  <2> QED
    BY <1>0, <2>1, <2>2, <2>3, CapKept
<1>4. ASSUME NEW r \in Requests, ConsumeMark(r) PROVE QuotaIInv'
  <2> USE DEF QuotaIInv, TypeOK
  <2>1. OneCall' /\ EntryInCall' /\ Billing'
    BY <1>4 DEF ConsumeMark, LockFree, OneCall, EntryInCall, Billing
  <2>2. SeenCoversSpent' /\ SpentInCounter'
    BY <1>4 DEF ConsumeMark, SeenCoversSpent, SpentInCounter
  <2>3. \A p \in Procs : spent'[p] <= spent[p] /\ AsideBy(p)' \subseteq AsideBy(p)
    BY <1>4 DEF ConsumeMark, AsideBy, HeldBy, InTransit
  <2> QED
    BY <1>0, <2>1, <2>2, <2>3, CapKept
<1>5. ASSUME NEW r \in Requests, ConsumeIncrby(r) PROVE QuotaIInv'
  <2> USE DEF QuotaIInv, TypeOK
  <2>1. OneCall' /\ EntryInCall'
    BY <1>5 DEF ConsumeIncrby, OneCall, EntryInCall
  <2>2. Billing'
    BY <1>5 DEF ConsumeIncrby, Billing, EntryInCall
  <2>3. SeenCoversSpent'
    BY <1>5 DEF ConsumeIncrby, SeenCoversSpent, OneCall
  <2>4. SpentInCounter'
    <3> SUFFICES ASSUME NEW p \in Procs PROVE spent'[p] <= counter'[today']
      BY DEF SpentInCounter
    <3>1. counter'[today'] = counter[today] + Cost[r] /\ counter[today] \in Nat
      BY <1>5 DEF ConsumeIncrby
    <3>2. spent'[p] = spent[p] + Cost[r] \/ spent'[p] = spent[p]
      BY <1>5 DEF ConsumeIncrby
    <3>3. spent[p] <= counter[today] /\ spent[p] \in Nat /\ Cost[r] \in Nat
      BY DEF SpentInCounter
    <3> QED
      BY <3>1, <3>2, <3>3
  <2>5. ProcessCap'
    <3> SUFFICES ASSUME NEW p \in Procs
                 PROVE  spent'[p] + Weight(AsideBy(p)') <= Limit
      BY DEF ProcessCap, Weight, UnitsOf
    <3>1. CASE p # ProcOf[r]
      <4>1. AsideBy(p)' = AsideBy(p) /\ spent'[p] = spent[p]
        BY <1>5, <3>1 DEF ConsumeIncrby, AsideBy, HeldBy, InTransit
      <4> QED
        BY <4>1 DEF ProcessCap
    <3>2. CASE p = ProcOf[r]
      <4>1. AsideBy(p)' = AsideBy(p) \ {r} /\ r \in AsideBy(p)
        BY <1>5, <3>2 DEF ConsumeIncrby, AsideBy, HeldBy, InTransit, EntryInCall
      <4>2. AsideBy(p) \in SUBSET Requests /\ AsideBy(p)' \in SUBSET Requests
        BY <4>1 DEF AsideBy, HeldBy, InTransit
      <4>3. Weight(AsideBy(p)) = Weight(AsideBy(p)') + Cost[r]
        BY <4>1, <4>2, WeightRemove
      <4>4. spent'[p] = spent[p] + Cost[r]
        BY <1>5, <3>2 DEF ConsumeIncrby
      <4>5. Weight(AsideBy(p)') \in Nat /\ Cost[r] \in Nat /\ spent[p] \in Nat
        BY <4>2, WeightNat
      <4>6. spent[p] + Weight(AsideBy(p)) <= Limit
        BY DEF ProcessCap
      <4> QED
        BY <4>3, <4>4, <4>5, <4>6
    <3> QED
      BY <3>1, <3>2
  <2> QED
    BY <1>0, <2>1, <2>2, <2>3, <2>4, <2>5
<1>6. ASSUME NEW r \in Requests, ConsumePop(r) PROVE QuotaIInv'
  <2> USE DEF QuotaIInv, TypeOK
  <2>1. OneCall' /\ EntryInCall' /\ Billing'
    BY <1>6 DEF ConsumePop, OneCall, EntryInCall, Billing
  <2>2. SeenCoversSpent' /\ SpentInCounter'
    BY <1>6 DEF ConsumePop, SeenCoversSpent, SpentInCounter
  <2>3. \A p \in Procs : spent'[p] <= spent[p] /\ AsideBy(p)' \subseteq AsideBy(p)
    BY <1>6 DEF ConsumePop, AsideBy, HeldBy, InTransit
  <2> QED
    BY <1>0, <2>1, <2>2, <2>3, CapKept
<1>7. ASSUME NEW r \in Requests, Abort(r) PROVE QuotaIInv'
  <2> USE DEF QuotaIInv, TypeOK
  <2>1. OneCall' /\ EntryInCall' /\ Billing'
    BY <1>7 DEF Abort, OneCall, EntryInCall, Billing
  <2>2. SeenCoversSpent' /\ SpentInCounter'
    BY <1>7 DEF Abort, SeenCoversSpent, SpentInCounter
  <2>3. \A p \in Procs : spent'[p] <= spent[p] /\ AsideBy(p)' \subseteq AsideBy(p)
    BY <1>7 DEF Abort, AsideBy, HeldBy, InTransit, EntryInCall
  <2> QED
    BY <1>0, <2>1, <2>2, <2>3, CapKept
<1>8. ASSUME NEW r \in Requests, Release(r) PROVE QuotaIInv'
  <2> USE DEF QuotaIInv, TypeOK
  <2>1. OneCall' /\ EntryInCall' /\ Billing'
    BY <1>8 DEF Release, LockFree, OneCall, EntryInCall, Billing
  <2>2. SeenCoversSpent' /\ SpentInCounter'
    BY <1>8 DEF Release, SeenCoversSpent, SpentInCounter
  <2>3. \A p \in Procs : spent'[p] <= spent[p] /\ AsideBy(p)' \subseteq AsideBy(p)
    BY <1>8 DEF Release, AsideBy, HeldBy, InTransit
  <2> QED
    BY <1>0, <2>1, <2>2, <2>3, CapKept
<1>9. CASE Midnight
  <2> USE DEF QuotaIInv, TypeOK
  <2>1. OneCall' /\ EntryInCall' /\ Billing'
    BY <1>9 DEF Midnight, OneCall, EntryInCall, Billing
  <2>2. SeenCoversSpent' /\ SpentInCounter'
    BY <1>0, <1>9 DEF Midnight, SeenCoversSpent, SpentInCounter
  <2>3. \A p \in Procs : spent'[p] <= spent[p] /\ AsideBy(p)' \subseteq AsideBy(p)
    BY <1>9 DEF Midnight, AsideBy, HeldBy, InTransit
  <2> QED
    BY <1>0, <2>1, <2>2, <2>3, CapKept
<1>10. ASSUME NEW p \in Procs, Restart(p) PROVE QuotaIInv'
  <2> USE DEF QuotaIInv, TypeOK
  <2>1. OneCall' /\ EntryInCall' /\ Billing'
    BY <1>10 DEF Restart, OneCall, EntryInCall, Billing
  <2>2. SeenCoversSpent' /\ SpentInCounter'
    BY <1>10 DEF Restart, SeenCoversSpent, SpentInCounter
  <2>3. \A q \in Procs : spent'[q] <= spent[q] /\ AsideBy(q)' \subseteq AsideBy(q)
    BY <1>10 DEF Restart, AsideBy, HeldBy, InTransit
  <2> QED
    BY <1>0, <2>1, <2>2, <2>3, CapKept
<1>11. CASE UNCHANGED quotaVars
  BY <1>11 DEF quotaVars, QuotaIInv, TypeOK, OneCall, EntryInCall, SeenCoversSpent,
               SpentInCounter, Billing, ProcessCap, AsideBy, HeldBy, InTransit
<1> QED
  BY <1>1, <1>2, <1>3, <1>4, <1>5, <1>6, <1>7, <1>8, <1>9, <1>10, <1>11 DEF QuotaNext

(* The inductive invariant of any number of processes.                     *)
LEMMA QuotaInvariant == QuotaSpec => []QuotaIInv
BY QuotaInvInit, QuotaInvStep, PTL DEF QuotaSpec

-----------------------------------------------------------------------------
(* No process goes over the budget on its own, whatever the others do, and *)
(* through cancellations, Redis errors, midnights and restarts.            *)
THEOREM EachProcessCapped == QuotaSpec => []ProcessCap
<1>1. QuotaIInv => ProcessCap
  BY DEF QuotaIInv
<1> QED
  BY <1>1, QuotaInvariant, PTL

(* A reservation is charged in full or not at all, and never twice.        *)
THEOREM NeverChargedTwice == QuotaSpec => []ChargedAtMostOnce
<1>1. QuotaIInv => ChargedAtMostOnce
  BY DEF QuotaIInv, Billing, ChargedAtMostOnce
<1> QED
  BY <1>1, QuotaInvariant, PTL

(* What has left the dictionary is not charged any more.                   *)
THEOREM ReleasedStaysFree == QuotaSpec => NoChargeAfterRelease
<1> DEFINE Quiet == \A r \in Requests :
                       reservation[r] = "popped" => billed'[r] = billed[r]
<1>1. QuotaIInv /\ [QuotaNext]_quotaVars => [Quiet]_quotaVars
  <2> SUFFICES ASSUME QuotaIInv, [QuotaNext]_quotaVars PROVE Quiet
    OBVIOUS
  <2> USE DEF QuotaIInv, TypeOK
  <2>1. ASSUME NEW r \in Requests, ConsumeIncrby(r) PROVE Quiet
    BY <2>1 DEF ConsumeIncrby, EntryInCall
  <2>2. CASE \A r \in Requests : ~ConsumeIncrby(r)
    <3>1. billed' = billed
      BY <2>2 DEF QuotaNext, ReserveRead, ReserveAccept, ReserveReject, ConsumeMark,
                  ConsumePop, Abort, Release, Midnight, Restart, quotaVars
    <3> QED
      BY <3>1
  <2> QED
    BY <2>1, <2>2
<1> QED
  BY <1>1, QuotaInvariant, PTL DEF QuotaSpec, NoChargeAfterRelease

-----------------------------------------------------------------------------
(* Several processes.  The counter of the day holds the units they have    *)
(* charged to it, of which none has more than the limit.                   *)
ChargedUnits == UNION {{p} \X (1 .. spent[p]) : p \in Procs}

CounterIsTally ==
    /\ counter[today] = Cardinality(ChargedUnits)
    /\ \A d \in Days : d > today => counter[d] = 0
    /\ SharedCap

UnitsBounded ==
    IsFiniteSet(ChargedUnits) /\ Cardinality(ChargedUnits) <= Cardinality(Procs) * Limit

(* However the processes share the day, they charge at most Limit each.    *)
LEMMA ChargedUnitsBounded == IsFiniteSet(Procs) /\ QuotaIInv => UnitsBounded
<1> SUFFICES ASSUME IsFiniteSet(Procs), QuotaIInv
             PROVE  UnitsBounded
  OBVIOUS
<1> DEFINE All == Procs \X (1 .. Limit)
<1>1. ASSUME NEW p \in Procs PROVE spent[p] \in Nat /\ spent[p] <= Limit
  <2>1. AsideBy(p) \in SUBSET Requests
    BY DEF AsideBy, HeldBy, InTransit
  <2>2. Weight(AsideBy(p)) \in Nat
    BY <2>1, WeightNat
  <2>3. spent[p] + Weight(AsideBy(p)) <= Limit
    BY DEF QuotaIInv, ProcessCap
  <2>4. spent[p] \in Nat
    BY DEF QuotaIInv, TypeOK
  <2> QED
    BY <2>2, <2>3, <2>4, QuotaAssumption
<1>2. ChargedUnits \subseteq All
  <2> SUFFICES ASSUME NEW p \in Procs, NEW u \in {p} \X (1 .. spent[p]) PROVE u \in All
    BY DEF ChargedUnits
  <2>1. u[1] = p /\ u[2] \in 1 .. Limit /\ u = <<u[1], u[2]>>
    BY <1>1, QuotaAssumption
  <2> QED
    BY <2>1
<1>3. IsFiniteSet(1 .. Limit) /\ Cardinality(1 .. Limit) = Limit
  BY QuotaAssumption, FS_Interval
<1>4. IsFiniteSet(All) /\ Cardinality(All) = Cardinality(Procs) * Limit
  BY <1>3, FS_Product
<1>5. IsFiniteSet(ChargedUnits) /\ Cardinality(ChargedUnits) <= Cardinality(All)
  BY <1>2, <1>4, FS_Subset
<1> QED
  BY <1>4, <1>5 DEF UnitsBounded

(* A charge adds as many units as the request costs.                       *)
LEMMA ChargeAddsUnits ==
    ASSUME IsFiniteSet(Procs), QuotaIInv, NEW r \in Requests, ConsumeIncrby(r)
    PROVE  Cardinality(ChargedUnits') = Cardinality(ChargedUnits) + Cost[r]
<1> USE UnitsAssumption, QuotaAssumption
<1> DEFINE p == ProcOf[r]
           Added == (spent[p] + 1) .. (spent[p] + Cost[r])
           New == {p} \X Added
<1>1. p \in Procs /\ spent[p] \in Nat /\ Cost[r] \in Nat /\ spent \in [Procs -> Nat]
  BY DEF QuotaIInv, TypeOK
<1>2. spent' = [spent EXCEPT ![p] = @ + Cost[r]]
  BY DEF ConsumeIncrby
<1>3. ChargedUnits' = ChargedUnits \cup New
  <2>1. ASSUME NEW q \in Procs, q # p PROVE spent'[q] = spent[q]
    BY <1>1, <1>2, <2>1
  <2>2. 1 .. spent'[p] = (1 .. spent[p]) \cup Added
    BY <1>1, <1>2
  <2>3. {p} \X (1 .. spent'[p]) = ({p} \X (1 .. spent[p])) \cup New
    BY <2>2
  <2>4. ChargedUnits' = UNION {{q} \X (1 .. spent'[q]) : q \in Procs}
    BY DEF ChargedUnits
  <2> HIDE DEF New
  <2>5. ASSUME NEW u PROVE u \in ChargedUnits' <=> u \in ChargedUnits \cup New
    BY <1>1, <2>1, <2>3, <2>4 DEF ChargedUnits
  <2> QED
    BY <2>5
<1>4. ChargedUnits \cap New = {}
  BY <1>1 DEF ChargedUnits
<1>5. IsFiniteSet(Added) /\ Cardinality(Added) = Cost[r]
  <2>1. ASSUME NEW i \in Nat, NEW n \in Nat
        PROVE  IsFiniteSet(i + 1 .. i + n) /\ Cardinality(i + 1 .. i + n) = n
    <3>1. i + 1 \in Int /\ i + n \in Int
      OBVIOUS
    <3>2. /\ IsFiniteSet(i + 1 .. i + n)
          /\ Cardinality(i + 1 .. i + n) = IF i + 1 > i + n THEN 0 ELSE (i + n) - (i + 1) + 1
      BY <3>1, FS_Interval, Zenon
    <3> QED
      BY <3>2
  <2> QED
    BY <1>1, <2>1
<1>6. IsFiniteSet(New) /\ Cardinality(New) = Cost[r]
  <2>1. IsFiniteSet({p}) /\ Cardinality({p}) = 1
    BY FS_Singleton
  <2>2. IsFiniteSet(New) /\ Cardinality(New) = Cardinality({p}) * Cardinality(Added)
    BY <1>5, <2>1, FS_Product
  <2> QED
    BY <1>1, <1>5, <2>1, <2>2
<1>7. IsFiniteSet(ChargedUnits) /\ Cardinality(ChargedUnits) \in Nat
  BY ChargedUnitsBounded, FS_CardinalityType DEF UnitsBounded
<1>8. Cardinality(ChargedUnits \cup New)
        = Cardinality(ChargedUnits) + Cardinality(New) - Cardinality(ChargedUnits \cap New)
  BY <1>6, <1>7, FS_Union
<1>9. Cardinality(ChargedUnits \cap New) = 0
  BY <1>4, FS_EmptySet
<1> QED
  BY <1>1, <1>3, <1>6, <1>7, <1>8, <1>9

(* Every step keeps the tally: a charge adds to both sides, at midnight    *)
(* both begin again.                                                       *)
LEMMA CounterIsTallyStep ==
    ASSUME IsFiniteSet(Procs), QuotaIInv, QuotaIInv', CounterIsTally, [QuotaNext]_quotaVars
    PROVE  CounterIsTally'
<1> USE UnitsAssumption, QuotaAssumption
<1>0. Cardinality(Procs) * Limit \in Nat /\ \A d \in Days : counter[d] <= Cardinality(Procs) * Limit
  <2>1. Cardinality(Procs) \in Nat
    BY FS_CardinalityType
  <2> QED
    BY <2>1 DEF CounterIsTally, SharedCap
<1>1. ASSUME NEW r \in Requests, ConsumeIncrby(r) PROVE CounterIsTally'
  <2>1. today' = today /\ counter' = [counter EXCEPT ![today] = @ + Cost[r]]
    BY <1>1 DEF ConsumeIncrby
  <2>2. today \in Days /\ counter \in [Days -> Nat]
    BY DEF QuotaIInv, TypeOK
  <2>3. counter'[today'] = Cardinality(ChargedUnits')
    BY <1>1, <2>1, <2>2, ChargeAddsUnits DEF CounterIsTally
  <2>4. Cardinality(ChargedUnits') <= Cardinality(Procs) * Limit
    <3>1. (IsFiniteSet(Procs) /\ QuotaIInv)' => UnitsBounded'
      BY ChargedUnitsBounded, PTL
    <3> QED
      BY <3>1 DEF UnitsBounded
  <2>5. \A d \in Days : d # today => counter'[d] = counter[d]
    BY <2>1, <2>2
  <2> QED
    BY <1>0, <2>1, <2>2, <2>3, <2>4, <2>5 DEF CounterIsTally, SharedCap, Days
<1>2. CASE Midnight
  <2>1. today' \in Days /\ today' > today /\ counter' = counter /\ \A p \in Procs : spent'[p] = 0
    BY <1>2 DEF Midnight, QuotaIInv, TypeOK, Days
  <2>2. ChargedUnits' = {}
    BY <2>1 DEF ChargedUnits
  <2>3. Cardinality(ChargedUnits') = 0
    BY <2>2, FS_EmptySet
  <2> QED
    BY <2>1, <2>3 DEF CounterIsTally, SharedCap, QuotaIInv, TypeOK, Days
<1>3. CASE ~Midnight /\ \A r \in Requests : ~ConsumeIncrby(r)
  <2>1. today' = today /\ counter' = counter /\ spent' = spent
    BY <1>3 DEF QuotaNext, ReserveRead, ReserveAccept, ReserveReject, ConsumeMark,
                ConsumePop, Abort, Release, Restart, quotaVars
  <2> QED
    BY <2>1 DEF CounterIsTally, ChargedUnits, SharedCap
<1> QED
  BY <1>1, <1>2, <1>3

(* Theorem: n processes on one counter charge a day at most n times the    *)
(* limit, through cancellations, errors of Redis, midnights and restarts.  *)
THEOREM ManyProcessesShareTheCap ==
    ASSUME IsFiniteSet(Procs)
    PROVE  QuotaSpec => []SharedCap
<1>1. QuotaInit => CounterIsTally
  <2> SUFFICES ASSUME QuotaInit PROVE CounterIsTally
    OBVIOUS
  <2>1. ChargedUnits = {}
    BY DEF QuotaInit, ChargedUnits
  <2>2. Cardinality(ChargedUnits) = 0 /\ Cardinality(Procs) \in Nat
    BY <2>1, FS_EmptySet, FS_CardinalityType
  <2>3. Cardinality(Procs) * Limit >= 0
    BY <2>2, QuotaAssumption
  <2> QED
    BY <2>2, <2>3, QuotaAssumption DEF QuotaInit, CounterIsTally, SharedCap, Days
<1>2. CounterIsTally /\ QuotaIInv /\ QuotaIInv' /\ [QuotaNext]_quotaVars => CounterIsTally'
  BY CounterIsTallyStep
<1>3. CounterIsTally => SharedCap
  BY DEF CounterIsTally
<1> QED
  BY <1>1, <1>2, <1>3, QuotaInvariant, PTL DEF QuotaSpec

-----------------------------------------------------------------------------
(* One process.  The counter then holds what this process has charged, and *)
(* nothing yet for the days to come.                                       *)
SoleCounter ==
    /\ \A p \in Procs : counter[today] = spent[p]
    /\ \A d \in Days : d > today => counter[d] = 0
    /\ \A d \in Days : counter[d] <= Limit

(* With one process, every step keeps it.                                  *)
LEMMA SoleCounterStep ==
    ASSUME NEW sole, Procs = {sole},
           QuotaIInv, QuotaIInv', SoleCounter, [QuotaNext]_quotaVars
    PROVE  SoleCounter'
<1> USE UnitsAssumption, QuotaAssumption DEF QuotaIInv, TypeOK
<1>1. ASSUME NEW r \in Requests, ConsumeIncrby(r) PROVE SoleCounter'
  <2>1. /\ today' = today
        /\ counter' = [counter EXCEPT ![today] = @ + Cost[r]]
        /\ spent' = [spent EXCEPT ![sole] = @ + Cost[r]]
    BY <1>1 DEF ConsumeIncrby
  <2>2. \A p \in Procs : counter'[today'] = spent'[p]
    BY <2>1 DEF SoleCounter, Days
  <2>3. \A d \in Days : d > today' => counter'[d] = 0
    BY <2>1 DEF SoleCounter, Days
  <2>4. counter'[today'] <= Limit
    <3>1. spent'[sole] + Weight(AsideBy(sole)') <= Limit
      BY DEF ProcessCap, Weight, UnitsOf
    <3>2. AsideBy(sole)' \in SUBSET Requests
      BY DEF AsideBy, HeldBy, InTransit
    <3>3. Weight(AsideBy(sole)') \in Nat /\ spent'[sole] \in Nat
      BY <3>2, WeightNat
    <3> QED
      BY <2>2, <3>1, <3>3
  <2>5. \A d \in Days : d # today' => counter'[d] = counter[d]
    BY <2>1
  <2> QED
    BY <2>2, <2>3, <2>4, <2>5 DEF SoleCounter, Days
<1>2. CASE Midnight
  BY <1>2 DEF Midnight, SoleCounter, Days
<1>3. CASE ~Midnight /\ \A r \in Requests : ~ConsumeIncrby(r)
  <2>1. today' = today /\ counter' = counter /\ spent' = spent
    BY <1>3 DEF QuotaNext, ReserveRead, ReserveAccept, ReserveReject, ConsumeMark,
                ConsumePop, Abort, Release, Restart, quotaVars
  <2> QED
    BY <2>1 DEF SoleCounter
<1> QED
  BY <1>1, <1>2, <1>3

(* With one process the daily cap is hard: no day's counter ever passes it. *)
THEOREM OneProcessHardCap ==
    ASSUME NEW CONSTANT sole, Procs = {sole}
    PROVE  QuotaSpec => []DailyCap
<1>1. QuotaInit => SoleCounter
  BY UnitsAssumption, QuotaAssumption DEF QuotaInit, SoleCounter, Days
<1>2. SoleCounter /\ QuotaIInv /\ QuotaIInv' /\ [QuotaNext]_quotaVars => SoleCounter'
  BY SoleCounterStep
<1>3. SoleCounter => DailyCap
  BY DEF SoleCounter, DailyCap
<1> QED
  BY <1>1, <1>2, <1>3, QuotaInvariant, PTL DEF QuotaSpec

-----------------------------------------------------------------------------
(* The refinement: one process implements QuotaBudget.                     *)

(* A step that charges nothing and sets nothing new aside gives back.      *)
LEMMA StepGivesBack ==
    ASSUME NEW sole, Procs = {sole}, counter'[today'] = counter[today],
           AsideBy(sole)' \subseteq AsideBy(sole)
    PROVE  Budget!BudgetNext
<1> DEFINE back == AsideBy(sole) \ AsideBy(sole)'
<1>1. /\ UNION {AsideBy(p) : p \in Procs} = AsideBy(sole)
      /\ (UNION {AsideBy(p) : p \in Procs})' = AsideBy(sole)'
  OBVIOUS
<1>2. back \in SUBSET Requests
  BY DEF AsideBy, HeldBy, InTransit
<1>3. AsideBy(sole)' = AsideBy(sole) \ back
  OBVIOUS
<1>4. Budget!GiveBack(back)
  BY <1>1, <1>3 DEF Budget!GiveBack
<1> QED
  BY <1>2, <1>4 DEF Budget!BudgetNext

(* With one process, a step of the manager is one of the budget or none.   *)
LEMMA BudgetStep ==
    ASSUME NEW sole, Procs = {sole},
           QuotaIInv, SoleCounter, [QuotaNext]_quotaVars
    PROVE  [Budget!BudgetNext]_Budget!budgetVars
<1> USE UnitsAssumption, QuotaAssumption DEF QuotaIInv, TypeOK
<1>0. UNION {AsideBy(p) : p \in Procs} = AsideBy(sole)
      /\ (UNION {AsideBy(p) : p \in Procs})' = AsideBy(sole)'
  OBVIOUS
<1>1. ASSUME NEW r \in Requests, ReserveAccept(r) PROVE Budget!BudgetNext
  <2>1. ProcOf[r] = sole /\ AsideBy(sole) = HeldBy(sole)
    BY <1>1 DEF ReserveAccept, AsideBy, InTransit, OneCall
  <2>2. AsideBy(sole)' = AsideBy(sole) \cup {r} /\ r \notin AsideBy(sole)
    BY <1>1, <2>1 DEF ReserveAccept, AsideBy, HeldBy, InTransit, EntryInCall
  <2>3. seen[r] + Weight(AsideBy(sole)) + Cost[r] <= Limit
    BY <1>1, <2>1 DEF ReserveAccept, Fits
  <2>4. counter[today] <= seen[r]
    BY <1>1, <2>1 DEF ReserveAccept, SoleCounter, SeenCoversSpent
  <2>5. /\ Weight(AsideBy(sole)) \in Nat /\ seen[r] \in Nat
        /\ counter[today] \in Nat /\ Cost[r] \in Nat
    BY WeightNat DEF AsideBy, HeldBy, InTransit
  <2>6. counter[today] + Weight(AsideBy(sole)) + Cost[r] <= Limit
    BY <2>3, <2>4, <2>5
  <2>7. counter'[today'] = counter[today]
    BY <1>1 DEF ReserveAccept
  <2>8. Budget!SetAside(r)
    BY <1>0, <2>2, <2>6, <2>7 DEF Budget!SetAside
  <2> QED
    BY <2>8 DEF Budget!BudgetNext
<1>2. ASSUME NEW r \in Requests, ConsumeIncrby(r) PROVE Budget!BudgetNext
  <2>1. AsideBy(sole)' = AsideBy(sole) \ {r} /\ r \in AsideBy(sole)
    BY <1>2 DEF ConsumeIncrby, AsideBy, HeldBy, InTransit, EntryInCall
  <2>2. counter'[today'] = counter[today] + Cost[r]
    BY <1>2 DEF ConsumeIncrby
  <2>3. Budget!Charge(r)
    BY <1>0, <2>1, <2>2 DEF Budget!Charge
  <2> QED
    BY <2>3 DEF Budget!BudgetNext
<1>3. CASE Midnight
  <2>1. counter'[today'] = 0
    BY <1>3 DEF Midnight, SoleCounter, Days
  <2>2. AsideBy(sole)' = AsideBy(sole)
    BY <1>3 DEF Midnight, AsideBy, HeldBy, InTransit
  <2>3. Budget!NewDay
    BY <1>0, <2>1, <2>2 DEF Budget!NewDay
  <2> QED
    BY <2>3 DEF Budget!BudgetNext
<1>4. ASSUME NEW r \in Requests,
             \/ ReserveRead(r) \/ ReserveReject(r) \/ ConsumeMark(r)
             \/ ConsumePop(r) \/ Abort(r) \/ Release(r)
      PROVE  Budget!BudgetNext
  <2>1. counter'[today'] = counter[today]
    BY <1>4 DEF ReserveRead, ReserveReject, ConsumeMark, ConsumePop, Abort, Release
  <2>2. AsideBy(sole)' \subseteq AsideBy(sole)
    BY <1>4 DEF ReserveRead, ReserveReject, ConsumeMark, ConsumePop, Abort, Release,
                AsideBy, HeldBy, InTransit, EntryInCall
  <2> QED
    BY <2>1, <2>2, StepGivesBack
<1>5. ASSUME NEW p \in Procs, Restart(p) PROVE Budget!BudgetNext
  <2>1. counter'[today'] = counter[today]
    BY <1>5 DEF Restart
  <2>2. AsideBy(sole)' \subseteq AsideBy(sole)
    BY <1>5 DEF Restart, AsideBy, HeldBy, InTransit
  <2> QED
    BY <2>1, <2>2, StepGivesBack
<1>6. CASE UNCHANGED quotaVars
  <2>1. counter'[today'] = counter[today] /\ AsideBy(sole)' = AsideBy(sole)
    BY <1>6 DEF quotaVars, AsideBy, HeldBy, InTransit
  <2> QED
    BY <1>0, <2>1 DEF Budget!budgetVars
<1> QED
  BY <1>1, <1>2, <1>3, <1>4, <1>5, <1>6 DEF QuotaNext

(* One process, with its lock, its dictionary and its awaits, implements   *)
(* the budget that callers see.                                            *)
THEOREM OneProcessKeepsBudget ==
    ASSUME NEW CONSTANT sole, Procs = {sole}
    PROVE  QuotaSpec => KeepsBudget
<1>1. QuotaInit => SoleCounter
  BY UnitsAssumption, QuotaAssumption DEF QuotaInit, SoleCounter, Days
<1>2. SoleCounter /\ QuotaIInv /\ QuotaIInv' /\ [QuotaNext]_quotaVars => SoleCounter'
  BY SoleCounterStep
<1>3. QuotaInit => Budget!BudgetInit
  <2> SUFFICES ASSUME QuotaInit PROVE Budget!BudgetInit
    OBVIOUS
  <2>1. counter[today] = 0
    BY QuotaAssumption DEF QuotaInit, Days
  <2>2. UNION {AsideBy(p) : p \in Procs} = {}
    BY DEF QuotaInit, AsideBy, HeldBy, InTransit
  <2> QED
    BY <2>1, <2>2 DEF Budget!BudgetInit
<1>4. QuotaIInv /\ SoleCounter /\ [QuotaNext]_quotaVars
        => [Budget!BudgetNext]_Budget!budgetVars
  BY BudgetStep
<1> QED
  BY <1>1, <1>2, <1>3, <1>4, QuotaInvariant, PTL DEF QuotaSpec, KeepsBudget, Budget!BudgetSpec

-----------------------------------------------------------------------------
(* The breaker's inductive invariant.                                      *)
BreakerInv == BreakerTypeOK /\ BreakerAgrees

(* It holds initially.                                                     *)
LEMMA BreakerInvInit ==
    ASSUME BreakerConstants, BreakerInit
    PROVE  BreakerInv
BY DEF BreakerConstants, BreakerInit, BreakerInv, BreakerTypeOK, BreakerAgrees

(* Every step of the breaker keeps it.                                     *)
LEMMA BreakerInvStep ==
    ASSUME BreakerConstants, BreakerInv, [BreakerNext]_breakerVars
    PROVE  BreakerInv'
<1> USE DEF BreakerConstants, BreakerInv, BreakerTypeOK, BreakerAgrees
<1>1. CASE Admit
  BY <1>1 DEF Admit, breakerVars
<1>2. CASE RecordSuccess
  BY <1>2 DEF RecordSuccess, breakerVars
<1>3. CASE RecordFailure
  <2>1. CASE failures < Threshold
    BY <1>3, <2>1 DEF RecordFailure
  <2>2. CASE ~(failures < Threshold)
    BY <1>3, <2>2 DEF RecordFailure
  <2> QED
    BY <2>1, <2>2
<1>4. CASE BreakerTick
  BY <1>4 DEF BreakerTick
<1>5. CASE UNCHANGED breakerVars
  BY <1>5 DEF breakerVars
<1> QED
  BY <1>1, <1>2, <1>3, <1>4, <1>5 DEF BreakerNext

(* The breaker's state and counters agree whatever order outcomes come in. *)
THEOREM BreakerCorrect ==
    ASSUME BreakerConstants
    PROVE  BreakerSpec => [](BreakerTypeOK /\ BreakerAgrees)
<1>1. BreakerInit => BreakerInv
  BY BreakerInvInit
<1>2. BreakerInv /\ [BreakerNext]_breakerVars => BreakerInv'
  BY BreakerInvStep
<1> QED
  BY <1>1, <1>2, PTL DEF BreakerSpec, BreakerInv

-----------------------------------------------------------------------------
(* The two backoffs stay within the cap.                                   *)
LEMMA BackoffBounded ==
    ASSUME NEW base \in {Base429, BaseOther}, NEW n \in 1 .. MaxErrors
    PROVE  Backoff(base, n) \in 0 .. Cap
<1>1. 2 ^ (n - 1) \in Nat /\ base \in Nat /\ Cap \in Nat
  BY PoolAssumption DEF PoolConstants
<1>2. base * 2 ^ (n - 1) \in Nat
  BY <1>1
<1> QED
  BY <1>1, <1>2 DEF Backoff, Least

(* What the pool knows of its keys, and what the callers know of theirs.   *)
KeyHealth ==
    /\ status \in [Keys -> Statuses]
    /\ cooldown \in [Keys -> Nat]
    /\ errors \in [Keys -> 0 .. MaxErrors]
    /\ usage \in [Keys -> 0 .. MaxUsage]
    /\ AvailableIsRested
    /\ CooldownCapped

InHand ==
    /\ using \in [Callers -> Keys \cup {NoKey}]
    /\ tries \in [Callers -> 0 .. MaxAttempts]

(* The health holds initially.                                             *)
LEMMA HealthInit == PoolInit => KeyHealth /\ InHand
BY PoolAssumption
DEF PoolConstants, PoolInit, KeyHealth, InHand, Statuses, AvailableIsRested, CooldownCapped

(* Handing out a key makes AVAILABLE only what has rested.                 *)
LEMMA TakeKeepsHealth ==
    ASSUME KeyHealth, NEW r \in Callers, TakeKey(r)
    PROVE  KeyHealth'
BY PoolAssumption
DEF PoolConstants, TakeKey, Refresh, Rested, KeyHealth, Statuses, AvailableIsRested, CooldownCapped

(* What an error report makes of the key it is about: a status that is not *)
(* AVAILABLE, with a cooldown in bounds when it is COOLDOWN.               *)
LEMMA BenchedKeepsHealth ==
    ASSUME KeyHealth,
           errors' \in [Keys -> 0 .. MaxErrors], usage' = usage,
           NEW k \in Keys, NEW st \in Statuses \ {"AVAILABLE"}, NEW time \in Nat,
           status' = [status EXCEPT ![k] = st],
           cooldown' = [cooldown EXCEPT ![k] = time],
           st = "COOLDOWN" => time <= Cap
    PROVE  KeyHealth'
<1> USE DEF KeyHealth
<1>1. status' \in [Keys -> Statuses] /\ cooldown' \in [Keys -> Nat]
  OBVIOUS
<1>2. \A j \in Keys : /\ status'[j] = IF j = k THEN st ELSE status[j]
                      /\ cooldown'[j] = IF j = k THEN time ELSE cooldown[j]
  OBVIOUS
<1>3. AvailableIsRested' /\ CooldownCapped'
  BY <1>2 DEF AvailableIsRested, CooldownCapped
<1> QED
  BY <1>1, <1>3

(* record_error, in each of its branches.                                  *)
LEMMA ErrorKeepsHealth ==
    ASSUME KeyHealth, NEW r \in Callers, using[r] \in Keys \cup {NoKey},
           NEW code \in ErrorCodes, ReportError(r, code)
    PROVE  KeyHealth'
<1> USE PoolAssumption DEF PoolConstants
<1> DEFINE k == using[r]
           n == Least(MaxErrors, errors[k] + 1)
<1>1. k \in Keys /\ n \in 1 .. MaxErrors
  BY DEF ReportError, Least, KeyHealth
<1>2. errors' \in [Keys -> 0 .. MaxErrors] /\ usage' = usage
  BY <1>1 DEF ReportError, KeyHealth
<1>3. /\ cooldown[k] \in Nat /\ DayTicks \in Nat /\ Cap \in Nat /\ Cap <= Cap
      /\ Backoff(Base429, n) \in Nat /\ Backoff(Base429, n) <= Cap
      /\ Backoff(BaseOther, n) \in Nat /\ Backoff(BaseOther, n) <= Cap
  BY <1>1, BackoffBounded DEF KeyHealth
<1>4. CASE code = "mismatch"
  BY <1>2, <1>4 DEF ReportError, KeyHealth, AvailableIsRested, CooldownCapped
<1>5. CASE code = "401"
  <2>1. /\ status' = [status EXCEPT ![k] = "INVALID"]
        /\ cooldown' = [cooldown EXCEPT ![k] = cooldown[k]]
    BY <1>5 DEF ReportError
  <2> HIDE DEF k, n
  <2> QED
    BY <1>1, <1>2, <1>3, <2>1, BenchedKeepsHealth DEF Statuses
<1>6. CASE code = "403quota"
  <2>1. /\ status' = [status EXCEPT ![k] = "EXHAUSTED"]
        /\ cooldown' = [cooldown EXCEPT ![k] = DayTicks]
    BY <1>6 DEF ReportError
  <2> HIDE DEF k, n
  <2> QED
    BY <1>1, <1>2, <1>3, <2>1, BenchedKeepsHealth DEF Statuses
<1>7. ASSUME NEW time \in Nat, time <= Cap,
             status' = [status EXCEPT ![k] = "COOLDOWN"],
             cooldown' = [cooldown EXCEPT ![k] = time]
      PROVE  KeyHealth'
  <2> HIDE DEF k, n
  <2> QED
    BY <1>1, <1>2, <1>7, BenchedKeepsHealth DEF Statuses
<1>8. CASE code \in {"403", "429", "other"}
  <2>1. status' = [status EXCEPT ![k] = "COOLDOWN"]
    BY <1>8 DEF ReportError
  <2>2. \/ cooldown' = [cooldown EXCEPT ![k] = Cap]
        \/ cooldown' = [cooldown EXCEPT ![k] = Backoff(Base429, n)]
        \/ cooldown' = [cooldown EXCEPT ![k] = Backoff(BaseOther, n)]
    BY <1>8 DEF ReportError
  <2> HIDE DEF k, n
  <2> QED
    BY <1>3, <1>7, <2>1, <2>2
<1> QED
  BY <1>4, <1>5, <1>6, <1>8 DEF ErrorCodes

(* A success lowers no key's rank below zero and leaves the health alone.  *)
LEMMA SuccessKeepsHealth ==
    ASSUME KeyHealth, NEW r \in Callers, using[r] \in Keys \cup {NoKey},
           NEW units \in Nat, ReportSuccess(r, units)
    PROVE  KeyHealth'
<1> USE PoolAssumption DEF PoolConstants, KeyHealth
<1> DEFINE used == [usage EXCEPT ![using[r]] = @ + units]
<1>1. using[r] \in Keys /\ used \in [Keys -> Nat]
  BY DEF ReportSuccess
<1>2. PICK least \in Keys :
          /\ \A k \in Keys : used[least] <= used[k]
          /\ usage' = [k \in Keys |-> Least(MaxUsage, used[k] - used[least])]
  BY DEF ReportSuccess
<1>3. \A k \in Keys : used[k] - used[least] \in Nat
  BY <1>1, <1>2
<1>4. usage' \in [Keys -> 0 .. MaxUsage]
  <2> HIDE DEF used
  <2> QED
    BY <1>2, <1>3 DEF Least
<1>5. errors' \in [Keys -> 0 .. MaxErrors] /\ status' = status /\ cooldown' = cooldown
  BY <1>1 DEF ReportSuccess
<1> QED
  BY <1>4, <1>5 DEF AvailableIsRested, CooldownCapped

(* Time only shortens cooldowns.                                           *)
LEMMA TickKeepsHealth == KeyHealth /\ Tick => KeyHealth'
BY PoolAssumption DEF PoolConstants, Tick, KeyHealth, AvailableIsRested, CooldownCapped

(* The callers' side keeps its types.                                      *)
LEMMA InHandStep == InHand /\ [PoolNext]_keyPoolVars => InHand'
<1> SUFFICES ASSUME InHand, [PoolNext]_keyPoolVars PROVE InHand'
  OBVIOUS
<1> USE PoolAssumption DEF PoolConstants, InHand
<1>1. ASSUME NEW r \in Callers, Take(r) PROVE InHand'
  BY <1>1 DEF Take, TakeKey, Usable, Rested
<1>2. ASSUME NEW r \in Callers, Finish(r) PROVE InHand'
  BY <1>2 DEF Finish
<1>3. ASSUME NEW r \in Callers, NEW code \in ErrorCodes, Fail(r, code) PROVE InHand'
  BY <1>2, <1>3 DEF Fail
<1> QED
  BY <1>1, <1>2, <1>3 DEF PoolNext, Succeed, TimePasses, keyPoolVars

(* A key on offer has sat out its cooldown, and no cooldown is longer than *)
(* the cap, whatever answers come late.                                    *)
THEOREM PoolCorrect == PoolSpec => [](PoolTypeOK /\ AvailableIsRested /\ CooldownCapped)
<1>1. PoolInit => KeyHealth /\ InHand
  BY HealthInit
<1>2. KeyHealth /\ InHand /\ [PoolNext]_keyPoolVars => KeyHealth' /\ InHand'
  <2> SUFFICES ASSUME KeyHealth, InHand, [PoolNext]_keyPoolVars PROVE KeyHealth'
    BY InHandStep
  <2>1. ASSUME NEW r \in Callers, Take(r) PROVE KeyHealth'
    BY <2>1, TakeKeepsHealth DEF Take
  <2>2. ASSUME NEW r \in Callers, Succeed(r) PROVE KeyHealth'
    BY <2>2, SuccessKeepsHealth DEF Succeed, InHand
  <2>3. ASSUME NEW r \in Callers, NEW code \in ErrorCodes, Fail(r, code) PROVE KeyHealth'
    BY <2>3, ErrorKeepsHealth DEF Fail, InHand
  <2>4. CASE TimePasses
    BY <2>4, TickKeepsHealth DEF TimePasses
  <2>5. CASE UNCHANGED keyPoolVars
    BY <2>5 DEF keyPoolVars, KeyHealth, AvailableIsRested, CooldownCapped
  <2> QED
    BY <2>1, <2>2, <2>3, <2>4, <2>5 DEF PoolNext
<1>3. KeyHealth /\ InHand => PoolTypeOK /\ AvailableIsRested /\ CooldownCapped
  BY DEF KeyHealth, InHand, PoolTypeOK
<1> QED
  BY <1>1, <1>2, <1>3, PTL DEF PoolSpec
=============================================================================
