------------------------ MODULE YouTubeClient_proofs ------------------------
(* Theorems about YouTubeClient._request, for any number of requests and   *)
(* keys, any costs and limits, any breaker and any number of attempts.     *)
(* What was proved of the quota manager, the key pool and the breaker each *)
(* by itself is cited here of the instances the client is made of.         *)
(* Then, for any callers and keys, about the coalescer before it.          *)
EXTENDS YouTubeConsumption, SingleFlight, TLAPS

YP == INSTANCE YouTube_proofs WITH Procs <- {Process},
                                   ProcOf <- [r \in Requests |-> Process],
                                   Callers <- Requests, tries <- attempt

(* The assumptions of the instances follow from the client's.              *)
LEMMA InstanceConstants ==
    /\ YP!IsFiniteSet(Requests) /\ Cost \in [Requests -> Nat]
    /\ Limit \in Nat /\ LastDay \in Nat
    /\ [r \in Requests |-> Process] \in [Requests -> {Process}]
    /\ YP!BreakerConstants /\ YP!PoolConstants
<1>1. YP!IsFiniteSet(Requests)
  BY ClientAssumption DEF IsFiniteSet, YP!IsFiniteSet
<1>2. YP!BreakerConstants /\ YP!PoolConstants
  BY ClientAssumption DEF B!BreakerConstants, K!PoolConstants, YP!BreakerConstants, YP!PoolConstants
<1> QED
  BY <1>1, <1>2, ClientAssumption

(* The client's manager is the one the theorems about Quota are cited of.  *)
LEMMA SameWeight == \A S : Q!Weight(S) = YP!Weight(S)
BY DEF Q!Weight, YP!Weight, Q!UnitsOf, YP!UnitsOf, Q!Cardinality, YP!Cardinality

(* Every step the client takes with the quota manager is one of the        *)
(* manager by itself, for which YouTube_proofs has the theorems.           *)
LEMMA SameManager ==
    ASSUME NEW r \in Requests
    PROVE  /\ Q!ReserveRead(r) => YP!ReserveRead(r)
           /\ Q!ReserveAccept(r) => YP!ReserveAccept(r)
           /\ Q!ReserveReject(r) => YP!ReserveReject(r)
           /\ Q!ConsumeMark(r) => YP!ConsumeMark(r)
           /\ Q!ConsumeIncrby(r) => YP!ConsumeIncrby(r)
           /\ Q!ConsumePop(r) => YP!ConsumePop(r)
           /\ Q!Abort(r) => YP!Abort(r)
           /\ Q!Release(r) => YP!Release(r)
<1>1. Q!Fits(r) <=> YP!Fits(r)
  BY SameWeight DEF Q!Fits, YP!Fits, Q!HeldBy, YP!HeldBy
<1>2. \A p : Q!LockFree(p) <=> YP!LockFree(p)
  BY DEF Q!LockFree, YP!LockFree
<1> QED
  BY <1>1, <1>2
  DEF Q!ReserveRead, YP!ReserveRead, Q!ReserveAccept, YP!ReserveAccept,
      Q!ReserveReject, YP!ReserveReject, Q!ConsumeMark, YP!ConsumeMark,
      Q!ConsumeIncrby, YP!ConsumeIncrby, Q!ConsumePop, YP!ConsumePop,
      Q!Abort, YP!Abort, Q!Release, YP!Release

(* Every step of the client is a step of the manager or leaves it alone.   *)
LEMMA QuotaMoves ==
    ASSUME [Next]_vars
    PROVE  [YP!QuotaNext]_YP!quotaVars
<1>1. ASSUME NEW r \in Requests,
             \/ Reserve(r) \/ QuotaExceeded(r) \/ TakeKey(r) \/ NoKeyLeft(r)
             \/ AskToken(r) \/ Consume(r) \/ Refund(r) \/ RedisFails(r)
      PROVE  YP!QuotaNext
  BY <1>1, SameManager
  DEF Reserve, QuotaExceeded, TakeKey, NoKeyLeft, AskToken, Consume, Refund, RedisFails,
      YP!QuotaNext
<1>2. ASSUME NEW r \in Requests, Cancel(r)
      PROVE  [YP!QuotaNext]_YP!quotaVars
  BY <1>2, SameManager DEF Cancel, quotaVars, YP!quotaVars, YP!QuotaNext
<1>3. ASSUME NEW r \in Requests,
             \/ TokenFound(r) \/ TokenMissing(r) \/ Http2xx(r) \/ HttpError(r)
             \/ NetworkError(r) \/ Backoff(r) \/ Retry(r) \/ LeaveBreaker(r)
      PROVE  UNCHANGED YP!quotaVars
  BY <1>3
  DEF TokenFound, TokenMissing, Http2xx, HttpError, NetworkError, Answered, Backoff,
      Retry, LeaveBreaker, quotaVars, YP!quotaVars
<1>4. CASE TimePasses
  BY <1>4 DEF TimePasses, quotaVars, YP!quotaVars
<1>5. CASE Midnight
  BY <1>5 DEF Midnight, Q!Midnight, YP!Midnight, YP!QuotaNext
<1>6. CASE UNCHANGED vars
  BY <1>6 DEF vars, quotaVars, YP!quotaVars
<1> QED
  BY <1>1, <1>2, <1>3, <1>4, <1>5, <1>6 DEF Next, Step

(* Every step of the client is a step of the breaker or leaves it alone.   *)
LEMMA BreakerMoves ==
    ASSUME [Next]_vars
    PROVE  [YP!BreakerNext]_YP!breakerVars
<1> USE DEF breakerVars, YP!breakerVars
<1>1. /\ B!Admit => YP!Admit
      /\ B!RecordSuccess => YP!RecordSuccess
      /\ B!RecordFailure => YP!RecordFailure
      /\ B!BreakerTick => YP!BreakerTick
  BY DEF B!Admit, YP!Admit, B!RecordSuccess, YP!RecordSuccess, B!RecordFailure,
         YP!RecordFailure, B!BreakerTick, YP!BreakerTick, B!breakerVars
<1>2. ASSUME NEW r \in Requests, EnterBreaker(r)
      PROVE  [YP!BreakerNext]_YP!breakerVars
  BY <1>1, <1>2 DEF EnterBreaker, YP!BreakerNext
<1>3. ASSUME NEW r \in Requests, TakeKey(r) \/ TokenFound(r)
      PROVE  [YP!BreakerNext]_YP!breakerVars
  BY <1>2, <1>3 DEF TakeKey, TokenFound
<1>4. ASSUME NEW r \in Requests, LeaveBreaker(r)
      PROVE  YP!BreakerNext
  BY <1>1, <1>4 DEF LeaveBreaker, YP!BreakerNext
<1>5. ASSUME NEW r \in Requests,
             \/ Reserve(r) \/ QuotaExceeded(r) \/ NoKeyLeft(r) \/ AskToken(r)
             \/ TokenMissing(r) \/ Http2xx(r) \/ HttpError(r) \/ NetworkError(r)
             \/ Backoff(r) \/ Retry(r) \/ Consume(r) \/ Refund(r)
             \/ RedisFails(r) \/ Cancel(r)
      PROVE  UNCHANGED YP!breakerVars
  BY <1>5
  DEF Reserve, QuotaExceeded, NoKeyLeft, AskToken, TokenMissing, Http2xx, HttpError,
      NetworkError, Answered, Backoff, Retry, Consume, Refund, RedisFails, Cancel
<1>6. CASE TimePasses
  BY <1>1, <1>6 DEF TimePasses, YP!BreakerNext
<1>7. CASE Midnight \/ UNCHANGED vars
  BY <1>7 DEF Midnight, vars
<1> QED
  BY <1>3, <1>4, <1>5, <1>6, <1>7 DEF Next, Step

-----------------------------------------------------------------------------
(* Where a request is in _request and where its reservation is in the      *)
(* manager.                                                                *)
Reserved ==
    \A r \in Requests :
        /\ pc[r] = "start" => reservation[r] = "unused" /\ call[r] = "none"
        /\ pc[r] = "reserving" => reservation[r] = "unused" /\ call[r] = "reserve"
        /\ pc[r] \in {"token", "http", "answered", "backoff"} =>
              reservation[r] = "held" /\ call[r] = "none"
        /\ pc[r] \in {"consuming", "charging"} =>
              \/ reservation[r] = "held" /\ call[r] = "none"
              \/ reservation[r] = "consumed" /\ call[r] \in {"incrby", "expire"}
        /\ pc[r] = "refunding" => reservation[r] \in {"held", "consumed"}
        /\ pc[r] \in Ended \cup {"refunding"} => call[r] = "none"
        /\ pc[r] = "done" => reservation[r] = "popped"
        /\ pc[r] = "failed" => reservation[r] \in {"popped", "consumed"}

(* Where it is, what it was answered and what it was charged.              *)
Charged ==
    \A r \in Requests :
        /\ pc[r] \in {"start", "reserving", "token", "http", "answered", "backoff"} =>
              billed[r] = 0
        /\ call[r] = "expire" => billed[r] = Cost[r]
        /\ pc[r] \in {"consuming", "charging"} /\ call[r] # "expire" => billed[r] = 0
        /\ pc[r] \in {"start", "reserving", "token"} => result[r] = "none"
        /\ pc[r] = "consuming" => result[r] = "ok"
        /\ pc[r] = "charging" => result[r] = "api"
        /\ pc[r] = "refunding" => result[r] # "api"
        /\ pc[r] = "done" => billed[r] = Cost[r] /\ result[r] = "ok"
        /\ pc[r] = "failed" /\ result[r] = "api" =>
              billed[r] = Cost[r] \/ reservation[r] = "consumed"
        /\ billed[r] > 0 => result[r] \in {"ok", "api"}

(* A request backs off only while it has an attempt left.                  *)
AttemptsLeft == \A r \in Requests : pc[r] = "backoff" => attempt[r] < MaxAttempts

(* Where a request is, and the key and the attempt it is at.               *)
RequestTypes ==
    /\ pc \in [Requests -> PCs]
    /\ result \in [Requests -> Results]
    /\ YP!InHand

(* The client's inductive invariant, over those of its components.         *)
ClientIInv ==
    /\ YP!QuotaIInv
    /\ YP!KeyHealth
    /\ YP!BreakerInv
    /\ RequestTypes
    /\ Reserved /\ Charged /\ AttemptsLeft

(* The pool's part: an answer is reported under the key in hand only.      *)
LEMMA PoolKept ==
    ASSUME ClientIInv, [Next]_vars
    PROVE  YP!KeyHealth'
<1> USE DEF ClientIInv, RequestTypes, YP!InHand, poolVars
<1>1. ASSUME NEW r \in Requests, TakeKey(r) PROVE YP!KeyHealth'
  <2>1. YP!TakeKey(r)
    BY <1>1 DEF TakeKey, K!TakeKey, K!Refresh, K!Usable, K!Rested,
                YP!TakeKey, YP!Refresh, YP!Usable, YP!Rested
  <2> QED
    BY <2>1, InstanceConstants, YP!TakeKeepsHealth
<1>2. ASSUME NEW r \in Requests, K!ReportSuccess(r, Cost[r]) PROVE YP!KeyHealth'
  <2>1. YP!ReportSuccess(r, Cost[r])
    BY <1>2 DEF K!ReportSuccess, K!Least, YP!ReportSuccess, YP!Least
  <2>2. Cost[r] \in Nat /\ using[r] \in Keys \cup {NoKey}
    BY ClientAssumption
  <2> QED
    BY <2>1, <2>2, InstanceConstants, YP!SuccessKeepsHealth
<1>3. ASSUME NEW r \in Requests, NEW code \in K!ErrorCodes, K!ReportError(r, code)
      PROVE  YP!KeyHealth'
  <2>1. YP!ReportError(r, code)
    BY <1>3 DEF K!ReportError, K!Least, K!Backoff, YP!ReportError, YP!Least, YP!Backoff
  <2>2. code \in YP!ErrorCodes /\ using[r] \in Keys \cup {NoKey}
    BY DEF K!ErrorCodes, YP!ErrorCodes
  <2> QED
    BY <2>1, <2>2, InstanceConstants, YP!ErrorKeepsHealth
<1>4. CASE UNCHANGED poolVars
  BY <1>4 DEF YP!KeyHealth, YP!AvailableIsRested, YP!CooldownCapped
<1>5. ASSUME NEW r \in Requests, Http2xx(r) \/ HttpError(r) PROVE YP!KeyHealth'
  BY <1>2, <1>3, <1>4, <1>5 DEF Http2xx, HttpError
<1>6. ASSUME NEW r \in Requests,
             \/ Reserve(r) \/ QuotaExceeded(r) \/ NoKeyLeft(r) \/ AskToken(r)
             \/ TokenFound(r) \/ TokenMissing(r) \/ NetworkError(r) \/ Backoff(r)
             \/ Retry(r) \/ LeaveBreaker(r) \/ Consume(r) \/ Refund(r)
             \/ RedisFails(r) \/ Cancel(r)
      PROVE  YP!KeyHealth'
  BY <1>4, <1>6
  DEF Reserve, QuotaExceeded, NoKeyLeft, AskToken, TokenFound, TokenMissing, NetworkError,
      Backoff, Retry, LeaveBreaker, Consume, Refund, RedisFails, Cancel
<1>7. CASE TimePasses
  <2>1. CASE K!Tick
    <3>1. YP!Tick
      BY <2>1 DEF K!Tick, YP!Tick
    <3> QED
      BY <3>1, InstanceConstants, YP!TickKeepsHealth
  <2> QED
    BY <1>4, <1>7, <2>1 DEF TimePasses
<1>8. CASE Midnight \/ UNCHANGED vars
  BY <1>4, <1>8 DEF Midnight, vars
<1> QED
  BY <1>1, <1>5, <1>6, <1>7, <1>8 DEF Next, Step

(* The requests' own variables keep their types: a retry has an attempt    *)
(* left, and the key handed out is one of the configured.                  *)
LEMMA RequestsKept ==
    ASSUME ClientIInv, [Next]_vars
    PROVE  RequestTypes' /\ AttemptsLeft'
<1> USE DEF ClientIInv, RequestTypes, YP!InHand, AttemptsLeft, PCs, Ended, Goto, Results
<1>0. MaxAttempts \in Nat \ {0}
  BY ClientAssumption DEF K!PoolConstants
<1>1. ASSUME NEW r \in Requests, EnterBreaker(r), result' = result,
             using' \in [Requests -> Keys \cup {NoKey}]
      PROVE  RequestTypes' /\ AttemptsLeft'
  BY <1>0, <1>1 DEF EnterBreaker
<1>2. ASSUME NEW r \in Requests, TakeKey(r) PROVE RequestTypes' /\ AttemptsLeft'
  BY <1>1, <1>2 DEF TakeKey, K!TakeKey, K!Usable, K!Rested
<1>3. ASSUME NEW r \in Requests, TokenFound(r) PROVE RequestTypes' /\ AttemptsLeft'
  BY <1>1, <1>3 DEF TokenFound
<1>4. ASSUME NEW r \in Requests,
             \/ Reserve(r) \/ QuotaExceeded(r) \/ NoKeyLeft(r) \/ AskToken(r)
             \/ TokenMissing(r) \/ Consume(r) \/ Refund(r) \/ RedisFails(r) \/ Cancel(r)
      PROVE  RequestTypes' /\ AttemptsLeft'
  BY <1>4
  DEF Reserve, QuotaExceeded, NoKeyLeft, AskToken, TokenMissing, Consume, Refund,
      RedisFails, Cancel
<1>5. ASSUME NEW r \in Requests, NEW outcome \in Results \ {"none"}, Answered(r, outcome)
      PROVE  RequestTypes' /\ AttemptsLeft'
  BY <1>5 DEF Answered
<1>6. ASSUME NEW r \in Requests, Http2xx(r) \/ HttpError(r) \/ NetworkError(r)
      PROVE  RequestTypes' /\ AttemptsLeft'
  BY <1>5, <1>6 DEF Http2xx, HttpError, NetworkError
<1>7. ASSUME NEW r \in Requests, Backoff(r) \/ LeaveBreaker(r)
      PROVE  RequestTypes' /\ AttemptsLeft'
  BY <1>7 DEF Backoff, LeaveBreaker
<1>8. ASSUME NEW r \in Requests, Retry(r) PROVE RequestTypes' /\ AttemptsLeft'
  BY <1>0, <1>8 DEF Retry
<1>9. CASE TimePasses \/ Midnight \/ UNCHANGED vars
  BY <1>9 DEF TimePasses, Midnight, vars
<1> QED
  BY <1>2, <1>3, <1>4, <1>6, <1>7, <1>8, <1>9 DEF Next, Step

(* The reservation follows the request through every exit.                 *)
LEMMA ReservedStep ==
    ASSUME ClientIInv, [Next]_vars
    PROVE  Reserved' /\ Charged'
<1> USE DEF ClientIInv, RequestTypes, PCs, Ended, Goto, quotaVars, Results
<1>0. /\ reservation \in [Requests -> {"unused", "held", "consumed", "popped"}]
      /\ call \in [Requests -> {"none", "reserve", "incrby", "expire"}]
      /\ billed \in [Requests -> Nat]
      /\ Cost \in [Requests -> Nat]
  BY ClientAssumption DEF YP!QuotaIInv, YP!TypeOK, YP!Entries, YP!Calls
<1>1. ASSUME NEW r \in Requests, Reserve(r) PROVE Reserved' /\ Charged'
  BY <1>0, <1>1 DEF Reserve, Q!ReserveRead, Reserved, Charged
<1>2. ASSUME NEW r \in Requests, QuotaExceeded(r) PROVE Reserved' /\ Charged'
  BY <1>0, <1>2 DEF QuotaExceeded, Q!ReserveReject, Reserved, Charged
<1>3. ASSUME NEW r \in Requests, TakeKey(r) PROVE Reserved' /\ Charged'
  BY <1>0, <1>3 DEF TakeKey, EnterBreaker, Q!ReserveAccept, Reserved, Charged
<1>4. ASSUME NEW r \in Requests, NoKeyLeft(r) \/ AskToken(r) PROVE Reserved' /\ Charged'
  BY <1>0, <1>4 DEF NoKeyLeft, AskToken, Q!ReserveAccept, Reserved, Charged
<1>5. ASSUME NEW r \in Requests, TokenFound(r) \/ TokenMissing(r)
      PROVE  Reserved' /\ Charged'
  BY <1>0, <1>5 DEF TokenFound, TokenMissing, EnterBreaker, Reserved, Charged
<1>6. ASSUME NEW r \in Requests, NEW outcome \in Results \ {"none"}, Answered(r, outcome)
      PROVE  Reserved' /\ Charged'
  BY <1>0, <1>6 DEF Answered, Reserved, Charged
<1>7. ASSUME NEW r \in Requests, Http2xx(r) \/ HttpError(r) \/ NetworkError(r)
      PROVE  Reserved' /\ Charged'
  BY <1>6, <1>7 DEF Http2xx, HttpError, NetworkError
<1>8. ASSUME NEW r \in Requests, Backoff(r) \/ Retry(r) PROVE Reserved' /\ Charged'
  BY <1>0, <1>8 DEF Backoff, Retry, Reserved, Charged
<1>9. ASSUME NEW r \in Requests, LeaveBreaker(r) PROVE Reserved' /\ Charged'
  BY <1>0, <1>9 DEF LeaveBreaker, Reserved, Charged
<1>10. ASSUME NEW r \in Requests, Consume(r) PROVE Reserved' /\ Charged'
  <2>1. CASE Q!ConsumeMark(r) /\ UNCHANGED pc
    BY <1>0, <1>10, <2>1 DEF Consume, Q!ConsumeMark, Reserved, Charged
  <2>2. CASE Q!ConsumeIncrby(r) /\ UNCHANGED pc
    <3>1. billed'[r] = Cost[r]
      BY <1>0, <1>10, <2>2 DEF Consume, Q!ConsumeIncrby, Charged
    <3>2. Reserved'
      BY <1>0, <1>10, <2>2 DEF Consume, Q!ConsumeIncrby, Reserved
    <3>3. \A s \in Requests \ {r} : billed'[s] = billed[s] /\ call'[s] = call[s]
      BY <1>0, <2>2 DEF Q!ConsumeIncrby
    <3>4. /\ pc[r] \in {"consuming", "charging"} /\ call'[r] = "expire"
          /\ UNCHANGED <<pc, result, reservation>>
      BY <1>0, <1>10, <2>2 DEF Consume, Q!ConsumeIncrby
    <3> QED
      BY <3>1, <3>2, <3>3, <3>4 DEF Charged
  <2>3. CASE Q!ConsumePop(r) /\ Goto(r, IF pc[r] = "consuming" THEN "done" ELSE "failed")
    <3>1. /\ reservation' = [reservation EXCEPT ![r] = "popped"]
          /\ call' = [call EXCEPT ![r] = "none"]
          /\ UNCHANGED <<billed, result>>
          /\ call[r] = "expire" /\ billed[r] = Cost[r]
      BY <1>10, <2>3 DEF Consume, Q!ConsumePop, Charged
    <3>2. \/ pc[r] = "consuming" /\ pc' = [pc EXCEPT ![r] = "done"]
          \/ pc[r] = "charging" /\ pc' = [pc EXCEPT ![r] = "failed"]
      BY <1>10, <2>3 DEF Consume
    <3> QED
      BY <1>0, <3>1, <3>2 DEF Reserved, Charged
  <2> QED
    BY <1>10, <2>1, <2>2, <2>3 DEF Consume
<1>11. ASSUME NEW r \in Requests, Refund(r) PROVE Reserved' /\ Charged'
  BY <1>0, <1>11 DEF Refund, Q!Release, Reserved, Charged
<1>12. ASSUME NEW r \in Requests, RedisFails(r) PROVE Reserved' /\ Charged'
  BY <1>0, <1>12 DEF RedisFails, Q!Abort, Reserved, Charged
<1>13. ASSUME NEW r \in Requests, Cancel(r) PROVE Reserved' /\ Charged'
  BY <1>0, <1>13 DEF Cancel, Q!Abort, Reserved, Charged
<1>14. CASE TimePasses \/ UNCHANGED vars
  BY <1>14 DEF TimePasses, vars, Reserved, Charged
<1>15. CASE Midnight
  BY <1>15 DEF Midnight, Q!Midnight, Reserved, Charged
<1> QED
  BY <1>1, <1>2, <1>3, <1>4, <1>5, <1>7, <1>8, <1>9, <1>10, <1>11, <1>12, <1>13, <1>14,
     <1>15 DEF Next, Step

-----------------------------------------------------------------------------
(* The invariant of a client, from the parts above and the invariants that *)
(* its manager and its breaker were proved to keep by themselves.          *)
LEMMA ClientInit == Init => ClientIInv /\ YP!SoleCounter
<1> SUFFICES ASSUME Init PROVE ClientIInv /\ YP!SoleCounter
  OBVIOUS
<1> USE DEF Init
<1>1. YP!QuotaInit
  BY DEF Q!QuotaInit, YP!QuotaInit, Q!Days, YP!Days
<1>2. YP!QuotaIInv
  BY <1>1, InstanceConstants, YP!QuotaInvInit
<1>3. YP!SoleCounter
  BY <1>1, InstanceConstants DEF YP!QuotaInit, YP!SoleCounter, YP!Days
<1>4. YP!KeyHealth /\ YP!InHand
  <2>1. YP!PoolInit
    BY DEF K!PoolInit, YP!PoolInit
  <2> QED
    BY <2>1, InstanceConstants, YP!HealthInit
<1>5. YP!BreakerInv
  <2>1. YP!BreakerInit
    BY DEF B!BreakerInit, YP!BreakerInit
  <2> QED
    BY <2>1, InstanceConstants, YP!BreakerInvInit
<1>6. RequestTypes /\ Reserved /\ Charged /\ AttemptsLeft
  BY <1>4, InstanceConstants
  DEF Q!QuotaInit, RequestTypes, PCs, Ended, Reserved, Charged, AttemptsLeft, Results
<1> QED
  BY <1>2, <1>3, <1>4, <1>5, <1>6 DEF ClientIInv

(* A step of the client keeps what is true of its parts and of its         *)
(* requests.                                                               *)
LEMMA ClientStep == ClientIInv /\ [Next]_vars => ClientIInv'
<1> SUFFICES ASSUME ClientIInv, [Next]_vars PROVE ClientIInv'
  OBVIOUS
<1>1. YP!QuotaIInv'
  BY QuotaMoves, InstanceConstants, YP!QuotaInvStep DEF ClientIInv
<1>2. YP!BreakerInv'
  BY InstanceConstants, BreakerMoves, YP!BreakerInvStep DEF ClientIInv
<1> QED
  BY <1>1, <1>2, PoolKept, RequestsKept, ReservedStep DEF ClientIInv

(* The invariant holds of every state.                                     *)
LEMMA ClientInvariant == Spec => []ClientIInv
<1>1. Init => ClientIInv
  BY ClientInit
<1> QED
  BY <1>1, ClientStep, PTL DEF Spec

-----------------------------------------------------------------------------
(* The variables of the client and of its components keep their types.     *)
THEOREM ClientTyping == Spec => []ClientTypeOK
<1>1. ClientIInv => ClientTypeOK
  <2> SUFFICES ASSUME ClientIInv PROVE ClientTypeOK
    OBVIOUS
  <2> USE DEF ClientIInv
  <2>1. Q!TypeOK
    BY DEF YP!QuotaIInv, YP!TypeOK, Q!TypeOK, Q!Days, YP!Days, Q!Entries, YP!Entries,
           Q!Calls, YP!Calls
  <2>2. K!PoolTypeOK
    BY DEF YP!KeyHealth, RequestTypes, YP!InHand, K!PoolTypeOK, K!Statuses, YP!Statuses
  <2>3. B!BreakerTypeOK
    BY DEF YP!BreakerInv, YP!BreakerTypeOK, B!BreakerTypeOK
  <2> QED
    BY <2>1, <2>2, <2>3 DEF ClientTypeOK, RequestTypes
<1> QED
  BY <1>1, ClientInvariant, PTL

(* Theorem: what YouTube answered, with a success or at the last attempt   *)
(* with an error status, is paid for in full and once, whatever retries    *)
(* and other requests come between, unless Redis fails in the charge.      *)
THEOREM AnswersAreCharged == Spec => []AnswerIsCharged
<1>1. ClientIInv => AnswerIsCharged
  BY DEF ClientIInv, Charged, AnswerIsCharged
<1> QED
  BY <1>1, ClientInvariant, PTL

(* Theorem: what the budget or the breaker turned away costs nothing, nor  *)
(* does a request before it has an outcome.                                *)
THEOREM NothingElseIsCharged == Spec => []TurnedAwayIsFree
<1>1. ClientIInv => TurnedAwayIsFree
  BY DEF ClientIInv, Charged, TurnedAwayIsFree
<1> QED
  BY <1>1, ClientInvariant, PTL

(* No exit of _request but cancellation leaves units reserved.             *)
THEOREM ExitsSettle == Spec => []NothingLeftHeld
<1>1. ClientIInv => NothingLeftHeld
  BY DEF ClientIInv, Reserved, NothingLeftHeld
<1> QED
  BY <1>1, ClientInvariant, PTL

(* The breaker agrees with itself under the client's overlapping requests, *)
(* which report to it outcomes of calls it admitted in another state.      *)
THEOREM ClientBreakerAgrees == Spec => []BreakerAgrees
<1>1. ClientIInv => BreakerAgrees
  BY DEF ClientIInv, YP!BreakerInv, YP!BreakerAgrees, BreakerAgrees, B!BreakerAgrees
<1> QED
  BY <1>1, ClientInvariant, PTL

-----------------------------------------------------------------------------
(* The refinement: what was proved of one manager holds through the client. *)
LEMMA SameBudget ==
    /\ YP!Budget!BudgetInit => Q!Budget!BudgetInit
    /\ [YP!Budget!BudgetNext]_YP!Budget!budgetVars
          => [Q!Budget!BudgetNext]_Q!Budget!budgetVars
<1> USE DEF Q!AsideBy, YP!AsideBy, Q!HeldBy, YP!HeldBy, Q!InTransit, YP!InTransit
<1>1. \A r \in Requests :
         /\ YP!Budget!SetAside(r) => Q!Budget!SetAside(r)
         /\ YP!Budget!Charge(r) => Q!Budget!Charge(r)
  BY SameWeight
  DEF YP!Budget!SetAside, Q!Budget!SetAside, YP!Budget!Charge, Q!Budget!Charge
<1>2. \A S \in SUBSET Requests : YP!Budget!GiveBack(S) => Q!Budget!GiveBack(S)
  BY DEF YP!Budget!GiveBack, Q!Budget!GiveBack
<1>3. YP!Budget!NewDay => Q!Budget!NewDay
  BY DEF YP!Budget!NewDay, Q!Budget!NewDay
<1>4. YP!Budget!BudgetNext => Q!Budget!BudgetNext
  BY <1>1, <1>2, <1>3 DEF YP!Budget!BudgetNext, Q!Budget!BudgetNext
<1> QED
  BY <1>4 DEF YP!Budget!BudgetInit, Q!Budget!BudgetInit, YP!Budget!budgetVars,
              Q!Budget!budgetVars

(* A client is a manager that something else calls.                        *)
LEMMA ClientIsManager == Spec => YP!QuotaSpec
<1>1. Init => YP!QuotaInit
  BY DEF Init, Q!QuotaInit, YP!QuotaInit, Q!Days, YP!Days
<1>2. [Next]_vars => [YP!QuotaNext]_YP!quotaVars
  BY QuotaMoves
<1> QED
  BY <1>1, <1>2, PTL DEF Spec, YP!QuotaSpec

(* Through keys, tokens, breaker, retries and cancellation the manager     *)
(* keeps the promise of QuotaBudget.                                       *)
THEOREM ClientKeepsBudget == Spec => KeepsBudget
<1>1. YP!QuotaSpec => YP!KeepsBudget
  BY InstanceConstants, YP!OneProcessKeepsBudget
<1> QED
  BY <1>1, ClientIsManager, SameBudget, PTL
  DEF KeepsBudget, Q!KeepsBudget, YP!KeepsBudget, Q!Budget!BudgetSpec, YP!Budget!BudgetSpec

-----------------------------------------------------------------------------
(* YouTube's account.  No attempt is answered twice, and a success is an   *)
(* answer.                                                                 *)
Accounted ==
    /\ answered \in [Requests -> Nat]
    /\ \A r \in Requests :
        /\ pc[r] \in {"start", "reserving", "token"} => answered[r] = 0
        /\ answered[r] + (IF pc[r] = "http" THEN 1 ELSE 0) <= attempt[r]
        /\ result[r] = "ok" => answered[r] >= 1

(* An attempt is begun once: at the first, nothing was answered yet.       *)
LEMMA AccountedStep ==
    ASSUME ClientIInv, Accounted, [ConsumptionNext]_<<vars, answered>>
    PROVE  Accounted'
<1> USE DEF Accounted, CountAnswers, AnswerOf, Goto
<1>0. /\ pc \in [Requests -> PCs] /\ attempt \in [Requests -> 0..MaxAttempts] /\ MaxAttempts \in Nat
      /\ result \in [Requests -> Results]
  BY ClientAssumption DEF ClientIInv, RequestTypes, YP!InHand, K!PoolConstants
<1>1. ASSUME NEW r \in Requests, CountAnswers, EnterBreaker(r), UNCHANGED result,
             pc[r] \in {"reserving", "token"}
      PROVE  Accounted'
  BY <1>0, <1>1 DEF EnterBreaker
<1>2. ASSUME NEW r \in Requests, CountAnswers,
             \/ Reserve(r) \/ QuotaExceeded(r) \/ NoKeyLeft(r) \/ AskToken(r) \/ TokenMissing(r)
             \/ Consume(r) \/ Refund(r) \/ RedisFails(r) \/ Cancel(r)
      PROVE  Accounted'
  <2>1. /\ attempt' = attempt /\ \A s \in Requests : result'[s] = result[s] \/ result'[s] = "api"
        /\ \A s \in Requests : pc'[s] = pc[s] \/ pc'[s] \notin {"http", "answered", "start", "reserving", "token"}
                                \/ (pc[s] \in {"start", "reserving"} /\ pc'[s] \in {"reserving", "token"})
    BY <1>0, <1>2 DEF Reserve, QuotaExceeded, NoKeyLeft, AskToken, TokenMissing, Consume, Refund, RedisFails, Cancel
  <2>2. \A s \in Requests : ~AnswerOf(s)
    BY <2>1
  <2>3. \A s \in Requests : answered'[s] = answered[s]
    BY <1>2, <2>2
  <2>4. answered' \in [Requests -> Nat]
    BY <1>2
  <2> QED
    BY <1>0, <2>1, <2>3, <2>4
<1>3. ASSUME NEW r \in Requests, CountAnswers, NEW outcome \in Results \ {"none"}, Answered(r, outcome)
      PROVE  Accounted'
  BY <1>0, <1>3 DEF Answered
<1>4. ASSUME NEW r \in Requests, CountAnswers, Backoff(r) \/ LeaveBreaker(r)
      PROVE  Accounted'
  BY <1>0, <1>4 DEF Backoff, LeaveBreaker
<1>5. ASSUME NEW r \in Requests, CountAnswers, Retry(r)
      PROVE  Accounted'
  BY <1>0, <1>5 DEF Retry
<1>6. CASE CountAnswers /\ (TimePasses \/ Midnight)
  BY <1>0, <1>6 DEF TimePasses, Midnight
<1>7. CASE UNCHANGED <<vars, answered>>
  BY <1>7 DEF vars
<1> QED
  BY <1>1, <1>2, <1>3, <1>4, <1>5, <1>6, <1>7
  DEF ConsumptionNext, Next, Step, TakeKey, TokenFound, Http2xx, HttpError, NetworkError, Results

(* Theorem: for any requests, costs and number of attempts, what the       *)
(* documented cap leaves open is one charge for every further attempt.     *)
THEOREM RetriesBoundTheBill == ConsumptionSpec => []OverrunIsBounded
<1>1. ConsumptionInit => Accounted
  BY ClientAssumption DEF ConsumptionInit, Init, Accounted, K!PoolInit
<1>2. ConsumptionInit => Init
  BY DEF ConsumptionInit
<1>3. [ConsumptionNext]_<<vars, answered>> => [Next]_vars
  BY DEF ConsumptionNext
<1>4. ClientIInv /\ Accounted /\ [ConsumptionNext]_<<vars, answered>> => Accounted'
  BY AccountedStep
<1>5. ClientIInv /\ Accounted => OverrunIsBounded
  <2> SUFFICES ASSUME ClientIInv, Accounted, NEW r \in Requests
               PROVE  /\ answered[r] <= MaxAttempts
                      /\ pc[r] = "done" => answered[r] * Cost[r] >= billed[r]
    BY DEF OverrunIsBounded
  <2>1. /\ answered[r] \in Nat /\ attempt[r] \in 0..MaxAttempts /\ MaxAttempts \in Nat /\ Cost[r] \in Nat
        /\ answered[r] <= attempt[r]
    BY ClientAssumption DEF ClientIInv, RequestTypes, YP!InHand, K!PoolConstants, Accounted
  <2>2. ASSUME pc[r] = "done" PROVE answered[r] >= 1 /\ billed[r] = Cost[r]
    BY <2>2 DEF ClientIInv, Charged, Accounted
  <2>3. \A n, c \in Nat : n >= 1 => n * c >= c
    OBVIOUS
  <2> QED
    BY <2>1, <2>2, <2>3
<1> QED
  BY <1>1, <1>2, <1>3, <1>4, <1>5, ClientInvariant, PTL DEF ConsumptionSpec, Spec

-----------------------------------------------------------------------------
(* The coalescer.  What is on record for a key is who does the work for it.*)
Recorded ==
    /\ \A k \in Texts : flight[k] # Nobody => Key[flight[k]] = k /\ phase[flight[k]] = "leads"
    /\ \A c \in Waiters : phase[c] = "leads" => flight[Key[c]] = c

(* A future is awaited once its owner does the work, and settled by him    *)
(* when he is done, unless one who awaited it was cancelled.               *)
Ridden == \A c \in Waiters : rides[c] # Nobody => phase[rides[c]] \in {"leads", "over"}
OverIsAnswered == \A c \in Waiters : phase[c] = "over" <=> answer[c] # "none"
SettledByOwner ==
    \A c \in Waiters : future[c] \in {"value", "error"} => phase[c] = "over" /\ answer[c] = future[c]
FollowsOne ==
    \A c \in Waiters : /\ phase[c] = "follows" => rides[c] # Nobody
                       /\ phase[c] \in {"new", "leads"} => rides[c] = Nobody

FlightInv ==
    /\ SingleFlightTypeOK /\ Recorded /\ Ridden /\ OverIsAnswered /\ SettledByOwner
    /\ FollowsOne /\ FollowersShareTheEnd

(* Every step keeps it.                                                    *)
LEMMA FlightStep == FlightInv /\ [SingleFlightNext]_flightVars => FlightInv'
<1> SUFFICES ASSUME FlightInv, [SingleFlightNext]_flightVars PROVE FlightInv'
  OBVIOUS
<1> USE SingleFlightAssumption
    DEF FlightInv, SingleFlightTypeOK, Recorded, Ridden, OverIsAnswered, SettledByOwner, FollowsOne,
        FollowersShareTheEnd, Texts, Outcomes
<1>0. /\ \A c \in Waiters : Key[c] \in Texts
      /\ \A c, d \in Waiters : rides[c] = d => d # Nobody
  OBVIOUS
<1>1. ASSUME NEW c \in Waiters, Execute(c) PROVE FlightInv'
  <2>1. CASE flight[Key[c]] = Nobody
    <3>1. /\ flight' = [flight EXCEPT ![Key[c]] = c] /\ phase' = [phase EXCEPT ![c] = "leads"]
          /\ UNCHANGED <<rides, future, answer>> /\ phase[c] = "new"
      BY <1>1, <2>1 DEF Execute
    <3>2. SingleFlightTypeOK'
      BY <1>0, <3>1
    <3>3. ASSUME NEW k \in Texts, flight'[k] # Nobody
          PROVE  Key[flight'[k]] = k /\ phase'[flight'[k]] = "leads"
      BY <1>0, <3>1, <3>3
    <3>4. ASSUME NEW d \in Waiters, phase'[d] = "leads" PROVE flight'[Key[d]] = d
      BY <1>0, <2>1, <3>1, <3>4
    <3>5. Ridden' /\ OverIsAnswered' /\ SettledByOwner' /\ FollowsOne'
      BY <3>1
    <3>6. FollowersShareTheEnd'
      BY <3>1
    <3> QED
      BY <3>2, <3>3, <3>4, <3>5, <3>6
  <2>2. CASE flight[Key[c]] # Nobody
    <3> DEFINE l == flight[Key[c]]
    <3>1. /\ rides' = [rides EXCEPT ![c] = l] /\ phase' = [phase EXCEPT ![c] = "follows"]
          /\ UNCHANGED <<flight, future, answer>> /\ phase[c] = "new"
      BY <1>1, <2>2 DEF Execute
    <3>2. l \in Waiters /\ Key[l] = Key[c] /\ phase[l] = "leads" /\ l # c
      BY <1>0, <2>2, <3>1
    <3> HIDE DEF l
    <3>3. SingleFlightTypeOK' /\ Recorded' /\ Ridden' /\ OverIsAnswered' /\ SettledByOwner' /\ FollowsOne'
      BY <1>0, <3>1, <3>2
    <3>4. FollowersShareTheEnd'
      BY <1>0, <3>1, <3>2
    <3> QED
      BY <3>3, <3>4
  <2> QED
    BY <2>1, <2>2
<1>2. ASSUME NEW c \in Waiters, NEW outcome \in Outcomes, Land(c, outcome) PROVE FlightInv'
  <2> USE <1>2 DEF Land, Answer, Settle
  <2>1. SingleFlightTypeOK'
    BY <1>0
  <2>2. Recorded'
    <3>1. ASSUME NEW k \in Texts, flight'[k] # Nobody
          PROVE  Key[flight'[k]] = k /\ phase'[flight'[k]] = "leads"
      BY <1>0, <3>1
    <3>2. ASSUME NEW d \in Waiters, phase'[d] = "leads" PROVE flight'[Key[d]] = d
      BY <1>0, <3>2
    <3> QED
      BY <3>1, <3>2
  <2>3. Ridden' /\ OverIsAnswered' /\ SettledByOwner' /\ FollowsOne'
    BY <1>0
  <2>4. FollowersShareTheEnd'
    BY <1>0
  <2> QED
    BY <2>1, <2>2, <2>3, <2>4
<1>3. ASSUME NEW c \in Waiters, Alight(c) PROVE FlightInv'
  BY <1>3 DEF Alight, Answer
<1>4. ASSUME NEW c \in Waiters, CancelWaiter(c) PROVE FlightInv'
  BY <1>4 DEF CancelWaiter, Answer, Settle
<1>5. CASE UNCHANGED flightVars
  BY <1>5 DEF flightVars
<1> HIDE DEF FlightInv, Outcomes
<1> QED
  BY <1>1, <1>2, <1>3, <1>4, <1>5 DEF SingleFlightNext

(* It holds of every state.                                                *)
LEMMA FlightInvariant == SingleFlightSpec => []FlightInv
<1>1. SingleFlightInit => FlightInv
  BY SingleFlightAssumption
  DEF SingleFlightInit, FlightInv, SingleFlightTypeOK, Recorded, Ridden, OverIsAnswered, SettledByOwner,
      FollowsOne, FollowersShareTheEnd, Texts, Outcomes
<1> QED
  BY <1>1, FlightStep, PTL DEF SingleFlightSpec

(* Theorem: the work for a key is not done twice at a time, whoever is     *)
(* cancelled and however it ends, for any callers and keys.                *)
THEOREM OneDoesTheWork == SingleFlightSpec => []OneFlightPerKey
<1>1. FlightInv => OneFlightPerKey
  BY SingleFlightAssumption DEF FlightInv, SingleFlightTypeOK, Recorded, OneFlightPerKey
<1> QED
  BY <1>1, FlightInvariant, PTL

(* Theorem: nobody waits for a future that nobody will settle, nor gets an *)
(* answer to a question that was not his.                                  *)
THEOREM NobodyWaitsInVain == SingleFlightSpec => []FollowersShareTheEnd
<1>1. FlightInv => FollowersShareTheEnd
  BY DEF FlightInv
<1> QED
  BY <1>1, FlightInvariant, PTL
=============================================================================
