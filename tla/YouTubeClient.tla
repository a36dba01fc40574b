---------------------------- MODULE YouTubeClient ----------------------------
(***************************************************************************)
(* YouTubeClient._request (app/youtube/client.py:50-209): the way of a     *)
(* request through the quota manager, the key pool or the OAuth token, the *)
(* circuit breaker, the retries and back to the quota manager.             *)
(*                                                                         *)
(* The components are instances of Quota, ApiKeyPool and CircuitBreaker    *)
(* sharing the variables declared here.  A step runs from one await to the *)
(* next: what the code does without awaiting in between, and acquiring a   *)
(* free asyncio lock does not await, is one step.                          *)
(***************************************************************************)
EXTENDS Naturals, FiniteSets

CONSTANTS
    Readers,        \* requests that need an API key
    Writers,        \* requests that need the bot's OAuth token
    Process,        \* the one process (APP_SERVICE_MODE = "unified")
    Cost, Limit, LastDay,                                       \* Quota
    Keys, NoKey, Cap, Base429, BaseOther, DayTicks, MaxErrors,  \* ApiKeyPool
    MaxUsage, MaxAttempts,
    Threshold, Recovery, HalfOpenMax                            \* CircuitBreaker

Requests == Readers \cup Writers

VARIABLES
    today, counter, reservation, call, seen, spent, billed,
    status, cooldown, errors, usage, using,
    state, failures, successes, openLeft,
    pc,         \* the await a request is at
    attempt,    \* its HTTP attempt, 0 before the first
    result      \* what came of the last attempt, or instead of one: "ok"; "api",
                \*   a YouTubeAPIError; another exception, with the request on the
                \*   wire, "sent", or not, "unsent"; "none" so far

Q == INSTANCE Quota WITH Procs <- {Process},
                         ProcOf <- [r \in Requests |-> Process]
K == INSTANCE ApiKeyPool WITH Callers <- Requests, tries <- attempt
B == INSTANCE CircuitBreaker

(* What the components assume of their constants.                          *)
ASSUME ClientAssumption ==
    /\ IsFiniteSet(Requests) /\ Cost \in [Requests -> Nat]
    /\ {Limit, LastDay} \subseteq Nat
    /\ K!PoolConstants
    /\ B!BreakerConstants

quotaVars == <<today, counter, reservation, call, seen, spent, billed>>
poolVars == <<status, cooldown, errors, usage>>
breakerVars == <<state, failures, successes, openLeft>>
vars == <<quotaVars, poolVars, using, breakerVars, pc, attempt, result>>

Ended == {"done", "failed", "cancelled"}
PCs == Ended \cup {"start", "reserving", "token", "http", "answered", "backoff",
                   "consuming", "charging", "refunding"}

Results == {"none", "ok", "api", "sent", "unsent"}

ClientTypeOK ==
    /\ Q!TypeOK
    /\ K!PoolTypeOK
    /\ B!BreakerTypeOK
    /\ pc \in [Requests -> PCs]
    /\ result \in [Requests -> Results]

Init ==
    /\ Q!QuotaInit
    /\ K!PoolInit
    /\ B!BreakerInit
    /\ pc = [r \in Requests |-> "start"]
    /\ result = [r \in Requests |-> "none"]

Goto(r, there) == pc' = [pc EXCEPT ![r] = there]

-----------------------------------------------------------------------------
(* Up to the network.                                                      *)

Reserve(r) ==
    /\ pc[r] = "start"
    /\ Q!ReserveRead(r)
    /\ Goto(r, "reserving")
    /\ UNCHANGED <<poolVars, using, breakerVars, attempt, result>>

QuotaExceeded(r) ==
    /\ pc[r] = "reserving"
    /\ Q!ReserveReject(r)
    /\ Goto(r, "failed")
    /\ UNCHANGED <<poolVars, using, breakerVars, attempt, result>>

(* Fault: a request turned away is charged.                                *)
EnterBreakerCharging(r) ==
    \/ B!Refused /\ Goto(r, "charging") /\ UNCHANGED <<breakerVars, attempt>>
    \/ B!Admit /\ Goto(r, "http") /\ attempt' = [attempt EXCEPT ![r] = 1]

(* The breaker decides.  CircuitBreakerOpenError is no YouTubeAPIError.    *)
EnterBreaker(r) ==
    \/ /\ B!Refused
       /\ Goto(r, "refunding")
       /\ UNCHANGED <<breakerVars, attempt>>
    \/ /\ B!Admit
       /\ Goto(r, "http")
       /\ attempt' = [attempt EXCEPT ![r] = 1]

(* Reservation made, a reader takes a key and goes on to the breaker.      *)
TakeKey(r) ==
    /\ pc[r] = "reserving" /\ r \in Readers
    /\ Q!ReserveAccept(r)
    /\ K!TakeKey(r)
    /\ EnterBreaker(r)
    /\ UNCHANGED result

(* YouTubeKeyPoolExhaustedError is a YouTubeAPIError.                      *)
NoKeyLeft(r) ==
    /\ pc[r] = "reserving" /\ r \in Readers
    /\ Q!ReserveAccept(r)
    /\ K!PoolExhausted
    /\ Goto(r, "charging")
    /\ result' = [result EXCEPT ![r] = "api"]
    /\ UNCHANGED <<poolVars, using, breakerVars, attempt>>

AskToken(r) ==
    /\ pc[r] = "reserving" /\ r \in Writers
    /\ Q!ReserveAccept(r)
    /\ Goto(r, "token")
    /\ UNCHANGED <<poolVars, using, breakerVars, attempt, result>>

TokenFound(r) ==
    /\ pc[r] = "token"
    /\ EnterBreaker(r)
    /\ UNCHANGED <<quotaVars, poolVars, using, result>>

(* The missing token is reported as a YouTubeAPIError.                     *)
TokenMissing(r) ==
    /\ pc[r] = "token"
    /\ Goto(r, "charging")
    /\ result' = [result EXCEPT ![r] = "api"]
    /\ UNCHANGED <<quotaVars, poolVars, using, breakerVars, attempt>>

-----------------------------------------------------------------------------
(* _do_http: one attempt.  The pool hears of it before the connection is   *)
(* closed, the breaker after the last attempt only.                        *)

Answered(r, outcome) ==
    /\ pc[r] = "http"
    /\ Goto(r, "answered")
    /\ result' = [result EXCEPT ![r] = outcome]
    /\ UNCHANGED <<quotaVars, using, breakerVars, attempt>>

(* 200 or 204; a body that is not JSON raises after the pool was told.     *)
Http2xx(r) ==
    /\ \E outcome \in {"ok", "sent"} : Answered(r, outcome)
    /\ \/ r \in Readers /\ K!ReportSuccess(r, Cost[r])
       \/ r \in Writers /\ UNCHANGED poolVars

(* Any other status.  Errors about OAuth or a foreign project ("mismatch") *)
(* are kept from the pool.                                                 *)
HttpError(r) ==
    /\ Answered(r, "api")
    /\ \/ \E code \in K!ErrorCodes \ {"mismatch"} :
             r \in Readers /\ K!ReportError(r, code)
       \/ UNCHANGED poolVars

(* httpx raises: a timeout or a broken connection after the request went   *)
(* out, or no connection at all.                                           *)
NetworkError(r) ==
    /\ \E outcome \in {"sent", "unsent"} : Answered(r, outcome)
    /\ UNCHANGED poolVars

Backoff(r) ==
    /\ pc[r] = "answered" /\ result[r] # "ok" /\ attempt[r] < MaxAttempts
    /\ Goto(r, "backoff")
    /\ UNCHANGED <<quotaVars, poolVars, using, breakerVars, attempt, result>>

(* The next attempt goes out with the key of the first and asks neither    *)
(* the pool nor the breaker.                                               *)
Retry(r) ==
    /\ pc[r] = "backoff"
    /\ Goto(r, "http")
    /\ attempt' = [attempt EXCEPT ![r] = @ + 1]
    /\ UNCHANGED <<quotaVars, poolVars, using, breakerVars, result>>

(* Fault: every failure is refunded.                                       *)
LeaveBreakerRefunding(r) ==
    /\ pc[r] = "answered"
    /\ \/ result[r] = "ok" /\ B!RecordSuccess /\ Goto(r, "consuming")
       \/ /\ result[r] # "ok" /\ attempt[r] = MaxAttempts
          /\ B!RecordFailure /\ Goto(r, "refunding")
    /\ using' = [using EXCEPT ![r] = NoKey]
    /\ UNCHANGED <<quotaVars, poolVars, attempt, result>>

(* Fault: a network failure is not settled at all.                         *)
LeaveBreakerEmptyHanded(r) ==
    /\ pc[r] = "answered"
    /\ \/ result[r] = "ok" /\ B!RecordSuccess /\ Goto(r, "consuming")
       \/ /\ result[r] # "ok" /\ attempt[r] = MaxAttempts
          /\ B!RecordFailure
          /\ Goto(r, IF result[r] = "api" THEN "charging" ELSE "failed")
    /\ using' = [using EXCEPT ![r] = NoKey]
    /\ UNCHANGED <<quotaVars, poolVars, attempt, result>>

LeaveBreaker(r) ==
    /\ pc[r] = "answered"
    /\ \/ /\ result[r] = "ok"
          /\ B!RecordSuccess
          /\ Goto(r, "consuming")
       \/ /\ result[r] # "ok" /\ attempt[r] = MaxAttempts
          /\ B!RecordFailure
          /\ Goto(r, IF result[r] = "api" THEN "charging" ELSE "refunding")
    /\ using' = [using EXCEPT ![r] = NoKey]
    /\ UNCHANGED <<quotaVars, poolVars, attempt, result>>

-----------------------------------------------------------------------------
(* Settling the reservation.                                               *)

Consume(r) ==
    /\ pc[r] \in {"consuming", "charging"}
    /\ \/ Q!ConsumeMark(r) /\ UNCHANGED pc
       \/ Q!ConsumeIncrby(r) /\ UNCHANGED pc
       \/ /\ Q!ConsumePop(r)
          /\ Goto(r, IF pc[r] = "consuming" THEN "done" ELSE "failed")
    /\ UNCHANGED <<poolVars, using, breakerVars, attempt, result>>

Refund(r) ==
    /\ pc[r] = "refunding"
    /\ Q!Release(r)
    /\ Goto(r, "failed")
    /\ UNCHANGED <<poolVars, using, breakerVars, attempt, result>>

(* Redis raises inside the manager.  On the way of success this lands in   *)
(* the except clause, which releases; inside the clause it leaves _request. *)
RedisFails(r) ==
    /\ Q!Abort(r)
    /\ Goto(r, IF pc[r] = "consuming" THEN "refunding" ELSE "failed")
    /\ UNCHANGED <<poolVars, using, breakerVars, attempt, result>>

(* The task is cancelled at an await.  CancelledError is no Exception, so  *)
(* no handler runs and the reservation stays where it is.                  *)
Cancel(r) ==
    /\ pc[r] \notin Ended \cup {"start"}
    /\ Goto(r, "cancelled")
    /\ \/ Q!Abort(r)
       \/ call[r] = "none" /\ UNCHANGED quotaVars
    /\ using' = [using EXCEPT ![r] = NoKey]
    /\ UNCHANGED <<poolVars, breakerVars, attempt, result>>

-----------------------------------------------------------------------------
TimePasses ==
    /\ \/ K!Tick
       \/ (\A k \in Keys : cooldown[k] = 0) /\ UNCHANGED poolVars
    /\ \/ B!BreakerTick
       \/ openLeft = 0 /\ UNCHANGED breakerVars
    /\ UNCHANGED <<quotaVars, using, pc, attempt, result>>

Midnight ==
    /\ Q!Midnight
    /\ UNCHANGED <<poolVars, using, breakerVars, pc, attempt, result>>

(* What the request does by itself, Redis and the network answering.       *)
Step(r) ==
    \/ Reserve(r) \/ QuotaExceeded(r) \/ TakeKey(r) \/ NoKeyLeft(r)
    \/ AskToken(r) \/ TokenFound(r) \/ TokenMissing(r)
    \/ Http2xx(r) \/ HttpError(r) \/ NetworkError(r)
    \/ Backoff(r) \/ Retry(r) \/ LeaveBreaker(r)
    \/ Consume(r) \/ Refund(r)

Next ==
    \/ \E r \in Requests : Step(r) \/ RedisFails(r) \/ Cancel(r)
    \/ TimePasses
    \/ Midnight

(* The event loop runs every ready task; httpx and redis time out (10 s,   *)
(* 3 s), so that every await comes back.                                   *)
Fairness == \A r \in Requests : WF_vars(Step(r))

Spec == Init /\ [][Next]_vars
FairSpec == Spec /\ Fairness

-----------------------------------------------------------------------------
(* Through the whole pipeline the manager keeps the promise of QuotaBudget. *)
KeepsBudget == Q!KeepsBudget

(* What YouTube answered is paid for, in full and once, when _request is   *)
(* left: a success, and an error status at the last attempt, unless Redis  *)
(* failed in the charge and left the entry behind (quota.py:164-169,       *)
(* client.py:196-206).                                                     *)
AnswerIsCharged ==
    \A r \in Requests :
        /\ pc[r] = "done" => billed[r] = Cost[r]
        /\ pc[r] = "failed" /\ attempt[r] > 0 /\ result[r] = "api" =>
              billed[r] = Cost[r] \/ reservation[r] = "consumed"

(* What the budget or the breaker turned away, and what has no outcome     *)
(* yet, is not charged, however Redis failures, cancellations and the      *)
(* midnight cut the request short (quota.py:143-146, client.py:207).       *)
TurnedAwayIsFree ==
    \A r \in Requests : billed[r] > 0 => result[r] # "none"

(* No request that ended by itself leaves its units reserved for ever,     *)
(* whichever exception it ended with.  A cancelled one does.               *)
NothingLeftHeld ==
    \A r \in Requests :
        pc[r] \in {"done", "failed"} => reservation[r] # "held"

(* The breaker's state and counters agree under overlapping requests that  *)
(* report outcomes of calls it admitted in another state.                  *)
BreakerAgrees == B!BreakerAgrees

(* Every request comes to an end: the attempts are bounded, the manager's  *)
(* lock is always given back, and an open breaker or an empty pool turns a *)
(* request away instead of making it wait.                                 *)
EveryRequestEnds ==
    \A r \in Requests : pc[r] = "start" ~> pc[r] \in Ended

-----------------------------------------------------------------------------
(* What the documents say and the code does not: _request tells a request  *)
(* that was sent from one that was not by the class of the exception.      *)

(* "If request was never dispatched (REQUEST_NOT_SENT), release            *)
(* reservation" (quota.py:166): who failed before the first attempt is not *)
(* charged.  A missing token and an empty pool are YouTubeAPIErrors, and   *)
(* are (client.py:88, key_pool.py:101, client.py:201).                     *)
UndispatchedIsFree ==
    \A r \in Requests : pc[r] = "failed" /\ attempt[r] = 0 => billed[r] = 0

(* "If request reached network (5xx, 429, timeout), consume quota          *)
(* conservatively" (quota.py:167): a request whose last attempt went out   *)
(* and failed is charged.  A timeout of httpx is not a YouTubeAPIError,    *)
(* and is refunded (client.py:208).                                        *)
DispatchedIsCharged ==
    \A r \in Requests :
        pc[r] = "failed" /\ result[r] \in {"api", "sent"} /\ attempt[r] > 0 =>
            billed[r] = Cost[r] \/ reservation[r] = "consumed"
=============================================================================
