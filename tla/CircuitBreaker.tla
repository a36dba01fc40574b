--------------------------- MODULE CircuitBreaker ---------------------------
(***************************************************************************)
(* CircuitBreaker (app/utils/circuit_breaker.py).  Its three methods run   *)
(* under a lock without an await inside, so each is one step; execute()    *)
(* calls can_execute before and record_success or record_failure after the *)
(* protected call, any number of which are under way at once.              *)
(*                                                                         *)
(* open_until is kept as the time left.                                    *)
(***************************************************************************)
EXTENDS Naturals

CONSTANTS
    Threshold,      \* failure_threshold
    Recovery,       \* recovery_timeout_seconds, in ticks
    HalfOpenMax     \* half_open_max_attempts

(* Assumed where the breaker is used.                                      *)
BreakerConstants ==
    /\ {Threshold, HalfOpenMax} \subseteq Nat \ {0}
    /\ Recovery \in Nat

VARIABLES
    state,      \* CircuitState
    failures,   \* failure_count, told apart up to the threshold
    successes,  \* consecutive_success_count
    openLeft    \* ticks until open_until

breakerVars == <<state, failures, successes, openLeft>>

BreakerTypeOK ==
    /\ state \in {"CLOSED", "OPEN", "HALF_OPEN"}
    /\ failures \in 0 .. Threshold
    /\ successes \in 0 .. HalfOpenMax
    /\ openLeft \in 0 .. Recovery

BreakerInit ==
    /\ state = "CLOSED"
    /\ failures = 0
    /\ successes = 0
    /\ openLeft = 0

(* can_execute, the calls it turns away.                                   *)
Refused == state = "OPEN" /\ openLeft > 0

(* can_execute, the calls it lets through: the first after the timeout     *)
(* makes the breaker HALF_OPEN, and nothing limits how many follow it.     *)
Admit ==
    \/ /\ state = "OPEN" /\ openLeft = 0
       /\ state' = "HALF_OPEN"
       /\ successes' = 0
       /\ UNCHANGED <<failures, openLeft>>
    \/ state # "OPEN" /\ UNCHANGED breakerVars

(* Fault: closing does not reset failure_count.                            *)
RecordSuccessKeepsCount ==
    \/ /\ state = "HALF_OPEN" /\ successes + 1 < HalfOpenMax
       /\ successes' = successes + 1
       /\ UNCHANGED <<state, failures, openLeft>>
    \/ /\ state = "HALF_OPEN" /\ successes + 1 >= HalfOpenMax
       /\ state' = "CLOSED"
       /\ successes' = 0
       /\ UNCHANGED <<failures, openLeft>>
    \/ state # "HALF_OPEN" /\ UNCHANGED breakerVars

RecordSuccess ==
    \/ /\ state = "HALF_OPEN" /\ successes + 1 < HalfOpenMax
       /\ successes' = successes + 1
       /\ UNCHANGED <<state, failures, openLeft>>
    \/ /\ state = "HALF_OPEN" /\ successes + 1 >= HalfOpenMax
       /\ state' = "CLOSED"
       /\ failures' = 0
       /\ successes' = 0
       /\ UNCHANGED openLeft
    \/ /\ state = "CLOSED"
       /\ failures' = 0
       /\ UNCHANGED <<state, successes, openLeft>>
    \/ state = "OPEN" /\ UNCHANGED breakerVars

(* A failure of a call admitted long ago counts like any other: it opens a *)
(* HALF_OPEN breaker, and makes an OPEN one stay open longer.              *)
RecordFailure ==
    LET counted == IF failures < Threshold THEN failures + 1 ELSE Threshold
    IN  /\ failures' = counted
        /\ \/ /\ state = "HALF_OPEN" \/ counted >= Threshold
              /\ state' = "OPEN"
              /\ openLeft' = Recovery
           \/ /\ state # "HALF_OPEN" /\ counted < Threshold
              /\ UNCHANGED <<state, openLeft>>
        /\ UNCHANGED successes

BreakerTick ==
    /\ openLeft > 0
    /\ openLeft' = openLeft - 1
    /\ UNCHANGED <<state, failures, successes>>

BreakerNext == Admit \/ RecordSuccess \/ RecordFailure \/ BreakerTick

BreakerSpec == BreakerInit /\ [][BreakerNext]_breakerVars

(* The state and the counters agree however the outcomes of overlapping    *)
(* calls arrive: a CLOSED breaker has room for another failure, one that   *)
(* is not CLOSED got there by Threshold failures which nothing but the     *)
(* successes that close it forget, and a HALF_OPEN one still lacks a       *)
(* success (circuit_breaker.py:67-93).                                     *)
BreakerAgrees ==
    /\ state = "CLOSED" <=> failures < Threshold
    /\ state = "HALF_OPEN" => successes < HalfOpenMax
    /\ state = "CLOSED" => successes = 0
=============================================================================
