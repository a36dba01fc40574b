----------------------------- MODULE ApiKeyPool -----------------------------
(***************************************************************************)
(* ApiKeyPool (app/youtube/key_pool.py): the health of the YouTube API     *)
(* keys.  A request takes a key, keeps it over all its attempts, and       *)
(* reports each answer to the pool.  Every method runs under a lock with   *)
(* no await inside, so each is one step; what interleaves is the requests: *)
(* an answer is reported after the key's status has changed under it.      *)
(*                                                                         *)
(* cooldown_until is kept as the time left, so that no clock is needed.    *)
(***************************************************************************)
EXTENDS Integers, FiniteSets

CONSTANTS
    Keys,         \* the configured API keys
    NoKey,        \* not a key
    Callers,     \* concurrent callers, each making one request after another
    Cap,          \* longest cooldown, and that of a plain 403 (300 s)
    Base429,      \* first cooldown after a 429 (30 s)
    BaseOther,    \* first cooldown after any other status (15 s)
    DayTicks,     \* the 24 h written for an exhausted key
    MaxErrors,    \* bound: consecutive errors are counted up to here
    MaxUsage,     \* bound: how far estimated usages are told apart
    MaxAttempts   \* attempts of one request (retry_with_backoff, max_retries = 2)

(* With MaxErrors errors every cooldown is at its cap, so that counting no *)
(* further changes nothing.  The last conjunct is true of all numbers: the *)
(* proofs take it from here, since the provers know no more of a power     *)
(* than that it is an integer.                                             *)
PoolConstants ==
    /\ NoKey \notin Keys
    /\ {Cap, Base429, BaseOther, DayTicks, MaxUsage} \subseteq Nat
    /\ {MaxErrors, MaxAttempts} \subseteq Nat \ {0}
    /\ BaseOther * 2 ^ (MaxErrors - 1) >= Cap
    /\ Base429 * 2 ^ (MaxErrors - 1) >= Cap
    /\ \A n \in 1 .. MaxErrors : 2 ^ (n - 1) \in Nat

ASSUME PoolAssumption == PoolConstants

VARIABLES
    status,     \* KeyStatus
    cooldown,   \* ticks until cooldown_until
    errors,     \* consecutive_errors
    usage,      \* estimated_usage, relative to the least used key
    using,      \* the key a request is working with
    tries       \* the attempt it is at

poolVars == <<status, cooldown, errors, usage>>
keyPoolVars == <<status, cooldown, errors, usage, using, tries>>

Statuses == {"AVAILABLE", "COOLDOWN", "EXHAUSTED", "INVALID"}

(* The answers the pool tells apart: 401; 403 naming the quota; another    *)
(* 403; 429; "mismatch", a message about OAuth or project mismatch that is *)
(* not the key's fault; and "other", every status left, 404 as well as 503. *)
ErrorCodes == {"401", "403quota", "403", "429", "mismatch", "other"}

PoolTypeOK ==
    /\ status \in [Keys -> Statuses]
    /\ cooldown \in [Keys -> Nat]
    /\ errors \in [Keys -> 0 .. MaxErrors]
    /\ usage \in [Keys -> 0 .. MaxUsage]
    /\ using \in [Callers -> Keys \cup {NoKey}]
    /\ tries \in [Callers -> 0 .. MaxAttempts]

PoolInit ==
    /\ status = [k \in Keys |-> "AVAILABLE"]
    /\ cooldown = [k \in Keys |-> 0]
    /\ errors = [k \in Keys |-> 0]
    /\ usage = [k \in Keys |-> 0]
    /\ using = [r \in Callers |-> NoKey]
    /\ tries = [r \in Callers |-> 0]

-----------------------------------------------------------------------------
Least(a, b) == IF a <= b THEN a ELSE b

(* 30 * 2^(n-1) or 15 * 2^(n-1) seconds, at most 300.                      *)
Backoff(base, n) == Least(Cap, base * 2 ^ (n - 1))

(* Keys whose cooldown is over when somebody next asks for a key.          *)
(* Fault: the time is not looked at.                                       *)
RestedAtOnce == {k \in Keys : status[k] = "COOLDOWN"}

(* Fault: keys are refreshed only when no other is left.                   *)
RestedIfNoneLeft == {k \in Keys : /\ status[k] = "COOLDOWN" /\ cooldown[k] = 0
                                  /\ \A j \in Keys : status[j] # "AVAILABLE"}

Rested == {k \in Keys : status[k] = "COOLDOWN" /\ cooldown[k] = 0}
Usable == {k \in Keys : status[k] = "AVAILABLE"} \cup Rested

(* The refresh that opens get_available_key.                               *)
Refresh ==
    /\ status' = [k \in Keys |-> IF k \in Rested THEN "AVAILABLE" ELSE status[k]]
    /\ errors' = [k \in Keys |-> IF k \in Rested THEN 0 ELSE errors[k]]
    /\ UNCHANGED <<cooldown, usage>>

(* get_available_key hands out a least used one of the usable keys.        *)
TakeKey(r) ==
    /\ using[r] = NoKey
    /\ Refresh
    /\ \E k \in Usable :
          /\ \A other \in Usable : usage[k] <= usage[other]
          /\ using' = [using EXCEPT ![r] = k]

(* YouTubeKeyPoolExhaustedError; the refresh had nothing to do.            *)
PoolExhausted == Usable = {}

(* record_success and record_usage(units).                                 *)
ReportSuccess(r, units) ==
    LET used == [usage EXCEPT ![using[r]] = @ + units]
    IN  /\ using[r] # NoKey
        /\ errors' = [errors EXCEPT ![using[r]] = 0]
        /\ \E least \in Keys :
              /\ \A k \in Keys : used[least] <= used[k]
              /\ usage' = [k \in Keys |-> Least(MaxUsage, used[k] - used[least])]
        /\ UNCHANGED <<status, cooldown>>

(* record_error: the new status and cooldown follow from the code alone,   *)
(* whatever the status was.                                                *)
ReportError(r, code) ==
    LET k == using[r]
        n == Least(MaxErrors, errors[k] + 1)
        Becomes(st, time) ==
            /\ status' = [status EXCEPT ![k] = st]
            /\ cooldown' = [cooldown EXCEPT ![k] = time]
    IN  /\ k # NoKey
        /\ errors' = [errors EXCEPT ![k] = n]
        /\ \/ code = "mismatch" /\ UNCHANGED <<status, cooldown>>
           \/ code = "401" /\ Becomes("INVALID", cooldown[k])
           \/ code = "403quota" /\ Becomes("EXHAUSTED", DayTicks)
           \/ code = "403" /\ Becomes("COOLDOWN", Cap)
           \/ code = "429" /\ Becomes("COOLDOWN", Backoff(Base429, n))
           \/ code = "other" /\ Becomes("COOLDOWN", Backoff(BaseOther, n))
        /\ UNCHANGED usage

Tick ==
    /\ \E k \in Keys : cooldown[k] > 0
    /\ cooldown' = [k \in Keys |-> IF cooldown[k] > 0 THEN cooldown[k] - 1 ELSE 0]
    /\ UNCHANGED <<status, errors, usage>>

-----------------------------------------------------------------------------
(* The callers: one request after another, each up to MaxAttempts times on *)
(* the key it was given.                                                   *)

Take(r) ==
    /\ TakeKey(r)
    /\ tries' = [tries EXCEPT ![r] = 1]

Finish(r) ==
    /\ using' = [using EXCEPT ![r] = NoKey]
    /\ tries' = [tries EXCEPT ![r] = 0]

Succeed(r) == ReportSuccess(r, 1) /\ Finish(r)

Fail(r, code) ==
    /\ ReportError(r, code)
    /\ \/ /\ tries[r] < MaxAttempts
          /\ tries' = [tries EXCEPT ![r] = @ + 1]
          /\ UNCHANGED using
       \/ tries[r] = MaxAttempts /\ Finish(r)

TimePasses == Tick /\ UNCHANGED <<using, tries>>

PoolNext ==
    \/ \E r \in Callers :
          \/ Take(r)
          \/ Succeed(r)
          \/ \E code \in ErrorCodes : Fail(r, code)
    \/ TimePasses

(* Time passes, every request is answered (the HTTP timeout answers when   *)
(* YouTube does not), and each caller keeps coming back for a key.         *)
PoolFairness ==
    /\ WF_keyPoolVars(TimePasses)
    /\ \A r \in Callers :
          /\ WF_keyPoolVars(Take(r))
          /\ WF_keyPoolVars(Succeed(r) \/ \E code \in ErrorCodes : Fail(r, code))

PoolSpec == PoolInit /\ [][PoolNext]_keyPoolVars
FairPoolSpec == PoolSpec /\ PoolFairness

-----------------------------------------------------------------------------
(* A key on offer has sat out its cooldown: no late answer, and no order   *)
(* of answers, makes a key AVAILABLE before its time (key_pool.py:86-93).  *)
AvailableIsRested ==
    \A k \in Keys : status[k] = "AVAILABLE" => cooldown[k] = 0

(* No cooldown lasts longer than the cap, whatever number of errors led to *)
(* it and in whatever order they came.                                     *)
CooldownCapped ==
    \A k \in Keys : status[k] = "COOLDOWN" => cooldown[k] <= Cap

(* A cooling key comes back: late errors of the requests still holding it  *)
(* can prolong the cooldown, but not for ever.                             *)
CoolingKeyReturns ==
    \A k \in Keys : status[k] = "COOLDOWN" ~> status[k] # "COOLDOWN"

(* EXHAUSTED lasts until the quota is reset, as docs/youtube/              *)
(* architecture.md:55 says of the key states ("until UTC midnight reset"). *)
ExhaustedKeyReturns ==
    \A k \in Keys : status[k] = "EXHAUSTED" ~> status[k] # "EXHAUSTED"
=============================================================================
