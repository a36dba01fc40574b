------------------------------- MODULE Quota -------------------------------
(***************************************************************************)
(* QuotaManager (app/youtube/quota.py): the two-phase reservation of       *)
(* YouTube API quota.  One manager per process, each with its own          *)
(* dictionary of reservations and its own asyncio lock; one counter per    *)
(* UTC day in Redis, shared by all processes.                              *)
(*                                                                         *)
(* Every call to Redis is an await: other processes run, midnight passes,  *)
(* Redis raises, or the task is cancelled between its two sides.  The lock *)
(* is held over the awaits, so calls of one process do not overlap inside  *)
(* the manager; those of two processes do.  A request stands for the one   *)
(* reservation id it is given: ids are UUIDs and never recur.              *)
(***************************************************************************)
EXTENDS QuotaUnits

CONSTANTS
    Procs,      \* processes sharing the Redis counter
    ProcOf,     \* the process a request runs in
    Limit,      \* YOUTUBE_QUOTA_DAILY_LIMIT
    LastDay     \* bound: the day the model stops at

ASSUME QuotaAssumption ==
    /\ ProcOf \in [Requests -> Procs]
    /\ Limit \in Nat
    /\ LastDay \in Nat

VARIABLES
    today,        \* the UTC day datetime.now returns
    counter,      \* the Redis keys quota:youtube:<day>
    reservation,  \* a request's entry in its manager's dictionary
    call,         \* the await a request is at inside the manager
    seen,         \* what reserve read of the counter, until it has decided
    spent,        \* history: units a process has charged to the current day
    billed        \* history: units charged on behalf of a request

quotaVars == <<today, counter, reservation, call, seen, spent, billed>>

Days == 0 .. LastDay

(* "unused" before the id exists and "popped" once it left the dictionary; *)
(* "held" is an entry with neither flag set.                               *)
Entries == {"unused", "held", "consumed", "popped"}
Calls == {"none", "reserve", "incrby", "expire"}

TypeOK ==
    /\ today \in Days
    /\ counter \in [Days -> Nat]
    /\ reservation \in [Requests -> Entries]
    /\ call \in [Requests -> Calls]
    /\ seen \in [Requests -> Nat]
    /\ spent \in [Procs -> Nat]
    /\ billed \in [Requests -> Nat]

HeldBy(p) == {r \in Requests : ProcOf[r] = p /\ reservation[r] = "held"}

(* Marked consumed, INCRBY not yet done: no longer in the sum reserve      *)
(* takes, not yet in the counter.                                          *)
InTransit(p) == {r \in Requests : ProcOf[r] = p /\ call[r] = "incrby"}

(* What process p was granted of the budget and has not charged yet.       *)
AsideBy(p) == HeldBy(p) \cup InTransit(p)

LockFree(p) == \A r \in Requests : ProcOf[r] = p => call[r] = "none"

QuotaInit ==
    /\ today = 0
    /\ counter = [d \in Days |-> 0]
    /\ reservation = [r \in Requests |-> "unused"]
    /\ call = [r \in Requests |-> "none"]
    /\ seen = [r \in Requests |-> 0]
    /\ spent = [p \in Procs |-> 0]
    /\ billed = [r \in Requests |-> 0]

-----------------------------------------------------------------------------
(* reserve: take the lock, read the counter of the day, decide.            *)

(* Fault: reserve reads the counter without taking the lock.               *)
ReserveReadUnlocked(r) ==
    /\ reservation[r] = "unused"
    /\ call' = [call EXCEPT ![r] = "reserve"]
    /\ seen' = [seen EXCEPT ![r] = counter[today]]
    /\ UNCHANGED <<today, counter, reservation, spent, billed>>

ReserveRead(r) ==
    /\ reservation[r] = "unused"
    /\ LockFree(ProcOf[r])
    /\ call' = [call EXCEPT ![r] = "reserve"]
    /\ seen' = [seen EXCEPT ![r] = counter[today]]
    /\ UNCHANGED <<today, counter, reservation, spent, billed>>

(* Fault: what other calls hold is not counted.                            *)
FitsCounterOnly(r) == seen[r] + Cost[r] <= Limit

Fits(r) == seen[r] + Weight(HeldBy(ProcOf[r])) + Cost[r] <= Limit

ReserveAccept(r) ==
    /\ call[r] = "reserve"
    /\ Fits(r)
    /\ reservation' = [reservation EXCEPT ![r] = "held"]
    /\ call' = [call EXCEPT ![r] = "none"]
    /\ seen' = [seen EXCEPT ![r] = 0]
    /\ UNCHANGED <<today, counter, spent, billed>>

(* YouTubeQuotaExceededError: no id is handed out.                         *)
ReserveReject(r) ==
    /\ call[r] = "reserve"
    /\ ~Fits(r)
    /\ reservation' = [reservation EXCEPT ![r] = "popped"]
    /\ call' = [call EXCEPT ![r] = "none"]
    /\ seen' = [seen EXCEPT ![r] = 0]
    /\ UNCHANGED <<today, counter, spent, billed>>

-----------------------------------------------------------------------------
(* consume: an unknown or an already consumed reservation returns at once  *)
(* and changes nothing; a held one is marked, counted, and popped.         *)

(* Fault: the entry is not marked before the INCRBY.                       *)
ConsumeMarkLate(r) ==
    /\ reservation[r] = "held"
    /\ LockFree(ProcOf[r])
    /\ call' = [call EXCEPT ![r] = "incrby"]
    /\ UNCHANGED <<today, counter, reservation, seen, spent, billed>>

ConsumeMark(r) ==
    /\ reservation[r] = "held"
    /\ LockFree(ProcOf[r])
    /\ reservation' = [reservation EXCEPT ![r] = "consumed"]
    /\ call' = [call EXCEPT ![r] = "incrby"]
    /\ UNCHANGED <<today, counter, seen, spent, billed>>

(* The key is that of the day INCRBY runs on, which need not be the day    *)
(* the units were reserved on.                                             *)
ConsumeIncrby(r) ==
    /\ call[r] = "incrby"
    /\ counter' = [counter EXCEPT ![today] = @ + Cost[r]]
    /\ spent' = [spent EXCEPT ![ProcOf[r]] = @ + Cost[r]]
    /\ billed' = [billed EXCEPT ![r] = @ + Cost[r]]
    /\ call' = [call EXCEPT ![r] = "expire"]
    /\ UNCHANGED <<today, reservation, seen>>

(* Fault: the lock is not given back.                                      *)
ConsumePopKeepsLock(r) ==
    /\ call[r] = "expire"
    /\ reservation' = [reservation EXCEPT ![r] = "popped"]
    /\ UNCHANGED <<today, counter, call, seen, spent, billed>>

ConsumePop(r) ==
    /\ call[r] = "expire"
    /\ reservation' = [reservation EXCEPT ![r] = "popped"]
    /\ call' = [call EXCEPT ![r] = "none"]
    /\ UNCHANGED <<today, counter, seen, spent, billed>>

(* Redis raises, or the task is cancelled, at any await: the lock is       *)
(* released and the entry stays as the call left it.  An INCRBY that was   *)
(* applied before its reply was lost is ConsumeIncrby followed by this.    *)
Abort(r) ==
    /\ call[r] # "none"
    /\ call' = [call EXCEPT ![r] = "none"]
    /\ reservation' = [reservation EXCEPT
                          ![r] = IF call[r] = "reserve" THEN "popped" ELSE @]
    /\ seen' = [seen EXCEPT ![r] = 0]
    /\ UNCHANGED <<today, counter, spent, billed>>

(* Fault: release does not wait for the lock.                              *)
ReleaseUnlocked(r) ==
    /\ reservation[r] \in {"held", "consumed"}
    /\ reservation' = [reservation EXCEPT ![r] = "popped"]
    /\ UNCHANGED <<today, counter, call, seen, spent, billed>>

(* release_if_failed_before_request pops the entry whatever its flags.     *)
Release(r) ==
    /\ reservation[r] \in {"held", "consumed"}
    /\ LockFree(ProcOf[r])
    /\ reservation' = [reservation EXCEPT ![r] = "popped"]
    /\ UNCHANGED <<today, counter, call, seen, spent, billed>>

-----------------------------------------------------------------------------
(* The environment.                                                        *)

Midnight ==
    /\ today < LastDay
    /\ today' = today + 1
    /\ spent' = [p \in Procs |-> 0]
    /\ UNCHANGED <<counter, reservation, call, seen, billed>>

(* A process dies and comes back: its dictionary was only in memory, and   *)
(* the requests it was serving are gone with it.                           *)
Restart(p) ==
    /\ reservation' = [r \in Requests |->
            IF ProcOf[r] = p /\ (reservation[r] # "unused" \/ call[r] # "none")
            THEN "popped" ELSE reservation[r]]
    /\ call' = [r \in Requests |-> IF ProcOf[r] = p THEN "none" ELSE call[r]]
    /\ seen' = [r \in Requests |-> IF ProcOf[r] = p THEN 0 ELSE seen[r]]
    /\ UNCHANGED <<today, counter, spent, billed>>

QuotaNext ==
    \/ \E r \in Requests :
          \/ ReserveRead(r) \/ ReserveAccept(r) \/ ReserveReject(r)
          \/ ConsumeMark(r) \/ ConsumeIncrby(r) \/ ConsumePop(r)
          \/ Abort(r)
          \/ Release(r)
    \/ Midnight
    \/ \E p \in Procs : Restart(p)

QuotaSpec == QuotaInit /\ [][QuotaNext]_quotaVars

-----------------------------------------------------------------------------
(* No process goes over the budget on its own: what it charged today, what *)
(* it is charging and what it holds fit into Limit, through cancellations, *)
(* Redis errors, midnight and restarts (quota.py:32-34, 88).               *)
ProcessCap ==
    \A p \in Procs : spent[p] + Weight(AsideBy(p)) <= Limit

(* One process keeps the promise of QuotaBudget: units are set aside while *)
(* they are held or on their way to the counter.                           *)
Budget == INSTANCE QuotaBudget WITH
              charged <- counter[today],
              aside <- UNION {AsideBy(p) : p \in Procs}

KeepsBudget == Budget!BudgetSpec

(* The hard cap as documented: no day's counter passes the limit.          *)
DailyCap == \A d \in Days : counter[d] <= Limit

(* What is left of it when several processes charge the same counter: no   *)
(* day can pass the limit more often than there are processes.             *)
SharedCap == \A d \in Days : counter[d] <= Cardinality(Procs) * Limit

(* A reservation is charged in full or not at all, and never twice, however *)
(* often consume and release are called and wherever they are cut short.   *)
ChargedAtMostOnce == \A r \in Requests : billed[r] \in {0, Cost[r]}

(* A charge and a refund exclude each other: once a reservation was        *)
(* released without a charge, no later step charges it.                    *)
NoChargeAfterRelease ==
    [][\A r \in Requests :
          reservation[r] = "popped" => billed'[r] = billed[r]]_quotaVars
=============================================================================
