------------------------------- MODULE Review -------------------------------
(***************************************************************************)
(* HumanReviewService (app/moderation/hitl/service.py): a ticket is opened *)
(* for a doubtful message, and moderators approve or deny it, over HTTP or *)
(* by a chat command, until its time is up.  An approval carries the       *)
(* action out before its transaction commits.                              *)
(*                                                                         *)
(* One ticket.  Every call has a transaction of its own (READ COMMITTED):  *)
(* it reads the row without a lock, and what its session has loaded once   *)
(* is not read again, so that the second look of resolve_review sees the   *)
(* first one's status.  The UPDATE that is flushed takes the row lock.     *)
(* Over HTTP an answer other than success is an exception, which rolls     *)
(* the transaction back; the chat command commits whatever it answers.     *)
(***************************************************************************)
EXTENDS ModerationActions, FiniteSets

CONSTANTS
    Kind,           \* "create", "approve" or "deny"
    Via,            \* "http" or "chat"
    Chosen,         \* the action that an approval ends in: recommended or overriding
    MaxRestarts,
    None

ASSUME ReviewAssumption ==
    /\ Kind \in [Calls -> {"create", "approve", "deny"}]
    /\ Via \in [Calls -> {"http", "chat"}]
    /\ Chosen \in [Calls -> Actions]
    /\ MaxRestarts \in Nat
    /\ None \notin Calls \cup Actions

VARIABLES
    review,     \* the row as it is committed
    late,       \* expires_at has passed
    rowLock,    \* whose uncommitted UPDATE holds the row
    at,         \* the await a call is at
    verdict,    \* the status a call is about to commit
    feedback,   \* calls whose feedback record is committed
    granted,    \* calls that answered success
    restarts

reviewVars == <<review, late, rowLock, at, verdict, feedback, granted, restarts>>
vars == <<actionVars, reviewVars>>

Statuses == {"ABSENT", "PENDING", "APPROVED", "DENIED", "EXPIRED"}

(* "load" before the first query, "flush" before the UPDATE, then the     *)
(* awaits of execute_decision, "commit" and "rollback" at the end.         *)
Places == {"load", "flush", "lookup", "reserve", "execute", "notify",
           "commit", "rollback", "over"}

ReviewTypeOK ==
    /\ ActionsTypeOK
    /\ review \in [status : Statuses, action : Actions \cup {None}]
    /\ late \in BOOLEAN
    /\ rowLock \in Calls \cup {None}
    /\ at \in [Calls -> Places]
    /\ verdict \in [Calls -> Statuses]
    /\ feedback \in SUBSET Calls
    /\ granted \in SUBSET Calls
    /\ restarts \in 0..MaxRestarts

Init ==
    /\ ActionsInit
    /\ review = [status |-> "ABSENT", action |-> None]
    /\ late = FALSE
    /\ rowLock = None
    /\ at = [c \in Calls |-> "load"]
    /\ verdict = [c \in Calls |-> "ABSENT"]
    /\ feedback = {} /\ granted = {}
    /\ restarts = 0

Go(c, there) == at' = [at EXCEPT ![c] = there]

-----------------------------------------------------------------------------
(* create_review: the INSERT is flushed and the moderators are told before *)
(* anyone else can see the ticket.                                         *)
Create(c) ==
    /\ Kind[c] = "create" /\ at[c] = "load"
    /\ verdict' = [verdict EXCEPT ![c] = "PENDING"]
    /\ Go(c, "notify")
    /\ UNCHANGED <<actionVars, review, late, rowLock, feedback, granted, restarts>>

Notify(c) ==
    /\ at[c] = "notify"
    /\ Go(c, "commit")
    /\ UNCHANGED <<actionVars, review, late, rowLock, verdict, feedback, granted, restarts>>

-----------------------------------------------------------------------------
(* approve_review and deny_review up to the UPDATE: the look-up and the    *)
(* checks of the status and, for an approval only, of the time.            *)
Judged(c) == IF Kind[c] = "deny" THEN "DENIED" ELSE IF late THEN "EXPIRED" ELSE "APPROVED"

Load(c) ==
    /\ Kind[c] \in {"approve", "deny"} /\ at[c] = "load"
    /\ review.status = "PENDING"
    /\ verdict' = [verdict EXCEPT ![c] = Judged(c)]
    /\ Go(c, "flush")
    /\ UNCHANGED <<actionVars, review, late, rowLock, feedback, granted, restarts>>

(* Not found, or already resolved.                                         *)
Refuse(c) ==
    /\ Kind[c] \in {"approve", "deny"} /\ at[c] = "load"
    /\ review.status # "PENDING"
    /\ Go(c, "over")
    /\ UNCHANGED <<actionVars, review, late, rowLock, verdict, feedback, granted, restarts>>

(* An expired ticket is recorded as such by the chat command only: over    *)
(* HTTP the answer is an error, which rolls the change back.               *)
AfterFlush(c) ==
    CASE verdict[c] = "APPROVED" -> "lookup"
      [] verdict[c] = "EXPIRED" /\ Via[c] = "http" -> "rollback"
      [] OTHER -> "commit"

(* Fault: the change stays in the session until the commit, so that no row *)
(* lock is held over the action.                                           *)
FlushLater(c) ==
    /\ at[c] = "flush"
    /\ Go(c, AfterFlush(c))
    /\ UNCHANGED <<actionVars, review, late, rowLock, verdict, feedback, granted, restarts>>

(* resolve_review, then the feedback.                                      *)
Flush(c) ==
    /\ at[c] = "flush" /\ rowLock = None
    /\ rowLock' = c
    /\ Go(c, AfterFlush(c))
    /\ UNCHANGED <<actionVars, review, late, verdict, feedback, granted, restarts>>

-----------------------------------------------------------------------------
(* execute_decision.                                                       *)
LookUp(c) ==
    /\ at[c] = "lookup"
    /\ Go(c, IF Unclaimed(Chosen[c]) THEN "reserve" ELSE "commit")
    /\ UNCHANGED <<actionVars, review, late, rowLock, verdict, feedback, granted, restarts>>

Claim(c) ==
    /\ at[c] = "reserve"
    /\ \/ Reserve(Chosen[c]) /\ Go(c, "execute")
       \/ ReserveRefused /\ Go(c, "rollback")
    /\ UNCHANGED <<review, late, rowLock, verdict, feedback, granted, restarts>>

Execute(c) ==
    /\ at[c] = "execute"
    /\ CarryOut(Chosen[c])
    /\ Go(c, "commit")
    /\ UNCHANGED <<review, late, rowLock, verdict, feedback, granted, restarts>>

-----------------------------------------------------------------------------
Release(c) == rowLock' = IF rowLock = c THEN None ELSE rowLock

(* What is committed is the status alone for an expiry, the status, the    *)
(* action and the feedback for a decision.                                 *)
Commit(c) ==
    /\ at[c] = "commit"
    /\ review' = [status |-> verdict[c],
                  action |-> IF verdict[c] = "APPROVED" THEN Chosen[c] ELSE None]
    /\ feedback' = IF verdict[c] \in {"APPROVED", "DENIED"} THEN feedback \cup {c} ELSE feedback
    /\ granted' = IF verdict[c] = "EXPIRED" THEN granted ELSE granted \cup {c}
    /\ Release(c)
    /\ Go(c, "over")
    /\ UNCHANGED <<actionVars, late, verdict, restarts>>

(* Fault: the transaction is neither committed nor rolled back.            *)
RollbackNever(c) ==
    /\ at[c] = "rollback"
    /\ Go(c, "over")
    /\ UNCHANGED <<actionVars, review, late, rowLock, verdict, feedback, granted, restarts>>

Rollback(c) ==
    /\ at[c] = "rollback"
    /\ Release(c)
    /\ Go(c, "over")
    /\ UNCHANGED <<actionVars, review, late, verdict, feedback, granted, restarts>>

(* Fault: what was flushed is kept.                                        *)
FailKeeping(c) ==
    /\ at[c] \in {"lookup", "reserve", "execute"}
    /\ Go(c, "commit")
    /\ UNCHANGED <<actionVars, review, late, rowLock, verdict, feedback, granted, restarts>>

(* The database, Redis or the caller's connection fails at an await.       *)
Fail(c) ==
    /\ at[c] \notin {"load", "rollback", "over"}
    /\ IF at[c] = "execute" THEN Orphan(Chosen[c]) ELSE UNCHANGED actionVars
    /\ Go(c, "rollback")
    /\ UNCHANGED <<review, late, rowLock, verdict, feedback, granted, restarts>>

(* The process dies: its transactions are rolled back and its memory is    *)
(* empty.                                                                  *)
Restart ==
    /\ restarts < MaxRestarts
    /\ restarts' = restarts + 1
    /\ at' = [c \in Calls |-> IF at[c] = "load" THEN "load" ELSE "over"]
    /\ rowLock' = None
    /\ reserved' = IF backend = "memory" THEN {} ELSE reserved
    /\ orphaned' = orphaned \cup {Chosen[c] : c \in {d \in Calls : at[d] = "execute"}}
    /\ UNCHANGED <<backend, deleted, carried, review, late, verdict, feedback, granted>>

Expire ==
    /\ ~late
    /\ late' = TRUE
    /\ UNCHANGED <<actionVars, review, rowLock, at, verdict, feedback, granted, restarts>>

-----------------------------------------------------------------------------
Step(c) ==
    \/ Create(c) \/ Notify(c) \/ Load(c) \/ Refuse(c) \/ Flush(c)
    \/ LookUp(c) \/ Claim(c) \/ Execute(c) \/ Commit(c) \/ Rollback(c)

Next ==
    \/ \E c \in Calls : Step(c) \/ Fail(c)
    \/ Restart
    \/ Expire

Spec == Init /\ [][Next]_vars

(* A call goes on: the event loop runs it, Redis and PostgreSQL answer or  *)
(* fail.  Nothing is assumed of arrivals, failures and the clock.          *)
ReviewFairness == \A c \in Calls : WF_vars(at[c] # "load" /\ Step(c))

-----------------------------------------------------------------------------
(* An action is gone through with at most once in the life of a process,   *)
(* though look-up and reservation are two awaits and any number of         *)
(* moderators approve at once: the flushed UPDATE keeps the others waiting.*)
CarriedOutOnce == \A a \in Actions : carried[a] <= 1 + restarts

(* A ticket on record as approved has had its action gone through with,    *)
(* successful or not, unless a process was cut off between the reservation *)
(* and the action; and so has every one that a moderator was told he       *)
(* approved, also when another's verdict was written over his.             *)
ApprovedIsSetAbout ==
    LET Done(a) == carried[a] > 0 \/ a \in orphaned IN
    /\ review.status = "APPROVED" => Done(review.action)
    /\ \A c \in granted : Kind[c] = "approve" => Done(Chosen[c])

(* Every call that has come in is answered, as nobody keeps the row: there *)
(* are finitely many, so that again and again none is under way.           *)
EveryVerdictEnds == []<>(\A c \in Calls : at[c] \in {"load", "over"})

-----------------------------------------------------------------------------
(* What the documents say and the code does not.                           *)

(* "Simultaneous moderator decisions result in REVIEW_ALREADY_RESOLVED for *)
(* the second requester" (docs/moderation/policy_and_hitl.md:63): of one   *)
(* ticket, one decision is granted.  Both may have read PENDING, and the   *)
(* UPDATE of the second (review_repo.py:74-77) does not look again.        *)
OneVerdict == Cardinality({c \in granted : Kind[c] \in {"approve", "deny"}}) <= 1

(* "Revert idempotency key on failure so retry is possible"                *)
(* (actions.py:88): a deletion that is not under way and was not cut off   *)
(* has succeeded or can be asked for again.  Its failure never gets there  *)
(* (actions.py:98-99).                                                     *)
FailedIsRetriable ==
    \A a \in reserved \cap Removals :
        deleted \/ a \in orphaned \/ \E c \in Calls : at[c] = "execute" /\ Chosen[c] = a
=============================================================================
