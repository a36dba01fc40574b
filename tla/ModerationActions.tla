------------------------- MODULE ModerationActions --------------------------
(***************************************************************************)
(* YouTubeModerationActionService.execute_decision (app/moderation/        *)
(* actions.py) for one message: an action is looked up in a cache of the   *)
(* process and in Redis, reserved there, and then carried out.  Look-up    *)
(* and reservation are separate awaits.                                    *)
(*                                                                         *)
(* The reservation is made with SET ... ttl=, which the in-memory client   *)
(* takes and the client of a real Redis server refuses with a TypeError.   *)
(* One process; in memory its Redis lives and dies with it.                *)
(*                                                                         *)
(* The one thing YouTube is asked for is the deletion of the message.      *)
(* Timeouts and bans are written to the log and go no further.             *)
(***************************************************************************)
EXTENDS Naturals

CONSTANTS
    Calls,      \* whoever asks for an action on the message
    Actions,    \* WARN, DELETE, TIMEOUT, BAN
    Removals    \* those of them that delete the message: all but WARN

ASSUME ActionsAssumption == Removals \subseteq Actions

VARIABLES
    backend,    \* the Redis client of the process: "memory" or "redis"
    reserved,   \* actions recorded as executed, in the cache and in Redis
    deleted,    \* YouTube has deleted the message
    carried,    \* history: how often an action was gone through with
    orphaned    \* history: actions reserved by a call that died before it acted

actionVars == <<backend, reserved, deleted, carried, orphaned>>

ActionsTypeOK ==
    /\ backend \in {"memory", "redis"}
    /\ reserved \in SUBSET Actions
    /\ deleted \in BOOLEAN
    /\ carried \in [Actions -> Nat]
    /\ orphaned \in SUBSET Actions

ActionsInit ==
    /\ backend \in {"memory", "redis"}
    /\ reserved = {}
    /\ deleted = FALSE
    /\ carried = [a \in Actions |-> 0]
    /\ orphaned = {}

(* The guard of the service: in neither the cache nor Redis.               *)
Unclaimed(a) == a \notin reserved

Reserve(a) ==
    /\ backend = "memory"
    /\ reserved' = reserved \cup {a}
    /\ UNCHANGED <<backend, deleted, carried, orphaned>>

ReserveRefused == backend = "redis" /\ UNCHANGED actionVars

(* The deletion is accepted or fails: _execute_delete logs every exception *)
(* and returns, so that the service takes either for an action executed.   *)
CarryOut(a) ==
    /\ carried' = [carried EXCEPT ![a] = @ + 1]
    /\ \/ a \in Removals /\ deleted' = TRUE
       \/ UNCHANGED deleted
    /\ UNCHANGED <<backend, reserved, orphaned>>

(* Cancelled between the reservation and the action: CancelledError is not *)
(* an Exception, so that the reservation stays.                            *)
Orphan(a) ==
    /\ orphaned' = orphaned \cup {a}
    /\ UNCHANGED <<backend, reserved, deleted, carried>>
=============================================================================
