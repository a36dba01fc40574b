------------------------------- MODULE Worker -------------------------------
(***************************************************************************)
(* The supervised stream workers of one process: WorkerManager             *)
(* (app/workers/manager.py) keeps a table from session ids to worker       *)
(* objects, StreamWorkerSession (app/workers/session.py) is such an object *)
(* with the task that reads its chat.  A restart makes a new object and    *)
(* puts it in the place of the old one, whose task may still be at work.   *)
(*                                                                         *)
(* Everything runs on one event loop: a step is what happens between two   *)
(* suspensions.  Time is abstracted: a timeout may strike at any moment.   *)
(*                                                                         *)
(* Operators called "Fault" are slips the code does not make; nothing here *)
(* uses them.                                                              *)
(***************************************************************************)
EXTENDS Naturals

CONSTANTS
    Sessions,        \* ids of stream sessions
    Workers,         \* worker objects; a bound on how many are ever made
    Calls,           \* calls on the services, the callers of stop()
    None,            \* no session, no worker, no call
    ErrorThreshold   \* error_threshold: errors in a row that end a worker

ASSUME WorkerAssumption ==
    /\ None \notin Sessions \cup Workers \cup Calls
    /\ ErrorThreshold \in Nat \ {0}

VARIABLES
    table,     \* WorkerManager._sessions
    session,   \* session_id of a worker, None before it is made
    chat,      \* whether it knows its live_chat_id
    state,     \* its WorkerState
    loop,      \* how far its task has come
    told,      \* "stop" when its stop event is set, "cancel" when its task is cancelled
    errors,    \* consecutive_errors
    holder     \* the call inside stop(), which holds the lock of the worker

workerVars == <<table, session, chat, state, loop, told, errors, holder>>

Active == {"STARTING", "RESOLVING", "RUNNING", "RECONNECTING"}
Quiet == {"IDLE", "STOPPED", "ENDED"}
Working == {"begin", "resolving", "receiving", "failing", "backoff"}

WorkerTypeOK ==
    /\ table \in [Sessions -> Workers \cup {None}]
    /\ session \in [Workers -> Sessions \cup {None}]
    /\ chat \in [Workers -> BOOLEAN]
    /\ state \in [Workers -> Active \cup Quiet \cup {"STOPPING", "ERROR"}]
    /\ loop \in [Workers -> Working \cup {"none", "closing", "done"}]
    /\ told \in [Workers -> {"no", "stop", "cancel"}]
    /\ errors \in [Workers -> 0 .. ErrorThreshold]
    /\ holder \in [Workers -> Calls \cup {None}]

WorkerInit ==
    /\ table = [s \in Sessions |-> None]
    /\ session = [w \in Workers |-> None]
    /\ chat = [w \in Workers |-> FALSE]
    /\ state = [w \in Workers |-> "IDLE"]
    /\ loop = [w \in Workers |-> "none"]
    /\ told = [w \in Workers |-> "no"]
    /\ errors = [w \in Workers |-> 0]
    /\ holder = [w \in Workers |-> None]

Become(w, newState) == state' = [state EXCEPT ![w] = newState]
Reach(w, place) == loop' = [loop EXCEPT ![w] = place]

-----------------------------------------------------------------------------
(* start_session.                                                          *)

(* Fault: a worker that reconnects does not count as active.               *)
RefusesUnlessBroken(s) ==
    table[s] # None /\ state[table[s]] \in Active \ {"RECONNECTING"}

(* StreamSessionAlreadyActiveError is raised.                              *)
Refuses(s) == table[s] # None /\ state[table[s]] \in Active

(* A new object takes the place of the old one and its task is created.    *)
(* The lock of a new object is free, so nothing suspends on the way.       *)
StartSession(s, w, knowsChat) ==
    /\ ~Refuses(s)
    /\ session[w] = None
    /\ table' = [table EXCEPT ![s] = w]
    /\ session' = [session EXCEPT ![w] = s]
    /\ chat' = [chat EXCEPT ![w] = knowsChat]
    /\ Become(w, "STARTING")
    /\ Reach(w, "begin")
    /\ UNCHANGED <<told, errors, holder>>

-----------------------------------------------------------------------------
(* stop(), called by c on the object w.                                    *)

(* There is nothing to stop.                                               *)
SkipStop(w) ==
    /\ holder[w] = None
    /\ state[w] \in Quiet
    /\ UNCHANGED workerVars

(* The event is set and the transport closed; then the task is awaited.    *)
BeginStop(c, w) ==
    /\ holder[w] = None
    /\ state[w] \notin Quiet
    /\ holder' = [holder EXCEPT ![w] = c]
    /\ told' = [told EXCEPT ![w] = "stop"]
    /\ Become(w, "STOPPING")
    /\ UNCHANGED <<table, session, chat, loop, errors>>

(* The task has had its five seconds, in which at least its first step is  *)
(* made.                                                                   *)
CancelLoop(c, w) ==
    /\ holder[w] = c
    /\ told[w] = "stop" /\ loop[w] \notin {"begin", "done"}
    /\ told' = [told EXCEPT ![w] = "cancel"]
    /\ UNCHANGED <<table, session, chat, state, loop, errors, holder>>

(* Fault: a cancelled task is not awaited.                                 *)
EndStopAtOnce(c, w) ==
    /\ holder[w] = c
    /\ loop[w] = "done" \/ told[w] = "cancel"
    /\ Become(w, IF state[w] = "ENDED" THEN "ENDED" ELSE "STOPPED")
    /\ holder' = [holder EXCEPT ![w] = None]
    /\ UNCHANGED <<table, session, chat, loop, told, errors>>

(* Fault: what the task found out meanwhile is overwritten.                *)
EndStopRegardless(c, w) ==
    /\ holder[w] = c
    /\ loop[w] = "done"
    /\ Become(w, "STOPPED")
    /\ holder' = [holder EXCEPT ![w] = None]
    /\ UNCHANGED <<table, session, chat, loop, told, errors>>

(* The task is over, and with it the greeting; StreamEnded is published    *)
(* and the lock released.                                                  *)
EndStop(c, w) ==
    /\ holder[w] = c
    /\ loop[w] = "done"
    /\ Become(w, IF state[w] = "ENDED" THEN "ENDED" ELSE "STOPPED")
    /\ holder' = [holder EXCEPT ![w] = None]
    /\ UNCHANGED <<table, session, chat, loop, told, errors>>

-----------------------------------------------------------------------------
(* _run_loop, the task of a worker.                                        *)

(* Without a live chat id the task asks YouTube for it, else it connects   *)
(* and has RUNNING written over whatever stop() wrote.  It receives once   *)
(* StreamStarted is published.                                             *)
LoopBegin(w) ==
    /\ loop[w] = "begin"
    /\ IF chat[w]
       THEN Become(w, "RUNNING") /\ Reach(w, "receiving")
       ELSE Become(w, "RESOLVING") /\ Reach(w, "resolving")
    /\ UNCHANGED <<table, session, chat, told, errors, holder>>

(* resolve_stream_info has the id; the transport connects.                 *)
Resolved(w) ==
    /\ loop[w] = "resolving"
    /\ chat' = [chat EXCEPT ![w] = TRUE]
    /\ Become(w, "RUNNING")
    /\ Reach(w, "receiving")
    /\ UNCHANGED <<table, session, told, errors, holder>>

(* It has none, or fails.                                                  *)
Unresolved(w) ==
    /\ loop[w] = "resolving"
    /\ Become(w, "ERROR")
    /\ Reach(w, "closing")
    /\ UNCHANGED <<table, session, chat, told, errors, holder>>

(* A batch of messages; one that comes after the stop is left alone.       *)
Batch(w) ==
    /\ loop[w] = "receiving" /\ told[w] = "no"
    /\ errors' = [errors EXCEPT ![w] = 0]
    /\ UNCHANGED <<table, session, chat, state, loop, told, holder>>

(* The stop event is seen, at the top of the loop or with a batch; or the  *)
(* transport swallows a cancellation, which comes after the stop.          *)
HeedStop(w) ==
    /\ loop[w] = "receiving" /\ told[w] # "no"
    /\ Reach(w, "closing")
    /\ UNCHANGED <<table, session, chat, state, told, errors, holder>>

(* YouTube says the broadcast is over.                                     *)
Offline(w) ==
    /\ loop[w] = "receiving"
    /\ Become(w, "ENDED")
    /\ Reach(w, "closing")
    /\ UNCHANGED <<table, session, chat, told, errors, holder>>

(* Receiving has failed: StreamError is published.                         *)
Fail(w) ==
    /\ loop[w] = "receiving"
    /\ errors' = [errors EXCEPT ![w] = @ + 1]
    /\ Become(w, "RECONNECTING")
    /\ Reach(w, "failing")
    /\ UNCHANGED <<table, session, chat, told, holder>>

(* Too many errors in a row, or a pause before the next attempt.           *)
GiveUpOrPause(w) ==
    /\ loop[w] = "failing"
    /\ IF errors[w] >= ErrorThreshold
       THEN Become(w, "ERROR") /\ Reach(w, "closing")
       ELSE Reach(w, "backoff") /\ UNCHANGED state
    /\ UNCHANGED <<table, session, chat, told, errors, holder>>

(* The pause is over.  The timeout may win against a stop of that instant. *)
Reconnect(w) ==
    /\ loop[w] = "backoff"
    /\ Become(w, "RUNNING")
    /\ Reach(w, "receiving")
    /\ UNCHANGED <<table, session, chat, told, errors, holder>>

(* The pause is cut short by the stop event.                               *)
StopPause(w) ==
    /\ loop[w] = "backoff" /\ told[w] # "no"
    /\ Reach(w, "closing")
    /\ UNCHANGED <<table, session, chat, state, told, errors, holder>>

(* CancelledError reaches the outer handler, wherever the task suspends.   *)
Cancelled(w) ==
    /\ loop[w] \in Working \ {"begin"} /\ told[w] = "cancel"
    /\ Become(w, "STOPPED")
    /\ Reach(w, "closing")
    /\ UNCHANGED <<table, session, chat, told, errors, holder>>

(* What a task counted and was told is of no use to anyone once it is over.*)
Forget(w) ==
    /\ errors' = [errors EXCEPT ![w] = 0]
    /\ told' = [told EXCEPT ![w] = "no"]

(* Fault: a task that was stopped leaves its state as it is.               *)
CloseAsItIs(w) ==
    /\ loop[w] = "closing"
    /\ Reach(w, "done")
    /\ Forget(w)
    /\ UNCHANGED <<table, session, chat, state, holder>>

(* The finally clause: the greeting is cancelled and awaited, then the     *)
(* state made final.                                                       *)
Close(w) ==
    /\ loop[w] = "closing"
    /\ Become(w, IF state[w] \in {"ERROR", "STOPPED", "ENDED"} THEN state[w] ELSE "STOPPED")
    /\ Reach(w, "done")
    /\ Forget(w)
    /\ UNCHANGED <<table, session, chat, holder>>

LoopStep(w) ==
    \/ LoopBegin(w) \/ Resolved(w) \/ Unresolved(w)
    \/ Batch(w) \/ HeedStop(w) \/ Offline(w) \/ Fail(w)
    \/ GiveUpOrPause(w) \/ Reconnect(w) \/ StopPause(w)
    \/ Cancelled(w) \/ Close(w)

(* Callers may do these things in any order.                               *)
WorkerNext ==
    \/ \E s \in Sessions, w \in Workers, knowsChat \in BOOLEAN : StartSession(s, w, knowsChat)
    \/ \E c \in Calls, w \in Workers :
          BeginStop(c, w) \/ CancelLoop(c, w) \/ EndStop(c, w)
    \/ \E w \in Workers : LoopStep(w)

WorkerSpec == WorkerInit /\ [][WorkerNext]_workerVars

-----------------------------------------------------------------------------
(* A worker that is at work either is the one the table knows, so that     *)
(* stop and restart reach it, or has been told to stop: no restart, stop   *)
(* or failure in any order loses a worker.                                 *)
NoOrphan ==
    \A w \in Workers :
        loop[w] \in Working => table[session[w]] = w \/ told[w] # "no"

(* A state that makes start_session refuse comes with a task that will     *)
(* leave it: a session whose worker is gone can always be started again.   *)
ActiveHasLoop ==
    \A w \in Workers : state[w] \in Active => loop[w] \in Working \cup {"closing"}

(* The end of a broadcast stays on record, whatever stop() does meanwhile. *)
EndedIsFinal ==
    [][\A w \in Workers : state[w] = "ENDED" => state'[w] = "ENDED"]_workerVars
=============================================================================
