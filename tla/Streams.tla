------------------------------ MODULE Streams -------------------------------
(***************************************************************************)
(* The calls that start, stop and restart the stream workers of one        *)
(* broadcast, and its rows in the table stream_sessions: StreamService     *)
(* (app/services/stream_service.py), the control endpoint of the dashboard *)
(* (app/api/routes/dashboard.py), the coordinator that joins monitored     *)
(* channels and the shutdown of the process.                               *)
(*                                                                         *)
(* A call is one transaction, READ COMMITTED: a row it has written is      *)
(* locked, what it wrote is seen by others once it commits, and an         *)
(* attribute set to the value that was read writes nothing.  The commit    *)
(* comes after the call has released its Redis or asyncio lock.            *)
(***************************************************************************)
EXTENDS Worker

CONSTANTS
    Scenarios,   \* which calls come in: a set of functions from Calls to Kinds
    Left,        \* sessions an earlier run of the process may have left rows of
    DatabaseMayFail   \* whether a transaction may be lost

Kinds == {"none", "bootstrap", "auto", "connect", "disconnect", "restart",
          "control disconnect", "control restart", "control reconcile", "shutdown"}

ASSUME StreamAssumption ==
    /\ Scenarios \subseteq [Calls -> Kinds]
    /\ Left \subseteq Sessions
    /\ DatabaseMayFail \in BOOLEAN

VARIABLES
    row,       \* committed status of a stream session, "none" without a row
    rowLock,   \* the call that has written the row and is not over
    bootLock,  \* lock:stream:bootstrap:{video_id} exists
    control,   \* the call that holds _stream_control_locks[stream_id]
    kind,      \* what a call is
    at,        \* how far it has come
    target,    \* the session it works on
    mine,      \* the worker object it has looked up
    loaded,    \* the status it has read
    written    \* the status its session object has now

callVars == <<row, rowLock, bootLock, control, kind, at, target, mine, loaded, written>>
callData == <<row, rowLock, bootLock, control, kind, target, mine, loaded, written>>
allVars == <<workerVars, callVars>>

Live == {"ACTIVE", "RUNNING", "CONNECTING"}
Reusable == {"IDLE", "STOPPED", "ENDED", "FAILED", "ERROR"}
Status == Live \cup Reusable \cup {"DEGRADED"}

Controls == {"control disconnect", "control restart", "control reconcile"}
Stoppers == {"disconnect", "control disconnect"}
Restarters == {"restart", "control restart"}
Places == {"idle", "enter", "check", "resolve", "find", "stop", "stopping",
           "start", "judge", "write", "release", "commit", "over"}

CallTypeOK ==
    /\ row \in [Sessions -> Status \cup {"none"}]
    /\ rowLock \in [Sessions -> Calls \cup {None}]
    /\ bootLock \in BOOLEAN
    /\ control \in [Sessions -> Calls \cup {None}]
    /\ kind \in [Calls -> Kinds]
    /\ at \in [Calls -> Places]
    /\ target \in [Calls -> Sessions \cup {None}]
    /\ mine \in [Calls -> Workers \cup {None}]
    /\ loaded \in [Calls -> Status \cup {"none"}]
    /\ written \in [Calls -> Status \cup {"none"}]

StreamTypeOK == WorkerTypeOK /\ CallTypeOK

(* A process that has just started: the rows are what an earlier run has   *)
(* left, there is no worker.                                               *)
StreamInit ==
    /\ WorkerInit
    /\ row \in [Sessions -> {"none", "ACTIVE", "ENDED"}]
    /\ \A s \in Sessions \ Left : row[s] = "none"
    /\ rowLock = [s \in Sessions |-> None]
    /\ bootLock = FALSE
    /\ control = [s \in Sessions |-> None]
    /\ kind \in Scenarios
    /\ at = [c \in Calls |-> "idle"]
    /\ target = [c \in Calls |-> None]
    /\ mine = [c \in Calls |-> None]
    /\ loaded = [c \in Calls |-> "none"]
    /\ written = [c \in Calls |-> "none"]

GoTo(c, place) == at' = [at EXCEPT ![c] = place]
Rows == {s \in Sessions : row[s] # "none"}

(* Ids and objects that have not been used; which one does not matter.     *)
FreshWorker == CHOOSE w \in Workers : session[w] = None
FreshSessions ==
    {s \in Sessions : row[s] = "none" /\ table[s] = None /\ \A c \in Calls : target[c] # s}
FreshSession == CHOOSE s \in FreshSessions : TRUE

(* The call holds no lock of its own any more.                             *)
LetGo(c) ==
    /\ bootLock' = (bootLock /\ kind[c] \notin {"bootstrap", "auto"})
    /\ control' = [s \in Sessions |-> IF control[s] = c THEN None ELSE control[s]]

Unlocked(c) == [s \in Sessions |-> IF rowLock[s] = c THEN None ELSE rowLock[s]]

(* The call is over and what it knew is gone.                              *)
Leave(c) ==
    /\ GoTo(c, "over")
    /\ kind' = [kind EXCEPT ![c] = "none"]
    /\ target' = [target EXCEPT ![c] = None]
    /\ mine' = [mine EXCEPT ![c] = None]
    /\ loaded' = [loaded EXCEPT ![c] = "none"]
    /\ written' = [written EXCEPT ![c] = "none"]

(* Fault: a call that fails keeps its locks.                               *)
AbandonLocked(c) ==
    /\ rowLock' = Unlocked(c)
    /\ Leave(c)
    /\ UNCHANGED <<row, bootLock, control>>

(* Turned away or failed: the transaction is rolled back.                  *)
Abandon(c) ==
    /\ LetGo(c)
    /\ rowLock' = Unlocked(c)
    /\ Leave(c)
    /\ UNCHANGED row

-----------------------------------------------------------------------------
(* A request, a tick of the coordinator or the shutdown comes in.  What    *)
(* works on a session works on one with a row, or with a worker.           *)
Arrive(c) ==
    /\ at[c] = "idle"
    /\ \/ /\ kind[c] \in {"bootstrap", "auto", "connect"}
          /\ GoTo(c, IF kind[c] = "connect" THEN "check" ELSE "enter")
          /\ UNCHANGED <<target, loaded>>
       \/ /\ kind[c] \in Controls
          /\ \E s \in Rows : target' = [target EXCEPT ![c] = s]
          /\ GoTo(c, "enter")
          /\ UNCHANGED loaded
       \/ /\ kind[c] \in {"disconnect", "restart"}
          /\ \E s \in Rows :
                /\ target' = [target EXCEPT ![c] = s]
                /\ loaded' = [loaded EXCEPT ![c] = row[s]]
          /\ GoTo(c, "find")
       \/ /\ kind[c] = "shutdown"
          /\ \E s \in Sessions : table[s] # None /\ target' = [target EXCEPT ![c] = s]
          /\ GoTo(c, "find")
          /\ UNCHANGED loaded
    /\ UNCHANGED <<workerVars, row, rowLock, bootLock, control, kind, mine, written>>

(* SET NX of the bootstrap lock.  A manual call is turned away when it     *)
(* exists; the coordinator goes on without it.                             *)
LockBootstrap(c) ==
    /\ at[c] = "enter" /\ kind[c] \in {"bootstrap", "auto"}
    /\ bootLock' = TRUE
    /\ IF bootLock /\ kind[c] = "bootstrap"
       THEN Leave(c)
       ELSE GoTo(c, "check") /\ UNCHANGED <<kind, target, mine, loaded, written>>
    /\ UNCHANGED <<workerVars, row, rowLock, control>>

(* The lock lives thirty seconds.                                          *)
BootLockExpires ==
    /\ bootLock
    /\ bootLock' = FALSE
    /\ UNCHANGED <<workerVars, row, rowLock, control, kind, at, target, mine, loaded, written>>

(* The control endpoint has its lock and reads the row.                    *)
LockControl(c) ==
    LET s == target[c] IN
    /\ at[c] = "enter" /\ kind[c] \in Controls
    /\ control[s] = None
    /\ IF kind[c] = "control disconnect" /\ row[s] \in {"ENDED", "STOPPED"}
       THEN Leave(c) /\ UNCHANGED control
       ELSE /\ control' = [control EXCEPT ![s] = c]
            /\ loaded' = [loaded EXCEPT ![c] = row[s]]
            /\ GoTo(c, IF kind[c] = "control reconcile" THEN "judge" ELSE "find")
            /\ UNCHANGED <<kind, target, mine, written>>
    /\ UNCHANGED <<workerVars, row, rowLock, bootLock>>

-----------------------------------------------------------------------------
(* The duplicate check of the bootstrap: a row of the video, whichever the *)
(* database returns first.                                                 *)
CheckDuplicate(c) ==
    /\ at[c] = "check" /\ kind[c] \in {"bootstrap", "auto"}
    /\ \/ /\ Rows = {}
          /\ GoTo(c, "resolve")
          /\ UNCHANGED callData
       \/ \E s \in Rows :
            IF row[s] \in Live /\ table[s] # None
            THEN Abandon(c)
            ELSE /\ target' = [target EXCEPT ![c] = s]
                 /\ loaded' = [loaded EXCEPT ![c] = row[s]]
                 /\ GoTo(c, "resolve")
                 /\ UNCHANGED <<row, rowLock, bootLock, control, kind, mine, written>>
    /\ UNCHANGED workerVars

(* The broadcast is live.  A row that is at rest is used again, written as *)
(* CONNECTING; in every other case there is a new one.                     *)
PlaceRow(c) ==
    /\ at[c] = "resolve" /\ kind[c] \in {"bootstrap", "auto"}
    /\ written' = [written EXCEPT ![c] = "CONNECTING"]
    /\ IF loaded[c] \in Reusable
       THEN /\ rowLock[target[c]] = None
            /\ rowLock' = [rowLock EXCEPT ![target[c]] = c]
            /\ UNCHANGED <<target, loaded>>
       ELSE /\ FreshSessions # {}
            /\ target' = [target EXCEPT ![c] = FreshSession]
            /\ loaded' = [loaded EXCEPT ![c] = "none"]
            /\ UNCHANGED rowLock
    /\ GoTo(c, "start")
    /\ UNCHANGED <<workerVars, row, bootLock, control, kind, mine>>

(* It is not, or YouTube does not answer.                                  *)
Unresolvable(c) ==
    /\ at[c] = "resolve"
    /\ Abandon(c)
    /\ UNCHANGED workerVars

(* connect_stream takes no lock; it is turned away when one of the rows is *)
(* live and has a worker object, else it makes a new row.                  *)
CheckConnect(c) ==
    /\ at[c] = "check" /\ kind[c] = "connect"
    /\ IF \E s \in Rows : row[s] \in Live /\ table[s] # None
       THEN Leave(c)
       ELSE /\ FreshSessions # {}
            /\ target' = [target EXCEPT ![c] = FreshSession]
            /\ written' = [written EXCEPT ![c] = "CONNECTING"]
            /\ GoTo(c, "start")
            /\ UNCHANGED <<kind, mine, loaded>>
    /\ UNCHANGED <<workerVars, row, rowLock, bootLock, control>>

-----------------------------------------------------------------------------
(* get_session.  Without a worker a disconnect goes on.                    *)
Find(c) ==
    LET w == table[target[c]] IN
    /\ at[c] = "find"
    /\ w # None \/ kind[c] \in Stoppers
    /\ mine' = [mine EXCEPT ![c] = w]
    /\ GoTo(c, IF w # None THEN "stop" ELSE "write")
    /\ written' = [written EXCEPT ![c] =
          IF kind[c] \in Stoppers THEN "ENDED" ELSE
          IF kind[c] = "control restart" THEN "ACTIVE" ELSE
          IF kind[c] = "restart" THEN "RUNNING" ELSE "none"]
    /\ UNCHANGED <<workerVars, row, rowLock, bootLock, control, kind, target, loaded>>

(* Without a worker there is nothing to restart.                           *)
NotFound(c) ==
    /\ at[c] = "find"
    /\ table[target[c]] = None /\ kind[c] \in Restarters
    /\ Abandon(c)
    /\ UNCHANGED workerVars

AfterStop(c) ==
    /\ IF kind[c] = "shutdown"
       THEN Leave(c)
       ELSE /\ GoTo(c, IF kind[c] \in Stoppers THEN "write" ELSE "start")
            /\ UNCHANGED <<kind, target, mine, loaded, written>>
    /\ UNCHANGED <<row, rowLock, bootLock, control>>

StopNothing(c) ==
    /\ at[c] = "stop"
    /\ SkipStop(mine[c])
    /\ AfterStop(c)

Stop(c) ==
    /\ at[c] = "stop"
    /\ BeginStop(c, mine[c])
    /\ GoTo(c, "stopping")
    /\ UNCHANGED callData

StopTimesOut(c) ==
    /\ at[c] = "stopping"
    /\ CancelLoop(c, mine[c])
    /\ UNCHANGED callVars

Stopped(c) ==
    /\ at[c] = "stopping"
    /\ EndStop(c, mine[c])
    /\ AfterStop(c)

-----------------------------------------------------------------------------
(* The second half of restart_session: the new object knows what the old   *)
(* one knew.                                                               *)
StartAgain(c) ==
    /\ at[c] = "start" /\ kind[c] \in Restarters
    /\ FreshWorker \in Workers
    /\ StartSession(target[c], FreshWorker, chat[mine[c]])
    /\ GoTo(c, "write")
    /\ UNCHANGED callData

(* Another call was faster.                                                *)
RestartRefused(c) ==
    /\ at[c] = "start" /\ kind[c] \in Restarters
    /\ Refuses(target[c])
    /\ Abandon(c)
    /\ UNCHANGED workerVars

(* The worker of a row that is connecting.  connect_stream may come        *)
(* without the id of the chat.                                             *)
StartWorker(c) ==
    /\ at[c] = "start" /\ kind[c] \notin Restarters
    /\ FreshWorker \in Workers
    /\ \E knowsChat \in BOOLEAN :
          /\ kind[c] # "connect" => knowsChat
          /\ StartSession(target[c], FreshWorker, knowsChat)
    /\ written' = [written EXCEPT ![c] = "ACTIVE"]
    /\ GoTo(c, IF kind[c] = "connect" THEN "commit" ELSE "release")
    /\ UNCHANGED <<row, rowLock, bootLock, control, kind, target, mine, loaded>>

(* WorkerStartupError: a manual call is rolled back, the coordinator goes  *)
(* on and commits the row as FAILED.                                       *)
StartRefused(c) ==
    /\ at[c] = "start" /\ kind[c] = "bootstrap"
    /\ Refuses(target[c])
    /\ Abandon(c)
    /\ UNCHANGED workerVars

JoinRefused(c) ==
    /\ at[c] = "start" /\ kind[c] = "auto"
    /\ Refuses(target[c])
    /\ written' = [written EXCEPT ![c] = "FAILED"]
    /\ GoTo(c, "release")
    /\ UNCHANGED <<workerVars, row, rowLock, bootLock, control, kind, target, mine, loaded>>

-----------------------------------------------------------------------------
(* reconcile: what the row should say of the worker.                       *)
Judge(c) ==
    LET w == table[target[c]] IN
    /\ at[c] = "judge"
    /\ written' = [written EXCEPT ![c] =
          IF w # None /\ state[w] = "RUNNING" THEN "ACTIVE" ELSE
          IF loaded[c] = "ACTIVE" THEN "DEGRADED" ELSE loaded[c]]
    /\ GoTo(c, "write")
    /\ UNCHANGED <<workerVars, row, rowLock, bootLock, control, kind, target, mine, loaded>>

(* flush: an UPDATE waits for the row's lock; without a change there is no *)
(* UPDATE.                                                                 *)
Write(c) ==
    /\ at[c] = "write"
    /\ IF written[c] = loaded[c]
       THEN UNCHANGED rowLock
       ELSE /\ rowLock[target[c]] = None
            /\ rowLock' = [rowLock EXCEPT ![target[c]] = c]
    /\ GoTo(c, IF kind[c] \in Controls THEN "release" ELSE "commit")
    /\ UNCHANGED <<workerVars, row, bootLock, control, kind, target, mine, loaded, written>>

(* The lock of the call is released on the way out of the handler.         *)
Release(c) ==
    /\ at[c] = "release"
    /\ LetGo(c)
    /\ GoTo(c, "commit")
    /\ UNCHANGED <<workerVars, row, rowLock, kind, target, mine, loaded, written>>

(* The dependency that gave the session, or session.begin(), commits.      *)
Commit(c) ==
    LET s == target[c] IN
    /\ at[c] = "commit"
    /\ row' = IF rowLock[s] = c \/ loaded[c] = "none"
              THEN [row EXCEPT ![s] = written[c]] ELSE row
    /\ rowLock' = Unlocked(c)
    /\ Leave(c)
    /\ UNCHANGED <<workerVars, bootLock, control>>

(* The database fails; the worker that was started or stopped stays so.    *)
LoseTransaction(c) ==
    /\ DatabaseMayFail
    /\ at[c] \in {"write", "release", "commit"}
    /\ Abandon(c)
    /\ UNCHANGED workerVars

CallStep(c) ==
    \/ LockBootstrap(c) \/ LockControl(c)
    \/ CheckDuplicate(c) \/ PlaceRow(c) \/ Unresolvable(c) \/ CheckConnect(c)
    \/ Find(c) \/ NotFound(c)
    \/ StopNothing(c) \/ Stop(c) \/ StopTimesOut(c) \/ Stopped(c)
    \/ StartAgain(c) \/ RestartRefused(c)
    \/ StartWorker(c) \/ StartRefused(c) \/ JoinRefused(c)
    \/ Judge(c) \/ Write(c) \/ Release(c) \/ Commit(c) \/ LoseTransaction(c)

WorkerStep(w) == LoopStep(w) /\ UNCHANGED callVars

StreamNext ==
    \/ \E c \in Calls : Arrive(c) \/ CallStep(c)
    \/ \E w \in Workers : WorkerStep(w)
    \/ BootLockExpires

StreamSpec == StreamInit /\ [][StreamNext]_allVars

(* The event loop runs what is ready; HTTP requests and the database have  *)
(* timeouts, stop() has its own.  A chat need not bring anything, so a     *)
(* worker that receives moves on only once it has been told to stop.       *)
Progress ==
    /\ \A c \in Calls : WF_allVars(CallStep(c))
    /\ \A w \in Workers :
          /\ WF_allVars(loop[w] # "receiving" /\ WorkerStep(w))
          /\ WF_allVars(told[w] # "no" /\ WorkerStep(w))

FairStreamSpec == StreamSpec /\ Progress

-----------------------------------------------------------------------------
(* When stop() returns, for this caller or because there was nothing to    *)
(* do, the worker it was called on has left its loop: no message is taken  *)
(* from the chat any more.                                                 *)
StopMeansStopped ==
    [][\A c \in Calls :
          at[c] \in {"stop", "stopping"} /\ at'[c] \notin {"stop", "stopping"}
             => loop'[mine[c]] \in {"closing", "done"}]_allVars

(* Every call that has come in is answered, although calls wait for the    *)
(* locks of each other and for the task of a worker.                       *)
EveryCallReturns == \A c \in Calls : at[c] # "idle" ~> at[c] = "over"

(* Once no call is under way, a session whose row says ENDED has no worker *)
(* at work.                                                                *)
EndedHasNoWorker ==
    (\A c \in Calls : at[c] \in {"idle", "over"}) =>
        \A s \in Sessions :
            row[s] = "ENDED" /\ table[s] # None => state[table[s]] \notin Active
=============================================================================
