--------------------------- MODULE Streams_proofs ---------------------------
(***************************************************************************)
(* No stream worker is lost, and a stop means a stop, whatever the calls   *)
(* of StreamService, the dashboard, the coordinator and the shutdown do at *)
(* the same time: the proofs for any number of sessions, workers and       *)
(* calls.                                                                  *)
(***************************************************************************)
EXTENDS Streams, TLAPS

(* What holds of the workers.  A worker that is stopping, failed or at     *)
(* rest has either left its loop or been told to; this is what makes it    *)
(* safe for start_session to put another object in its place.              *)
TableIsSound ==
    \A s \in Sessions : table[s] # None => session[table[s]] = s

MadeOnce ==
    \A w \in Workers : session[w] = None => state[w] = "IDLE" /\ loop[w] = "none"

UntoldIsActive ==
    \A w \in Workers : loop[w] \in Working /\ told[w] = "no" => state[w] \in Active

QuietHasLeft ==
    \A w \in Workers :
        session[w] # None /\ state[w] \in Quiet => loop[w] \in {"closing", "done"}

BelowThreshold ==
    \A w \in Workers :
        loop[w] \notin {"failing", "closing", "done"} => errors[w] < ErrorThreshold

WorkerIInv ==
    /\ WorkerTypeOK
    /\ BelowThreshold
    /\ TableIsSound
    /\ MadeOnce
    /\ UntoldIsActive
    /\ QuietHasLeft
    /\ ActiveHasLoop
    /\ NoOrphan

USE DEF Active, Quiet, Working

(* Before anything is started there is no worker.                          *)
LEMMA WorkerInitInv == WorkerInit => WorkerIInv
BY WorkerAssumption DEF WorkerInit, WorkerIInv, WorkerTypeOK, TableIsSound, MadeOnce,
   UntoldIsActive, QuietHasLeft, ActiveHasLoop, NoOrphan, BelowThreshold

(* A new object in the table.                                              *)
LEMMA StartKeepsInv ==
    ASSUME NEW s \in Sessions, NEW w \in Workers, NEW b \in BOOLEAN,
           WorkerIInv, StartSession(s, w, b)
    PROVE  WorkerIInv'
<1> USE WorkerAssumption DEF WorkerIInv, WorkerTypeOK, StartSession, Become, Reach
<1>1. WorkerTypeOK'
  OBVIOUS
<1>2. TableIsSound' /\ MadeOnce' /\ BelowThreshold'
  BY DEF TableIsSound, MadeOnce, BelowThreshold
<1>3. UntoldIsActive' /\ QuietHasLeft' /\ ActiveHasLoop'
  BY DEF UntoldIsActive, QuietHasLeft, ActiveHasLoop
<1>4. NoOrphan'
  <2> SUFFICES ASSUME NEW v \in Workers, (loop[v] \in Working)'
               PROVE  (table[session[v]] = v \/ told[v] # "no")'
    BY DEF NoOrphan
  <2>1. CASE v = w
    BY <2>1
  <2>2. CASE v # w
    <3>1. table[session[v]] = v \/ told[v] # "no"
      BY <2>2 DEF NoOrphan
    <3>2. CASE session[v] = s /\ told[v] = "no"
      BY <3>1, <3>2, <2>2 DEF UntoldIsActive, Refuses
    <3>3. CASE session[v] # s \/ told[v] # "no"
      BY <3>1, <3>3, <2>2 DEF MadeOnce
    <3> QED BY <3>2, <3>3
  <2> QED BY <2>1, <2>2
<1> QED BY <1>1, <1>2, <1>3, <1>4

(* The three moves of stop().                                              *)
LEMMA StopKeepsInv ==
    ASSUME NEW c \in Calls, NEW w \in Workers, WorkerIInv,
           BeginStop(c, w) \/ CancelLoop(c, w) \/ EndStop(c, w)
    PROVE  WorkerIInv'
<1> USE WorkerAssumption DEF WorkerIInv, WorkerTypeOK, Become
<1>1. CASE BeginStop(c, w)
  BY <1>1 DEF BeginStop, TableIsSound, MadeOnce, UntoldIsActive, QuietHasLeft,
     ActiveHasLoop, NoOrphan, BelowThreshold
<1>2. CASE CancelLoop(c, w)
  BY <1>2 DEF CancelLoop, TableIsSound, MadeOnce, UntoldIsActive, QuietHasLeft,
     ActiveHasLoop, NoOrphan, BelowThreshold
<1>3. CASE EndStop(c, w)
  BY <1>3 DEF EndStop, TableIsSound, MadeOnce, UntoldIsActive, QuietHasLeft,
     ActiveHasLoop, NoOrphan, BelowThreshold
<1> QED BY <1>1, <1>2, <1>3

(* A step of the task of a worker: it goes on, leaves its loop or is over. *)
LEMMA LoopKeepsInv ==
    ASSUME NEW w \in Workers, WorkerIInv, LoopStep(w)
    PROVE  WorkerIInv'
<1> USE WorkerAssumption DEF WorkerIInv, WorkerTypeOK, Become, Reach, TableIsSound, MadeOnce,
        UntoldIsActive, QuietHasLeft, ActiveHasLoop, NoOrphan, BelowThreshold
<1>1. CASE LoopBegin(w)
  BY <1>1 DEF LoopBegin
<1>2. CASE Resolved(w)
  BY <1>2 DEF Resolved
<1>3. CASE Unresolved(w)
  BY <1>3 DEF Unresolved
<1>4. CASE Batch(w)
  BY <1>4 DEF Batch
<1>5. CASE HeedStop(w)
  BY <1>5 DEF HeedStop
<1>6. CASE Offline(w)
  BY <1>6 DEF Offline
<1>7. CASE Fail(w)
  BY <1>7 DEF Fail
<1>8. CASE GiveUpOrPause(w)
  BY <1>8 DEF GiveUpOrPause
<1>9. CASE Reconnect(w)
  BY <1>9 DEF Reconnect
<1>10. CASE StopPause(w)
  BY <1>10 DEF StopPause
<1>11. CASE Cancelled(w)
  BY <1>11 DEF Cancelled
<1>12. CASE Close(w)
  BY <1>12 DEF Close, Forget
<1> QED
  BY <1>1, <1>2, <1>3, <1>4, <1>5, <1>6, <1>7, <1>8, <1>9, <1>10, <1>11, <1>12 DEF LoopStep

(* Whatever callers do with the manager, and every step of a task.         *)
LEMMA WorkerStepKeepsInv == WorkerIInv /\ [WorkerNext]_workerVars => WorkerIInv'
<1> SUFFICES ASSUME WorkerIInv, [WorkerNext]_workerVars PROVE WorkerIInv'
  OBVIOUS
<1>1. CASE UNCHANGED workerVars
  BY <1>1 DEF workerVars, WorkerIInv, WorkerTypeOK, TableIsSound, MadeOnce,
     UntoldIsActive, QuietHasLeft, ActiveHasLoop, NoOrphan, BelowThreshold
<1>2. CASE WorkerNext
  BY <1>2, StartKeepsInv, StopKeepsInv, LoopKeepsInv DEF WorkerNext
<1> QED
  BY <1>1, <1>2

(* A worker object belongs to one session for good.                        *)
LEMMA SessionsStay ==
    ASSUME WorkerIInv, [WorkerNext]_workerVars, NEW w \in Workers, session[w] # None
    PROVE  session'[w] = session[w]
<1> USE DEF WorkerIInv, WorkerTypeOK
<1>1. CASE UNCHANGED workerVars
  BY <1>1 DEF workerVars
<1>2. ASSUME NEW s \in Sessions, NEW v \in Workers, NEW b \in BOOLEAN, StartSession(s, v, b)
      PROVE  session'[w] = session[w]
  BY <1>2 DEF StartSession
<1>3. ASSUME NEW c \in Calls, NEW v \in Workers,
             BeginStop(c, v) \/ CancelLoop(c, v) \/ EndStop(c, v)
      PROVE  session'[w] = session[w]
  BY <1>3 DEF BeginStop, CancelLoop, EndStop
<1>4. ASSUME NEW v \in Workers, LoopStep(v)
      PROVE  session'[w] = session[w]
  BY <1>4 DEF LoopStep, LoopBegin, Resolved, Unresolved, Batch, HeedStop, Offline, Fail,
     GiveUpOrPause, Reconnect, StopPause, Cancelled, Close
<1> QED BY <1>1, <1>2, <1>3, <1>4 DEF WorkerNext

-----------------------------------------------------------------------------
(* A call that has come far enough works on a session, and one that stops  *)
(* or restarts a worker works on an object that was made.                  *)
KnowsTarget(c) ==
    /\ at[c] \in Places \ {"idle", "check", "over"} =>
          \/ at[c] \in {"enter", "resolve"} /\ kind[c] \notin Controls
          \/ target[c] \in Sessions
    /\ loaded[c] # "none" => target[c] \in Sessions

KnowsWorker(c) ==
    at[c] \in {"stop", "stopping"} \/ (at[c] = "start" /\ kind[c] \in Restarters) =>
       mine[c] \in Workers /\ session[mine[c]] # None

HasTarget == \A c \in Calls : KnowsTarget(c)
HasWorker == \A c \in Calls : KnowsWorker(c)

StreamIInv == WorkerIInv /\ CallTypeOK /\ HasTarget /\ HasWorker

(* Whatever a call does is something that callers may do with workers.     *)
LEMMA CallStepIsWorkerStep ==
    ASSUME StreamIInv, NEW c \in Calls, CallStep(c)
    PROVE  [WorkerNext]_workerVars
<1> USE DEF StreamIInv, CallTypeOK, HasTarget, KnowsTarget, HasWorker, KnowsWorker, Places
<1>1. CASE Stop(c) \/ StopTimesOut(c) \/ Stopped(c)
  BY <1>1 DEF Stop, StopTimesOut, Stopped, WorkerNext
<1>2. CASE StartAgain(c)
  <2>1. mine[c] \in Workers /\ target[c] \in Sessions /\ FreshWorker \in Workers
    BY <1>2 DEF StartAgain, Restarters, Controls
  <2>2. chat[mine[c]] \in BOOLEAN
    BY <2>1 DEF WorkerIInv, WorkerTypeOK
  <2> QED BY <1>2, <2>1, <2>2 DEF StartAgain, WorkerNext
<1>3. CASE StartWorker(c)
  <2>1. target[c] \in Sessions /\ FreshWorker \in Workers
    BY <1>3 DEF StartWorker
  <2> QED BY <1>3, <2>1 DEF StartWorker, WorkerNext
<1>4. CASE LockBootstrap(c) \/ LockControl(c) \/ CheckDuplicate(c) \/ PlaceRow(c)
            \/ Unresolvable(c) \/ CheckConnect(c) \/ Find(c) \/ NotFound(c)
  BY <1>4 DEF LockBootstrap, LockControl, CheckDuplicate, PlaceRow, Unresolvable,
     CheckConnect, Find, NotFound
<1>5. CASE StopNothing(c) \/ RestartRefused(c) \/ StartRefused(c) \/ JoinRefused(c)
            \/ Judge(c) \/ Write(c) \/ Release(c) \/ Commit(c) \/ LoseTransaction(c)
  BY <1>5 DEF StopNothing, SkipStop, RestartRefused, StartRefused, JoinRefused, Judge,
     Write, Release, Commit, LoseTransaction
<1> QED BY <1>1, <1>2, <1>3, <1>4, <1>5 DEF CallStep

(* And so does every step of the process.                                  *)
LEMMA StreamStepIsWorkerStep ==
    ASSUME StreamIInv, [StreamNext]_allVars
    PROVE  [WorkerNext]_workerVars
<1>1. CASE UNCHANGED allVars
  BY <1>1 DEF allVars
<1>2. ASSUME NEW c \in Calls, Arrive(c) PROVE [WorkerNext]_workerVars
  BY <1>2 DEF Arrive
<1>3. ASSUME NEW w \in Workers, WorkerStep(w) PROVE [WorkerNext]_workerVars
  BY <1>3 DEF WorkerStep, WorkerNext
<1>4. CASE BootLockExpires
  BY <1>4 DEF BootLockExpires
<1> QED BY <1>1, <1>2, <1>3, <1>4, CallStepIsWorkerStep DEF StreamNext

(* A process that has just started: no call has come in.                   *)
LEMMA CallInitInv == StreamInit => StreamIInv
<1> SUFFICES ASSUME StreamInit PROVE StreamIInv
  OBVIOUS
<1>1. WorkerIInv
  BY WorkerInitInv DEF StreamInit
<1>2. CallTypeOK
  BY StreamAssumption DEF StreamInit, CallTypeOK, Kinds, Places, Status, Live, Reusable
<1>3. HasTarget /\ HasWorker
  BY DEF StreamInit, HasTarget, KnowsTarget,
     HasWorker, KnowsWorker
<1> QED BY <1>1, <1>2, <1>3 DEF StreamIInv

(* A call keeps the types of what calls know.                              *)
LEMMA LeaveKeepsType ==
    ASSUME CallTypeOK, NEW c \in Calls, Leave(c)
    PROVE  /\ kind' \in [Calls -> Kinds]
           /\ at' \in [Calls -> Places]
           /\ target' \in [Calls -> Sessions \cup {None}]
           /\ mine' \in [Calls -> Workers \cup {None}]
           /\ loaded' \in [Calls -> Status \cup {"none"}]
           /\ written' \in [Calls -> Status \cup {"none"}]
BY DEF CallTypeOK, Leave, GoTo, Kinds, Places

(* So does a call that is rolled back.                                     *)
LEMMA AbandonKeepsType ==
    ASSUME CallTypeOK, NEW c \in Calls, Abandon(c)
    PROVE  CallTypeOK'
<1>1. /\ row' \in [Sessions -> Status \cup {"none"}]
      /\ rowLock' \in [Sessions -> Calls \cup {None}]
      /\ bootLock' \in BOOLEAN
      /\ control' \in [Sessions -> Calls \cup {None}]
  BY DEF CallTypeOK, Abandon, LetGo, Unlocked
<1> QED BY <1>1, LeaveKeepsType DEF Abandon, CallTypeOK

(* So does what follows a stop().                                          *)
LEMMA AfterStopKeepsType ==
    ASSUME CallTypeOK, NEW c \in Calls, AfterStop(c)
    PROVE  CallTypeOK'
<1>1. CASE Leave(c)
  BY <1>1, LeaveKeepsType DEF AfterStop, CallTypeOK
<1>2. CASE ~Leave(c)
  BY <1>2 DEF AfterStop, CallTypeOK, GoTo, Places
<1> QED BY <1>1, <1>2

(* So does every step of a call.                                           *)
LEMMA CallStepKeepsType ==
    ASSUME StreamIInv, NEW c \in Calls, CallStep(c)
    PROVE  CallTypeOK'
<1> USE DEF StreamIInv, GoTo, Places, Status, Live, Reusable
<1>1. CASE LockBootstrap(c)
  <2>1. CASE Leave(c)
    BY <1>1, <2>1, LeaveKeepsType DEF LockBootstrap, CallTypeOK
  <2>2. CASE ~Leave(c)
    BY <1>1, <2>2 DEF LockBootstrap, CallTypeOK
  <2> QED BY <2>1, <2>2
<1>2. CASE LockControl(c)
  <2> DEFINE already == kind[c] = "control disconnect" /\ row[target[c]] \in {"ENDED", "STOPPED"}
  <2>1. CASE already
    <3>1. Leave(c) /\ UNCHANGED <<control, row, rowLock, bootLock>>
      BY <1>2, <2>1 DEF LockControl
    <3> QED BY <3>1, LeaveKeepsType DEF CallTypeOK
  <2>2. CASE ~already
    <3>1. /\ control' = [control EXCEPT ![target[c]] = c]
          /\ loaded' = [loaded EXCEPT ![c] = row[target[c]]]
          /\ UNCHANGED <<kind, target, mine, written, row, rowLock, bootLock>>
      BY <1>2, <2>2 DEF LockControl
    <3>2. \E p \in Places : at' = [at EXCEPT ![c] = p]
      BY <1>2, <2>2 DEF LockControl
    <3>3. target[c] \in Sessions
      BY <1>2 DEF LockControl, HasTarget, KnowsTarget
    <3>4. loaded' \in [Calls -> Status \cup {"none"}] /\ at' \in [Calls -> Places]
      BY <3>1, <3>2, <3>3 DEF CallTypeOK
    <3> QED BY <3>1, <3>4 DEF CallTypeOK
  <2> QED BY <2>1, <2>2
<1>3. CASE CheckDuplicate(c)
  <2>1. CASE Abandon(c)
    BY <2>1, AbandonKeepsType
  <2>2. CASE ~Abandon(c)
    BY <1>3, <2>2 DEF CheckDuplicate, callData, Rows, CallTypeOK
  <2> QED BY <2>1, <2>2
<1>4. CASE PlaceRow(c)
  <2>1. FreshSessions # {} => FreshSession \in Sessions
    BY DEF FreshSession, FreshSessions
  <2> QED BY <1>4, <2>1 DEF PlaceRow, CallTypeOK
<1>5. CASE CheckConnect(c)
  <2>1. CASE Leave(c)
    BY <1>5, <2>1, LeaveKeepsType DEF CheckConnect, CallTypeOK
  <2>2. CASE ~Leave(c)
    <3>1. FreshSessions # {} => FreshSession \in Sessions
      BY DEF FreshSession, FreshSessions
    <3> QED BY <1>5, <2>2, <3>1 DEF CheckConnect, CallTypeOK
  <2> QED BY <2>1, <2>2
<1>6. CASE Find(c)
  <2>1. target[c] \in Sessions
    BY <1>6 DEF Find, HasTarget, KnowsTarget
  <2> QED BY ZenonT(60), <1>6, <2>1 DEF Find, CallTypeOK, WorkerIInv, WorkerTypeOK
<1>7. CASE StopNothing(c) \/ Stopped(c)
  BY <1>7, AfterStopKeepsType DEF StopNothing, Stopped
<1>8. CASE Stop(c) \/ StopTimesOut(c)
  BY <1>8 DEF Stop, StopTimesOut, callData, callVars, CallTypeOK
<1>9. CASE StartAgain(c) \/ StartWorker(c) \/ JoinRefused(c)
  BY <1>9 DEF StartAgain, StartWorker, JoinRefused, callData, CallTypeOK
<1>10. CASE Judge(c)
  BY <1>10 DEF Judge, CallTypeOK
<1>11. CASE Write(c)
  BY <1>11 DEF Write, CallTypeOK
<1>12. CASE Release(c)
  BY <1>12 DEF Release, LetGo, CallTypeOK
<1>13. CASE Commit(c)
  <2>1. row' \in [Sessions -> Status \cup {"none"}] /\ rowLock' \in [Sessions -> Calls \cup {None}]
    BY <1>13 DEF Commit, Unlocked, CallTypeOK
  <2>2. UNCHANGED <<bootLock, control>> /\ Leave(c)
    BY <1>13 DEF Commit
  <2> QED BY <2>1, <2>2, LeaveKeepsType DEF CallTypeOK
<1>14. CASE Unresolvable(c) \/ NotFound(c) \/ RestartRefused(c) \/ StartRefused(c)
             \/ LoseTransaction(c)
  BY <1>14, AbandonKeepsType DEF Unresolvable, NotFound, RestartRefused, StartRefused,
     LoseTransaction
<1> QED
  BY <1>1, <1>2, <1>3, <1>4, <1>5, <1>6, <1>7, <1>8, <1>9, <1>10, <1>11, <1>12, <1>13, <1>14
     DEF CallStep

(* The other calls keep their places.                                      *)
Alone(c) ==
    \A d \in Calls \ {c} :
        /\ at'[d] = at[d] /\ kind'[d] = kind[d]
        /\ target'[d] = target[d] /\ mine'[d] = mine[d] /\ loaded'[d] = loaded[d]

(* A call changes what it knows, never what another call knows.            *)
LEMMA CallStepIsAlone ==
    ASSUME StreamIInv, NEW c \in Calls, CallStep(c)
    PROVE  Alone(c)
<1> USE DEF StreamIInv, CallTypeOK, Alone, GoTo
<1>1. Leave(c) => Alone(c)
  BY DEF Leave
<1>2. Abandon(c) => Alone(c)
  BY <1>1 DEF Abandon
<1>3. AfterStop(c) => Alone(c)
  BY <1>1 DEF AfterStop
<1>4. CASE LockBootstrap(c)
  BY <1>1, <1>4 DEF LockBootstrap
<1>5. CASE LockControl(c)
  BY <1>1, <1>5 DEF LockControl
<1>6. CASE CheckDuplicate(c)
  BY <1>2, <1>6 DEF CheckDuplicate, callData
<1>7. CASE PlaceRow(c)
  BY <1>7 DEF PlaceRow
<1>8. CASE CheckConnect(c)
  BY <1>1, <1>8 DEF CheckConnect
<1>9. CASE Find(c) \/ Judge(c) \/ Write(c) \/ Release(c)
  BY <1>9 DEF Find, Judge, Write, Release
<1>10. CASE StopNothing(c) \/ Stopped(c)
  BY <1>3, <1>10 DEF StopNothing, Stopped
<1>11. CASE Stop(c) \/ StopTimesOut(c)
  BY <1>11 DEF Stop, StopTimesOut, callData, callVars
<1>12. CASE StartAgain(c) \/ StartWorker(c) \/ JoinRefused(c)
  BY <1>12 DEF StartAgain, StartWorker, JoinRefused, callData
<1>13. CASE Commit(c)
  BY <1>1, <1>13 DEF Commit
<1>14. CASE Unresolvable(c) \/ NotFound(c) \/ RestartRefused(c) \/ StartRefused(c)
             \/ LoseTransaction(c)
  BY <1>2, <1>14 DEF Unresolvable, NotFound, RestartRefused, StartRefused, LoseTransaction
<1> QED
  BY <1>4, <1>5, <1>6, <1>7, <1>8, <1>9, <1>10, <1>11, <1>12, <1>13, <1>14 DEF CallStep

(* A call that stops or starts a worker again has looked one up.           *)
LEMMA CallStepKnows ==
    ASSUME StreamIInv, NEW c \in Calls, CallStep(c)
    PROVE  KnowsTarget(c)' /\ KnowsWorker(c)'
<1> USE DEF GoTo, Controls, Restarters, Stoppers
<1>0. /\ CallTypeOK /\ WorkerTypeOK /\ TableIsSound /\ WorkerIInv
      /\ KnowsTarget(c) /\ KnowsWorker(c)
  BY DEF StreamIInv, WorkerIInv, HasTarget, HasWorker, KnowsTarget, KnowsWorker
<1>1. Leave(c) => KnowsTarget(c)' /\ KnowsWorker(c)'
  BY <1>0 DEF Leave, CallTypeOK, KnowsTarget, KnowsWorker
<1>2. Abandon(c) => KnowsTarget(c)' /\ KnowsWorker(c)'
  BY <1>1 DEF Abandon
<1>3. ASSUME at[c] \in {"stop", "stopping"}, AfterStop(c), session' = session
      PROVE  KnowsTarget(c)' /\ KnowsWorker(c)'
  BY <1>0, <1>1, <1>3 DEF AfterStop, CallTypeOK, KnowsTarget, KnowsWorker, Places
<1>4. CASE LockBootstrap(c)
  BY <1>0, <1>1, <1>4 DEF LockBootstrap, CallTypeOK, KnowsTarget, KnowsWorker
<1>5. CASE LockControl(c)
  BY <1>0, <1>1, <1>5 DEF LockControl, CallTypeOK, KnowsTarget, KnowsWorker, Places
<1>6. CASE CheckDuplicate(c)
  BY ZenonT(60), <1>0, <1>2, <1>6 DEF CheckDuplicate, callData, CallTypeOK, KnowsTarget, KnowsWorker,
     Rows
<1>7. CASE PlaceRow(c) \/ CheckConnect(c)
  <2>1. FreshSessions # {} => FreshSession \in Sessions
    BY DEF FreshSession, FreshSessions
  <2>2. CASE PlaceRow(c)
    <3>1. loaded[c] \in Reusable => target[c] \in Sessions
      BY <1>0 DEF KnowsTarget, Reusable
    <3> QED BY <1>0, <2>1, <2>2, <3>1 DEF PlaceRow, workerVars, CallTypeOK, KnowsTarget, KnowsWorker
  <2>3. CASE CheckConnect(c) /\ ~Leave(c)
    BY <1>0, <2>1, <2>3 DEF CheckConnect, workerVars, CallTypeOK, KnowsTarget, KnowsWorker
  <2> QED BY <1>1, <1>7, <2>2, <2>3
<1>8. CASE Find(c)
  <2>1. target[c] \in Sessions
    BY <1>0, <1>8 DEF Find, KnowsTarget, Places
  <2>2. table[target[c]] # None =>
           table[target[c]] \in Workers /\ session[table[target[c]]] # None
    BY <1>0, <2>1, WorkerAssumption DEF WorkerTypeOK, TableIsSound
  <2> QED BY <1>0, <1>8, <2>1, <2>2 DEF Find, workerVars, CallTypeOK, KnowsTarget, KnowsWorker
<1>9. CASE Stop(c)
  BY <1>0, <1>9 DEF Stop, BeginStop, callData, CallTypeOK, KnowsTarget, KnowsWorker, Places
<1>10. CASE StopTimesOut(c)
  BY <1>0, <1>10 DEF StopTimesOut, CancelLoop, callVars, CallTypeOK, KnowsTarget, KnowsWorker
<1>11. CASE StopNothing(c)
  BY <1>3, <1>11 DEF StopNothing, SkipStop, workerVars
<1>12. CASE Stopped(c)
  BY <1>3, <1>12 DEF Stopped, EndStop
<1>13. CASE StartAgain(c)
  BY <1>0, <1>13 DEF StartAgain, callData, CallTypeOK, KnowsTarget, KnowsWorker, Places
<1>14. CASE StartWorker(c) \/ JoinRefused(c) \/ Judge(c) \/ Write(c) \/ Release(c)
  BY <1>0, <1>14 DEF StartWorker, JoinRefused, Judge, Write, Release, CallTypeOK,
     KnowsTarget, KnowsWorker, Places
<1>15. CASE Commit(c)
  BY <1>1, <1>15 DEF Commit
<1>16. CASE Unresolvable(c) \/ NotFound(c) \/ RestartRefused(c) \/ StartRefused(c)
             \/ LoseTransaction(c)
  BY <1>2, <1>16 DEF Unresolvable, NotFound, RestartRefused, StartRefused, LoseTransaction
<1> QED
  BY <1>4, <1>5, <1>6, <1>7, <1>8, <1>9, <1>10, <1>11, <1>12, <1>13, <1>14, <1>15, <1>16
     DEF CallStep

(* A call comes in with the session it is about.                           *)
LEMMA ArriveKeepsInv ==
    ASSUME StreamIInv, NEW c \in Calls, Arrive(c)
    PROVE  CallTypeOK' /\ HasTarget' /\ HasWorker'
<1> USE DEF StreamIInv, GoTo
<1>1. CallTypeOK'
  BY DEF Arrive, CallTypeOK, Places, Rows
<1>2. /\ Alone(c) /\ UNCHANGED <<kind, mine, session>>
      /\ at'[c] \in {"check", "enter", "find"}
  BY DEF Arrive, CallTypeOK, Alone, workerVars
<1>3. KnowsTarget(c)'
  <2>1. loaded[c] # "none" => target[c] \in Sessions
    BY DEF HasTarget, KnowsTarget
  <2>2. CASE at'[c] # "find" /\ UNCHANGED <<target, loaded>> /\ kind[c] \notin Controls
    BY <1>2, <2>1, <2>2 DEF KnowsTarget
  <2>3. CASE target'[c] \in Sessions
    BY <2>3 DEF KnowsTarget
  <2>4. \/ at'[c] # "find" /\ UNCHANGED <<target, loaded>> /\ kind[c] \notin Controls
        \/ target'[c] \in Sessions
    BY DEF Arrive, CallTypeOK, Rows, Controls
  <2> QED BY <2>2, <2>3, <2>4
<1>4. HasTarget'
  BY <1>2, <1>3 DEF Alone, HasTarget, KnowsTarget
<1>5. HasWorker'
  BY <1>2 DEF Alone, HasWorker, KnowsWorker
<1> QED BY <1>1, <1>4, <1>5

(* Every step keeps all of it.                                             *)
LEMMA StreamStepKeepsInv == StreamIInv /\ [StreamNext]_allVars => StreamIInv'
<1> SUFFICES ASSUME StreamIInv, [StreamNext]_allVars PROVE StreamIInv'
  OBVIOUS
<1>1. [WorkerNext]_workerVars
  BY StreamStepIsWorkerStep
<1>2. WorkerIInv'
  BY <1>1, WorkerStepKeepsInv DEF StreamIInv
<1>3. \A w \in Workers : session[w] # None => session'[w] # None
  BY <1>1, SessionsStay DEF StreamIInv
<1>4. ASSUME UNCHANGED callVars PROVE CallTypeOK' /\ HasTarget' /\ HasWorker'
  BY <1>3, <1>4 DEF callVars, StreamIInv, CallTypeOK, HasTarget, KnowsTarget,
     HasWorker, KnowsWorker
<1>5. ASSUME NEW c \in Calls, CallStep(c) PROVE CallTypeOK' /\ HasTarget' /\ HasWorker'
  <2>1. CallTypeOK' /\ Alone(c) /\ KnowsTarget(c)' /\ KnowsWorker(c)'
    BY <1>5, CallStepKeepsType, CallStepIsAlone, CallStepKnows
  <2>2. \A d \in Calls : KnowsTarget(d)'
    BY <2>1 DEF Alone, KnowsTarget, StreamIInv, HasTarget
  <2>3. \A d \in Calls : KnowsWorker(d)'
    BY <1>3, <2>1 DEF Alone, KnowsWorker, StreamIInv, HasWorker
  <2> QED BY <2>1, <2>2, <2>3 DEF HasTarget, HasWorker, KnowsTarget, KnowsWorker
<1>6. ASSUME NEW c \in Calls, Arrive(c) PROVE CallTypeOK' /\ HasTarget' /\ HasWorker'
  BY <1>6, ArriveKeepsInv
<1>7. CASE BootLockExpires
  <2>1. CallTypeOK' /\ HasTarget' /\ HasWorker'
    BY <1>7 DEF BootLockExpires, workerVars, StreamIInv, CallTypeOK, HasTarget, KnowsTarget,
     HasWorker, KnowsWorker
  <2> QED BY <1>2, <2>1 DEF StreamIInv
<1> QED BY <1>2, <1>4, <1>5, <1>6, <1>7 DEF StreamNext, WorkerStep, allVars, StreamIInv

-----------------------------------------------------------------------------
(* The inductive invariant of StreamService, the control endpoint and the  *)
(* workers they manage.                                                    *)
THEOREM StreamInvariant == StreamSpec => []StreamIInv
BY CallInitInv, StreamStepKeepsInv, PTL DEF StreamSpec

(* Type correctness of the workers, the rows and the calls.                *)
THEOREM StreamsTyped == StreamSpec => []StreamTypeOK
<1>1. StreamIInv => StreamTypeOK
  BY DEF StreamIInv, WorkerIInv, StreamTypeOK
<1> QED BY <1>1, StreamInvariant, PTL

(* WorkerManager: whatever the services do, they do no more than any       *)
(* caller may do with the table and the workers.                           *)
THEOREM ServicesManageWorkers == StreamSpec => WorkerSpec
<1>1. StreamInit => WorkerInit
  BY DEF StreamInit
<1>2. StreamIInv /\ [StreamNext]_allVars => [WorkerNext]_workerVars
  BY StreamStepIsWorkerStep
<1> QED BY <1>1, <1>2, StreamInvariant, PTL DEF StreamSpec, WorkerSpec

(* Restarts, stops and failures in any order lose no worker at work.       *)
THEOREM NoWorkerIsLost == StreamSpec => []NoOrphan
<1>1. StreamIInv => NoOrphan
  BY DEF StreamIInv, WorkerIInv
<1> QED BY <1>1, StreamInvariant, PTL

(* A session that is refused a start has a task that is still running.     *)
THEOREM RefusalHasAReason == StreamSpec => []ActiveHasLoop
<1>1. StreamIInv => ActiveHasLoop
  BY DEF StreamIInv, WorkerIInv
<1> QED BY <1>1, StreamInvariant, PTL

(* The state ENDED is left alone: its task is over but for the finally     *)
(* clause, stop() finds nothing to do, and the object is never used again. *)
LEMMA WorkerStepKeepsEnded ==
    ASSUME WorkerIInv, [WorkerNext]_workerVars, NEW w \in Workers, state[w] = "ENDED"
    PROVE  state'[w] = "ENDED"
<1> USE DEF WorkerIInv, WorkerTypeOK, Become
<1>0. loop[w] \in {"closing", "done"} /\ session[w] # None
  BY DEF QuietHasLeft, MadeOnce
<1>1. CASE UNCHANGED workerVars
  BY <1>1 DEF workerVars
<1>2. ASSUME NEW s \in Sessions, NEW v \in Workers, NEW b \in BOOLEAN, StartSession(s, v, b)
      PROVE  state'[w] = "ENDED"
  BY <1>0, <1>2 DEF StartSession
<1>3. ASSUME NEW c \in Calls, NEW v \in Workers,
             BeginStop(c, v) \/ CancelLoop(c, v) \/ EndStop(c, v)
      PROVE  state'[w] = "ENDED"
  BY <1>3 DEF BeginStop, CancelLoop, EndStop
<1>4. ASSUME NEW v \in Workers, LoopStep(v)
      PROVE  state'[w] = "ENDED"
  BY <1>0, <1>4 DEF LoopStep, LoopBegin, Resolved, Unresolved, Batch, HeedStop, Offline, Fail,
     GiveUpOrPause, Reconnect, StopPause, Cancelled, Close
<1> QED BY <1>1, <1>2, <1>3, <1>4 DEF WorkerNext

(* The end of a broadcast stays on record.                                 *)
THEOREM EndStaysOnRecord == StreamSpec => EndedIsFinal
<1>1. StreamIInv /\ [StreamNext]_allVars =>
         [\A w \in Workers : state[w] = "ENDED" => state'[w] = "ENDED"]_workerVars
  BY StreamStepIsWorkerStep, WorkerStepKeepsEnded DEF StreamIInv
<1> QED BY <1>1, StreamInvariant, PTL DEF StreamSpec, EndedIsFinal

(* A call leaves stop() only when the worker has left its loop.            *)
LEMMA StopLeavesNoWorker ==
    ASSUME StreamIInv, [StreamNext]_allVars, NEW c \in Calls,
           at[c] \in {"stop", "stopping"}, at'[c] \notin {"stop", "stopping"}
    PROVE  loop'[mine[c]] \in {"closing", "done"}
<1> USE DEF StreamIInv, CallTypeOK
<1>1. mine[c] \in Workers /\ session[mine[c]] # None
  BY DEF HasWorker, KnowsWorker
<1>2. CASE CallStep(c)
  <2>1. StopNothing(c) \/ Stopped(c)
    BY <1>2 DEF CallStep, LockBootstrap, LockControl, CheckDuplicate, PlaceRow, Unresolvable,
       CheckConnect, Find, NotFound, Stop, StopTimesOut, callVars, GoTo, StartAgain,
       RestartRefused, StartWorker, StartRefused, JoinRefused, Judge, Write, Release, Commit,
       LoseTransaction
  <2>2. CASE StopNothing(c)
    BY <1>1, <2>2 DEF StopNothing, SkipStop, workerVars, WorkerIInv, QuietHasLeft
  <2>3. CASE Stopped(c)
    BY <2>3 DEF Stopped, EndStop
  <2> QED BY <2>1, <2>2, <2>3
<1>3. ASSUME NEW d \in Calls \ {c}, CallStep(d) \/ Arrive(d) PROVE FALSE
  <2>1. Arrive(d) => at'[c] = at[c]
    BY <1>3 DEF Arrive, GoTo
  <2> QED BY <1>3, <2>1, CallStepIsAlone DEF Alone
<1>4. ~Arrive(c)
  BY DEF Arrive
<1>5. (UNCHANGED allVars \/ BootLockExpires \/ \E w \in Workers : WorkerStep(w)) => at' = at
  BY DEF allVars, callVars, BootLockExpires, WorkerStep
<1> QED BY <1>2, <1>3, <1>4, <1>5 DEF StreamNext

(* StreamWorkerSession.stop: when it returns no message is taken any more. *)
THEOREM StopIsObeyed == StreamSpec => StopMeansStopped
<1>1. StreamIInv /\ [StreamNext]_allVars =>
         [\A c \in Calls :
             at[c] \in {"stop", "stopping"} /\ at'[c] \notin {"stop", "stopping"}
                => loop'[mine[c]] \in {"closing", "done"}]_allVars
  BY StopLeavesNoWorker
<1> QED BY <1>1, StreamInvariant, PTL DEF StreamSpec, StopMeansStopped
=============================================================================
