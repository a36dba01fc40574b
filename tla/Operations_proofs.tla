------------------------- MODULE Operations_proofs --------------------------
(***************************************************************************)
(* Theorems about moderation and operations: the ladder of the policy, a   *)
(* review and its action, the incidents of the health monitor, and the     *)
(* alerts of the operations log. Of a review the argument is the row lock: *)
(* from the flushed UPDATE to the end of its transaction a call is alone   *)
(* with the action. Of an incident, that its process alone can open        *)
(* another; of an alert, that it goes from hand to hand.                   *)
(***************************************************************************)
EXTENDS Review, Verdicts, Incidents, OpsLog, SequenceTheorems, FiniteSetTheorems, TLAPS

-----------------------------------------------------------------------------
(* Theorem: the ladder and the thresholds of the policy leave no gap and   *)
(* cross nowhere, whatever the numbers and however much a viewer is        *)
(* trusted.                                                                *)
THEOREM PolicyKeepsItsOrder ==
    ASSUME NEW c \in Nat, NEW s \in Nat, NEW t \in Strictness, NEW k \in Nat
    PROVE  MilderThanNext(c, s, t) /\ MilderThanNextTrusted(c, s, t, k)
<1> USE DEF Strictness, Milder, Judgement, Stricter, Tier, ReviewFrom, PunishFrom, ActionOf, Layer, Harshness
<1>1. Layer(s) \in 1..5 /\ Layer(s + 1) \in 1..5 /\ Layer(s) <= Layer(s + 1)
  OBVIOUS
<1>2. MilderThanNext(c, s, t)
  BY DEF MilderThanNext
<1>3. MilderThanNextTrusted(c, s, t, k)
  BY DEF MilderThanNextTrusted, Measure, Trusted
<1> QED
  BY <1>2, <1>3

(* Theorem: so it is of every message that evaluate_2d_policy is asked of, *)
(* for any scores of trust.                                                *)
THEOREM PolicyNeverCrosses == PolicySpec => []PolicyIsMonotone
<1> DEFINE Typed == judged \subseteq [confidence : Percent, strictness : Strictness]
<1>1. PolicyInit => Typed
  BY DEF PolicyInit
<1>2. Typed /\ [PolicyNext]_judged => Typed'
  BY DEF PolicyNext, Evaluate
<1>3. Typed => PolicyIsMonotone
  <2> SUFFICES ASSUME Typed, NEW j \in judged, NEW severity \in Percent
               PROVE  /\ MilderThanNext(j.confidence, severity, j.strictness)
                      /\ \A k \in Trusts : MilderThanNextTrusted(j.confidence, severity, j.strictness, k)
    BY DEF PolicyIsMonotone
  <2>1. j.confidence \in Nat /\ severity \in Nat /\ j.strictness \in Strictness
    BY DEF Percent
  <2>2. \A k \in Nat : /\ MilderThanNext(j.confidence, severity, j.strictness)
                       /\ MilderThanNextTrusted(j.confidence, severity, j.strictness, k)
    BY <2>1, PolicyKeepsItsOrder
  <2> QED
    BY <2>2, VerdictsAssumption
<1> QED
  BY <1>1, <1>2, <1>3, PTL DEF PolicySpec

-----------------------------------------------------------------------------
(* A ticket and its action, for any calls, actions and number of restarts. *)

Acting == {"lookup", "reserve", "execute"}

(* A call that decides on an action holds the row.                         *)
ActsLocked == \A c \in Calls : at[c] \in Acting => rowLock = c /\ verdict[c] = "APPROVED"

(* A reservation is about to be made where there is none, and what is      *)
(* about to be carried out is reserved and was not in this life of the     *)
(* process.                                                                *)
ReservesFresh == \A c \in Calls : at[c] = "reserve" => Unclaimed(Chosen[c])
ExecutesReserved ==
    \A c \in Calls : at[c] = "execute" => ~Unclaimed(Chosen[c]) /\ carried[Chosen[c]] <= restarts
FreshIsUndone == \A a \in Actions : Unclaimed(a) => carried[a] <= restarts

(* What is reserved has been carried out, or is about to be, or was cut    *)
(* off; so has what a call is about to commit.                             *)
Done(a) == carried[a] > 0 \/ a \in orphaned
ReservedIsDone ==
    \A a \in reserved : Done(a) \/ \E c \in Calls : at[c] = "execute" /\ Chosen[c] = a
CommitsDone ==
    \A c \in Calls : at[c] = "commit" /\ verdict[c] = "APPROVED" => Done(Chosen[c])

(* The news of a ticket is sent for a new one, and an approval that has    *)
(* been judged is one or comes too late.                                   *)
TellsOfNew == \A c \in Calls : at[c] = "notify" => verdict[c] = "PENDING" /\ Kind[c] = "create"
ApprovalsApprove ==
    \A c \in Calls : Kind[c] = "approve" /\ at[c] \in {"flush", "commit"} =>
                        verdict[c] \in {"APPROVED", "EXPIRED"}

(* What is on record as approved names its action.                         *)
ApprovedHasAction == review.status = "APPROVED" => review.action \in Actions

ReviewInv ==
    /\ ReviewTypeOK
    /\ ActsLocked
    /\ ReservesFresh
    /\ ExecutesReserved
    /\ FreshIsUndone
    /\ CarriedOutOnce
    /\ ReservedIsDone
    /\ CommitsDone
    /\ TellsOfNew
    /\ ApprovalsApprove
    /\ ApprovedHasAction
    /\ ApprovedIsSetAbout

-----------------------------------------------------------------------------
(* The type of the state is kept by every step.                            *)
LEMMA ReviewTypeStep ==
    ASSUME ReviewTypeOK, [Next]_vars
    PROVE  ReviewTypeOK'
<1> USE ReviewAssumption
<1> USE DEF ReviewTypeOK, ActionsTypeOK, Places, Statuses
<1>1. ASSUME NEW c \in Calls, Create(c) PROVE ReviewTypeOK'
  BY <1>1 DEF Create, Go, actionVars
<1>2. ASSUME NEW c \in Calls, Notify(c) PROVE ReviewTypeOK'
  BY <1>2 DEF Notify, Go, actionVars
<1>3. ASSUME NEW c \in Calls, Load(c) \/ Refuse(c) PROVE ReviewTypeOK'
  BY <1>3 DEF Load, Refuse, Judged, Go, actionVars
<1>4. ASSUME NEW c \in Calls, Flush(c) PROVE ReviewTypeOK'
  BY <1>4 DEF Flush, AfterFlush, Go, actionVars
<1>5. ASSUME NEW c \in Calls, LookUp(c) PROVE ReviewTypeOK'
  BY <1>5 DEF LookUp, Go, actionVars
<1>6. ASSUME NEW c \in Calls, Claim(c) PROVE ReviewTypeOK'
  BY <1>6 DEF Claim, Reserve, ReserveRefused, Go, actionVars
<1>7. ASSUME NEW c \in Calls, Execute(c) PROVE ReviewTypeOK'
  <2>1. deleted' \in BOOLEAN
    BY <1>7 DEF Execute, CarryOut
  <2>2. carried' \in [Actions -> Nat]
    BY <1>7 DEF Execute, CarryOut
  <2> QED
    BY <1>7, <2>1, <2>2 DEF Execute, CarryOut, Go
<1>8. ASSUME NEW c \in Calls, Commit(c) \/ Rollback(c) PROVE ReviewTypeOK'
  BY <1>8 DEF Commit, Rollback, Release, Go, actionVars
<1>9. ASSUME NEW c \in Calls, Fail(c) PROVE ReviewTypeOK'
  BY <1>9 DEF Fail, Orphan, Go, actionVars
<1>10. CASE Restart
  <2>1. {Chosen[c] : c \in {d \in Calls : at[d] = "execute"}} \subseteq Actions
    OBVIOUS
  <2>2. orphaned' \in SUBSET Actions /\ reserved' \in SUBSET Actions
    BY <1>10, <2>1 DEF Restart
  <2>3. at' \in [Calls -> Places]
    BY <1>10 DEF Restart
  <2>4. restarts' \in 0..MaxRestarts
    BY <1>10 DEF Restart
  <2> QED
    BY <1>10, <2>2, <2>3, <2>4 DEF Restart
<1>11. CASE Expire \/ UNCHANGED vars
  BY <1>11 DEF Expire, vars, reviewVars, actionVars
<1> QED
  BY <1>1, <1>2, <1>3, <1>4, <1>5, <1>6, <1>7, <1>8, <1>9, <1>10, <1>11 DEF Next, Step

(* No step undoes what has been carried out or cut off.                    *)
LEMMA DoneStays ==
    ASSUME ReviewTypeOK, [Next]_vars, NEW a \in Actions, Done(a)
    PROVE  Done(a)'
<1> USE DEF ReviewTypeOK, ActionsTypeOK, Done
<1>1. ASSUME NEW c \in Calls, Step(c) PROVE Done(a)'
  BY <1>1, ReviewAssumption DEF Step, Create, Notify, Load, Refuse, Flush, LookUp, Claim, Execute,
     Commit, Rollback, Reserve, ReserveRefused, CarryOut, actionVars
<1>2. ASSUME NEW c \in Calls, Fail(c) PROVE Done(a)'
  BY <1>2 DEF Fail, Orphan, actionVars
<1>3. CASE Restart \/ Expire
  BY <1>3 DEF Restart, Expire, actionVars
<1>4. CASE UNCHANGED vars
  BY <1>4 DEF vars, actionVars
<1> QED
  BY <1>1, <1>2, <1>3, <1>4 DEF Next

(* The calls one by one: who acts is alone with the action.                *)
LEMMA ReviewInvStep ==
    ASSUME ReviewInv, [Next]_vars
    PROVE  ReviewInv'
<1> USE ReviewAssumption
<1>t. ReviewTypeOK'
  BY ReviewTypeStep DEF ReviewInv
<1>d. \A a \in Actions : Done(a) => Done(a)'
  BY DoneStays DEF ReviewInv
<1> DEFINE Parts == /\ ActsLocked /\ ReservesFresh /\ ExecutesReserved /\ FreshIsUndone
                    /\ CarriedOutOnce /\ ReservedIsDone /\ CommitsDone /\ TellsOfNew
                    /\ ApprovalsApprove /\ ApprovedHasAction /\ ApprovedIsSetAbout
<1> SUFFICES Parts'
  BY <1>t DEF ReviewInv
<1> USE DEF ReviewInv, ReviewTypeOK, ActionsTypeOK, ActsLocked, ReservesFresh, ExecutesReserved,
            FreshIsUndone, CarriedOutOnce, ReservedIsDone, CommitsDone, TellsOfNew,
            ApprovalsApprove, ApprovedHasAction, ApprovedIsSetAbout, Acting, Unclaimed, Done
<1>1. ASSUME NEW c \in Calls, Create(c) \/ Notify(c) PROVE Parts'
  BY <1>1 DEF Create, Notify, Go, actionVars
<1>2. ASSUME NEW c \in Calls, Load(c) \/ Refuse(c) PROVE Parts'
  BY <1>2 DEF Load, Refuse, Judged, Go, actionVars
<1>3. ASSUME NEW c \in Calls, Flush(c) PROVE Parts'
  BY <1>3 DEF Flush, AfterFlush, Go, actionVars
<1>4. ASSUME NEW c \in Calls, LookUp(c) PROVE Parts'
  BY <1>4 DEF LookUp, Go, actionVars
<1>5. ASSUME NEW c \in Calls, Claim(c) PROVE Parts'
  BY <1>5 DEF Claim, Reserve, ReserveRefused, Go, actionVars
<1>6. ASSUME NEW c \in Calls, Execute(c) PROVE Parts'
  BY <1>6 DEF Execute, CarryOut, Go, actionVars
<1>7. ASSUME NEW c \in Calls, Commit(c) \/ Rollback(c) PROVE Parts'
  BY <1>7 DEF Commit, Rollback, Release, Go, actionVars
<1>8. ASSUME NEW c \in Calls, Fail(c) PROVE Parts'
  BY <1>8 DEF Fail, Orphan, Go, actionVars
<1>9. CASE Restart
  BY <1>9 DEF Restart
<1>10. CASE Expire \/ UNCHANGED vars
  BY <1>10 DEF Expire, vars, reviewVars, actionVars
<1> QED
  BY <1>1, <1>2, <1>3, <1>4, <1>5, <1>6, <1>7, <1>8, <1>9, <1>10 DEF Next, Step

(* The invariant holds of every state.                                     *)
LEMMA ReviewInvariant == Spec => []ReviewInv
<1>1. ASSUME Init PROVE ReviewInv
  <2> USE <1>1, ReviewAssumption DEF Init, ActionsInit
  <2>1. ReviewTypeOK
    <3>1. ActionsTypeOK
      BY DEF ActionsTypeOK
    <3>2. review \in [status : Statuses, action : Actions \cup {None}]
      BY DEF Statuses
    <3>3. at \in [Calls -> Places] /\ verdict \in [Calls -> Statuses]
      BY DEF Places, Statuses
    <3>4. restarts \in 0..MaxRestarts /\ rowLock \in Calls \cup {None}
      OBVIOUS
    <3> QED
      BY <3>1, <3>2, <3>3, <3>4 DEF ReviewTypeOK
  <2>2. ActsLocked /\ ReservesFresh /\ ExecutesReserved /\ CommitsDone /\ TellsOfNew /\ ApprovalsApprove
    BY DEF ActsLocked, ReservesFresh, ExecutesReserved, CommitsDone, TellsOfNew, ApprovalsApprove, Acting
  <2>3. FreshIsUndone /\ CarriedOutOnce /\ ReservedIsDone
    BY DEF FreshIsUndone, CarriedOutOnce, ReservedIsDone
  <2>4. ApprovedHasAction /\ ApprovedIsSetAbout
    BY DEF ApprovedHasAction, ApprovedIsSetAbout
  <2> QED
    BY <2>1, <2>2, <2>3, <2>4 DEF ReviewInv
<1>2. ReviewInv /\ [Next]_vars => ReviewInv'
  BY ReviewInvStep
<1> QED
  BY <1>1, <1>2, PTL DEF Spec

-----------------------------------------------------------------------------
(* An action is carried out at most once in the life of a process, however *)
(* many moderators approve it at once: execute_decision looks up and       *)
(* reserves in two awaits, under the row lock of the ticket.               *)
THEOREM NeverActedTwice == Spec => []CarriedOutOnce
BY ReviewInvariant, PTL DEF ReviewInv

(* A ticket that is committed as approved has had its action gone through  *)
(* with, and so has what a moderator was told he approved, or a call died  *)
(* between the reservation and the action.  Whether YouTube did what it    *)
(* was asked is not said: the service does not know.                       *)
THEOREM ApprovalIsNotIdle == Spec => []ApprovedIsSetAbout
BY ReviewInvariant, PTL DEF ReviewInv

-----------------------------------------------------------------------------
(* Incidents, for any processes, operators and number of failures.         *)

(* The incidents of a process that were never resolved.                    *)
Unresolved(m) == {i \in DOMAIN rows : rows[i].by = m /\ ~rows[i].left}

Incident == [status : IncidentStatuses, by : Monitors, left : BOOLEAN]

IncidentsTyped ==
    /\ stage \in [Monitors \cup Operators -> Stages]
    /\ row \in [Monitors \cup Operators -> Nat]
    /\ rows \in Seq(Incident)

(* An incident that was never resolved is active, so that the look for an  *)
(* active one does not miss it.                                            *)
UnresolvedIsActive == \A i \in DOMAIN rows : ~rows[i].left => rows[i].status \in Active

(* A process that is about to open an incident has none.                   *)
Opening(m) == stage[m] \in {"insert", "publish", "commit"} /\ row[m] = 0

OpensTheFirst == \A m \in Monitors : Opening(m) => Unresolved(m) = {}

(* One that is about to note a recurrence is not.                          *)
NotesOne == \A m \in Monitors : stage[m] = "note" => row[m] # 0

AtMostOne == \A m \in Monitors : \A i, j \in Unresolved(m) : i = j

IncidentsInv == IncidentsTyped /\ UnresolvedIsActive /\ OpensTheFirst /\ NotesOne /\ AtMostOne

(* Where the types of what a step assigns are seen.                        *)
LEMMA IncidentsTypedStep ==
    ASSUME IncidentsTyped, [IncidentsNext]_incidentVars
    PROVE  IncidentsTyped'
<1> USE IncidentsAssumption DEF IncidentsTyped
<1> DEFINE Actors == Monitors \cup Operators
<1>1. \A a \in Actors : \A place \in Stages : Enter(a, place) => stage' \in [Actors -> Stages]
  BY DEF Enter
<1>2. \A m \in Monitors : Rest(m) => stage' \in [Actors -> Stages] /\ row' \in [Actors -> Nat]
  BY DEF Rest, Stages
<1>3. \A o \in Operators : Finish(o) => stage' \in [Actors -> Stages] /\ row' \in [Actors -> Nat]
  BY DEF Finish, Stages
<1>4. {"look", "note", "insert", "publish", "commit", "write", "database"} \subseteq Stages
      /\ \A i \in DOMAIN Checks : Checks[i] \in Stages
  BY DEF Stages, Checks
<1>5. ASSUME NEW m \in Monitors, Wake(m) \/ Note(m) \/ Insert(m) \/ Publish(m) PROVE IncidentsTyped'
  BY <1>1, <1>4, <1>5 DEF Wake, Note, Insert, Publish
<1>6. ASSUME NEW m \in Monitors, Check(m) PROVE IncidentsTyped'
  <2>1. PICK i \in DOMAIN Checks : Enter(m, IF i < Len(Checks) THEN Checks[i + 1] ELSE "look")
                                  /\ UNCHANGED <<rows, row>>
    BY <1>6 DEF Check
  <2>2. i < Len(Checks) => i + 1 \in DOMAIN Checks
    BY DEF Checks
  <2> QED
    BY <1>1, <1>4, <2>1, <2>2
<1>7. ASSUME NEW m \in Monitors, Look(m) PROVE IncidentsTyped'
  <2>1. rows' = rows
    BY <1>7 DEF Look
  <2>2. stage' \in [Actors -> Stages]
    BY <1>1, <1>2, <1>4, <1>7 DEF Look, Report
  <2>3. row' \in [Actors -> Nat]
    <3>1. Rest(m) \/ row' = [row EXCEPT ![m] = 0] \/ \E i \in DOMAIN rows : row' = [row EXCEPT ![m] = i]
      BY <1>7 DEF Look, Report
    <3>2. \A i \in DOMAIN rows : i \in Nat
      OBVIOUS
    <3>3. CASE Rest(m)
      BY <1>2, <3>3
    <3>4. ASSUME NEW i \in Nat, row' = [row EXCEPT ![m] = i] PROVE row' \in [Actors -> Nat]
      BY <3>4
    <3> QED
      BY <3>1, <3>2, <3>3, <3>4
  <2> QED
    BY <2>1, <2>2, <2>3
<1>8. ASSUME NEW m \in Monitors, CommitReport(m) PROVE IncidentsTyped'
  <2> DEFINE new == [status |-> "OPEN", by |-> m, left |-> FALSE]
  <2>1. new \in Incident
    BY DEF Incident, IncidentStatuses, Active
  <2>2. Rest(m) /\ (rows' = rows \/ rows' = Append(rows, new))
    BY <1>8 DEF CommitReport
  <2> HIDE DEF new
  <2>3. rows \in Seq(Incident)
    OBVIOUS
  <2>4. Append(rows, new) \in Seq(Incident)
    BY <2>1, <2>3, AppendProperties
  <2>5. rows' \in Seq(Incident)
    BY <2>2, <2>3, <2>4
  <2> QED
    BY <1>2, <2>2, <2>5
<1>9. ASSUME NEW m \in Monitors, CycleFails(m) \/ ReportFails(m) \/ RestartMonitor(m) PROVE IncidentsTyped'
  BY <1>2, <1>9 DEF CycleFails, ReportFails, RestartMonitor
<1>10. ASSUME NEW o \in Operators, Read(o) PROVE IncidentsTyped'
  <2>1. PICK i \in DOMAIN rows : /\ \/ row' = [row EXCEPT ![o] = i] /\ Enter(o, "write")
                                   \/ Finish(o)
                                /\ UNCHANGED rows
    BY <1>10 DEF Read
  <2>2. i \in Nat
    BY <2>1
  <2>3. CASE row' = [row EXCEPT ![o] = i] /\ Enter(o, "write")
    <3>1. row' \in [Actors -> Nat]
      BY <2>2, <2>3
    <3> QED
      BY <1>1, <1>4, <2>1, <2>3, <3>1
  <2>4. CASE Finish(o)
    BY <1>3, <2>1, <2>4
  <2> QED
    BY <2>1, <2>3, <2>4
<1>11. ASSUME NEW o \in Operators, Write(o) \/ Publish(o) PROVE IncidentsTyped'
  BY <1>1, <1>4, <1>11 DEF Write, Publish
<1>12. ASSUME NEW o \in Operators, CommitStatus(o) PROVE IncidentsTyped'
  <2> DEFINE i == row[o]
             status == IF Target[o] = seen[o] THEN rows[i].status ELSE Target[o]
             after == [status |-> status, by |-> rows[i].by, left |-> rows[i].left \/ status \notin Active]
  <2>1. rows' = [rows EXCEPT ![i] = after] /\ Finish(o)
    BY <1>12 DEF CommitStatus
  <2>2. CASE i \in 1..Len(rows)
    <3>1. after \in Incident
      <4>1. rows[i] \in Incident
        BY <2>2
      <4>2. status \in IncidentStatuses
        BY <4>1 DEF Incident, IncidentStatuses, Active
      <4> HIDE DEF status
      <4>3. (rows[i].left \/ status \notin Active) \in BOOLEAN
        OBVIOUS
      <4> QED
        BY <4>1, <4>2, <4>3 DEF Incident
    <3> HIDE DEF after
    <3>2. rows' \in Seq(Incident)
      BY <2>1, <2>2, <3>1
    <3> QED
      BY <1>3, <2>1, <3>2
  <2>3. CASE i \notin 1..Len(rows)
    <3>1. rows' = rows
      BY <2>1, <2>3
    <3> QED
      BY <1>3, <2>1, <3>1
  <2> QED
    BY <2>2, <2>3
<1>13. ASSUME NEW o \in Operators, OperatorFails(o) PROVE IncidentsTyped'
  BY <1>3, <1>13 DEF OperatorFails
<1>14. CASE (\E i \in DOMAIN Checks : Change(Checks[i])) \/ UNCHANGED incidentVars
  BY <1>14 DEF Change, incidentVars
<1> QED
  BY <1>5, <1>6, <1>7, <1>8, <1>9, <1>10, <1>11, <1>12, <1>13, <1>14
  DEF IncidentsNext, Supervise, Request

(* What the operators and the other processes do to the incidents a        *)
(* process has not resolved: there may be fewer of them.                   *)
LEMMA NoMoreThanBefore ==
    ASSUME IncidentsTyped, UnresolvedIsActive, NEW o \in Operators, CommitStatus(o)
    PROVE  /\ \A m \in Monitors : Unresolved(m)' \subseteq Unresolved(m)
           /\ UnresolvedIsActive'
<1> USE DEF IncidentsTyped
<1> DEFINE i == row[o]
           status == IF Target[o] = seen[o] THEN rows[i].status ELSE Target[o]
           after == [status |-> status, by |-> rows[i].by, left |-> rows[i].left \/ status \notin Active]
<1>1. rows' = [rows EXCEPT ![i] = after]
  BY DEF CommitStatus
<1>2. /\ after.by = rows[i].by /\ after.status = status
      /\ ~after.left => ~rows[i].left /\ status \in Active
  OBVIOUS
<1> HIDE DEF after, status
<1>3. DOMAIN rows' = DOMAIN rows /\ \A k \in DOMAIN rows : rows'[k] = IF k = i THEN after ELSE rows[k]
  BY <1>1
<1> QED
  BY <1>2, <1>3 DEF Unresolved, UnresolvedIsActive

(* Only a process itself begins a report, and only it adds an incident of  *)
(* its own, which it has looked for before and which nobody else adds.     *)
LEMMA IncidentsInvStep ==
    ASSUME IncidentsInv, [IncidentsNext]_incidentVars
    PROVE  UnresolvedIsActive' /\ OpensTheFirst' /\ NotesOne' /\ AtMostOne'
<1> USE IncidentsAssumption DEF IncidentsInv
<1> DEFINE Goal == UnresolvedIsActive' /\ OpensTheFirst' /\ NotesOne' /\ AtMostOne'
           Same(n) == stage'[n] = stage[n] /\ row'[n] = row[n]
           Free(n) == ~Opening(n)' /\ stage'[n] # "note"
<1>1. ASSUME \A n \in Monitors : Unresolved(n)' \subseteq Unresolved(n), UnresolvedIsActive',
             \A n \in Monitors : Same(n) \/ Free(n)
      PROVE  Goal
  <2>1. AtMostOne'
    BY <1>1 DEF AtMostOne
  <2>2. OpensTheFirst'
    BY <1>1 DEF OpensTheFirst, Opening
  <2>3. NotesOne'
    BY <1>1 DEF NotesOne
  <2> QED
    BY <1>1, <2>1, <2>2, <2>3
<1>2. ASSUME rows' = rows
      PROVE  UnresolvedIsActive' /\ \A n \in Monitors : Unresolved(n)' = Unresolved(n)
  BY <1>2 DEF UnresolvedIsActive, Unresolved
<1>3. ASSUME NEW m \in Monitors, Rest(m) PROVE \A n \in Monitors : Same(n) \/ Free(n)
  BY <1>3 DEF Rest, IncidentsTyped, Opening
<1>4. ASSUME NEW o \in Operators, Finish(o) PROVE \A n \in Monitors : Same(n)
  BY <1>4 DEF Finish, IncidentsTyped
<1>5. ASSUME NEW a \in Monitors \cup Operators, NEW place, Enter(a, place)
      PROVE  stage'[a] = place /\ \A n \in Monitors \ {a} : stage'[n] = stage[n]
  BY <1>5 DEF Enter, IncidentsTyped
<1>6. ASSUME NEW m \in Monitors, Wake(m) \/ Check(m) PROVE Goal
  <2>1. rows' = rows /\ row' = row
    BY <1>6 DEF Wake, Check
  <2>2. \E place : Enter(m, place) /\ place \notin {"insert", "publish", "commit", "note"}
    <3>1. CASE Wake(m)
      BY <3>1 DEF Wake
    <3>2. CASE Check(m)
      <4>1. PICK i \in DOMAIN Checks : Enter(m, IF i < Len(Checks) THEN Checks[i + 1] ELSE "look")
        BY <3>2 DEF Check
      <4>2. (IF i < Len(Checks) THEN Checks[i + 1] ELSE "look") \notin {"insert", "publish", "commit", "note"}
        BY DEF Checks
      <4> QED
        BY <4>1, <4>2
    <3> QED
      BY <1>6, <3>1, <3>2
  <2>3. \A n \in Monitors : Same(n) \/ Free(n)
    BY <1>5, <2>1, <2>2 DEF Opening
  <2> QED
    BY <1>1, <1>2, <2>1, <2>3
<1>7. ASSUME NEW m \in Monitors, Look(m) PROVE Goal
  <2>1. rows' = rows
    BY <1>7 DEF Look
  <2>2. CASE Rest(m)
    BY <1>1, <1>2, <1>3, <2>1, <2>2
  <2>3. CASE ActiveRows = {} /\ Enter(m, "insert") /\ row' = [row EXCEPT ![m] = 0]
    <3>1. Unresolved(m)' = {}
      <4>1. Unresolved(m) \subseteq ActiveRows
        BY DEF ActiveRows, Unresolved, UnresolvedIsActive
      <4> QED
        BY <1>2, <2>1, <2>3, <4>1
    <3>2. stage'[m] = "insert" /\ \A n \in Monitors \ {m} : Same(n)
      BY <1>5, <2>3 DEF IncidentsTyped
    <3>3. OpensTheFirst'
      <4>1. ASSUME NEW n \in Monitors \ {m}, Opening(n)' PROVE Unresolved(n)' = {}
        BY <1>2, <2>1, <3>2, <4>1 DEF OpensTheFirst, Opening
      <4> QED
        BY <3>1, <4>1 DEF OpensTheFirst
    <3>4. NotesOne'
      BY <3>2 DEF NotesOne
    <3>5. AtMostOne'
      BY <1>2, <2>1 DEF AtMostOne
    <3> QED
      BY <1>2, <2>1, <3>3, <3>4, <3>5
  <2>4. ASSUME Enter(m, "note"), NEW i \in DOMAIN rows, row' = [row EXCEPT ![m] = i]
        PROVE  Goal
    <3>1. stage'[m] = "note" /\ \A n \in Monitors \ {m} : Same(n)
      BY <1>5, <2>4 DEF IncidentsTyped
    <3>2. row'[m] # 0
      BY <2>4 DEF IncidentsTyped
    <3>3. OpensTheFirst'
      <4>1. ASSUME NEW n \in Monitors, Opening(n)' PROVE Unresolved(n)' = {}
        BY <1>2, <2>1, <3>1, <4>1 DEF OpensTheFirst, Opening
      <4> QED
        BY <4>1 DEF OpensTheFirst
    <3>4. NotesOne'
      BY <3>1, <3>2 DEF NotesOne
    <3>5. AtMostOne'
      BY <1>2, <2>1 DEF AtMostOne
    <3> QED
      BY <1>2, <2>1, <3>3, <3>4, <3>5
  <2> QED
    BY <1>7, <2>2, <2>3, <2>4 DEF Look, Report
<1>8. ASSUME NEW m \in Monitors, Note(m) PROVE Goal
  <2>1. rows' = rows /\ row' = row /\ stage[m] = "note" /\ Enter(m, "commit")
    BY <1>8 DEF Note
  <2>2. row'[m] # 0
    BY <2>1 DEF NotesOne
  <2>3. \A n \in Monitors : Same(n) \/ Free(n)
    BY <1>5, <2>1, <2>2 DEF Opening
  <2> QED
    BY <1>1, <1>2, <2>1, <2>3
<1>9. ASSUME NEW m \in Monitors, Insert(m) \/ Publish(m) PROVE Goal
  <2>1. rows' = rows /\ row' = row /\ stage[m] \in {"insert", "publish"}
        /\ (Enter(m, "publish") \/ Enter(m, "commit"))
    BY <1>9 DEF Insert, Publish
  <2>2. stage'[m] \in {"publish", "commit"} /\ \A n \in Monitors \ {m} : Same(n)
    BY <1>5, <2>1
  <2>3. \A n \in Monitors : Opening(n)' => Opening(n)
    BY <2>1, <2>2 DEF Opening
  <2>4. OpensTheFirst'
    BY <1>2, <2>1, <2>3 DEF OpensTheFirst
  <2>5. NotesOne'
    BY <2>2 DEF NotesOne
  <2>6. AtMostOne'
    BY <1>2, <2>1 DEF AtMostOne
  <2> QED
    BY <1>2, <2>1, <2>4, <2>5, <2>6
<1>10. ASSUME NEW m \in Monitors, CommitReport(m) PROVE Goal
  <2>1. Rest(m)
    BY <1>10 DEF CommitReport
  <2>2. CASE row[m] # 0
    <3>1. rows' = rows
      BY <1>10, <2>2 DEF CommitReport
    <3> QED
      BY <1>1, <1>2, <1>3, <2>1, <3>1
  <2>3. CASE row[m] = 0
    <3> DEFINE new == [status |-> "OPEN", by |-> m, left |-> FALSE]
    <3>1. rows' = Append(rows, new) /\ Unresolved(m) = {}
      BY <1>10, <2>3 DEF CommitReport, OpensTheFirst, Opening
    <3>2. new.status \in Active /\ new.by = m
      BY DEF Active
    <3> HIDE DEF new
    <3>3. /\ DOMAIN rows' = DOMAIN rows \cup {Len(rows) + 1}
          /\ rows'[Len(rows) + 1] = new
          /\ \A k \in DOMAIN rows : rows'[k] = rows[k]
      BY <3>1 DEF IncidentsTyped
    <3>4. UnresolvedIsActive'
      BY <3>2, <3>3 DEF UnresolvedIsActive
    <3>5. Unresolved(m)' \subseteq {Len(rows) + 1} /\ \A n \in Monitors \ {m} : Unresolved(n)' \subseteq Unresolved(n)
      BY <3>1, <3>2, <3>3 DEF Unresolved
    <3>6. AtMostOne'
      BY <3>5 DEF AtMostOne
    <3>7. ~Opening(m)' /\ stage'[m] # "note" /\ \A n \in Monitors \ {m} : Same(n)
      BY <2>1 DEF Rest, IncidentsTyped, Opening
    <3>8. OpensTheFirst'
      <4>1. ASSUME NEW n \in Monitors \ {m}, Opening(n)' PROVE Unresolved(n)' = {}
        BY <3>5, <3>7, <4>1 DEF OpensTheFirst, Opening
      <4> QED
        BY <3>7, <4>1 DEF OpensTheFirst
    <3>9. NotesOne'
      BY <3>7 DEF NotesOne
    <3> QED
      BY <3>4, <3>6, <3>8, <3>9
  <2> QED
    BY <2>2, <2>3
<1>11. ASSUME NEW m \in Monitors, CycleFails(m) \/ ReportFails(m) \/ RestartMonitor(m) PROVE Goal
  BY <1>1, <1>2, <1>3, <1>11 DEF CycleFails, ReportFails, RestartMonitor
<1>12. ASSUME NEW o \in Operators, Read(o) \/ Write(o) \/ Publish(o) PROVE Goal
  <2>1. rows' = rows
    BY <1>12 DEF Read, Write, Publish
  <2>2. \/ Finish(o)
        \/ /\ \E place : Enter(o, place)
           /\ row' = row \/ \E i : row' = [row EXCEPT ![o] = i]
    <3>1. ASSUME Read(o) PROVE Finish(o) \/ (Enter(o, "write") /\ \E i : row' = [row EXCEPT ![o] = i])
      BY <3>1 DEF Read
    <3>2. CASE Write(o) \/ Publish(o)
      BY <3>2 DEF Write, Publish
    <3> QED
      BY <1>12, <3>1, <3>2
  <2>3. \A n \in Monitors : Same(n)
    BY <1>4, <1>5, <2>2 DEF IncidentsTyped
  <2> QED
    BY <1>1, <1>2, <2>1, <2>3
<1>13. ASSUME NEW o \in Operators, CommitStatus(o) PROVE Goal
  <2>1. Finish(o)
    BY <1>13 DEF CommitStatus
  <2> QED
    BY <1>1, <1>4, <1>13, <2>1, NoMoreThanBefore
<1>14. ASSUME NEW o \in Operators, OperatorFails(o) PROVE Goal
  BY <1>1, <1>2, <1>4, <1>14 DEF OperatorFails
<1>15. CASE (\E i \in DOMAIN Checks : Change(Checks[i])) \/ UNCHANGED incidentVars
  <2>1. UNCHANGED <<rows, stage, row>>
    BY <1>15 DEF Change, incidentVars
  <2> QED
    BY <1>1, <1>2, <2>1
<1> QED
  BY <1>6, <1>7, <1>8, <1>9, <1>10, <1>11, <1>12, <1>13, <1>14, <1>15
  DEF IncidentsNext, Supervise, Request

(* NoSecondByTheSame for any processes and operators: while an incident    *)
(* that a process has opened was never resolved, the process does not open *)
(* another, however its looks, its inserts and the operators interleave.   *)
THEOREM OneIncidentAtATime == IncidentsSpec => []NoSecondByTheSame
<1>1. IncidentsInit => IncidentsInv
  BY IncidentsAssumption
  DEF IncidentsInit, IncidentsInv, IncidentsTyped, UnresolvedIsActive, OpensTheFirst, Opening,
      NotesOne, AtMostOne, Unresolved, Stages
<1>2. IncidentsInv /\ [IncidentsNext]_incidentVars => IncidentsInv'
  BY IncidentsTypedStep, IncidentsInvStep DEF IncidentsInv
<1>3. IncidentsInv => NoSecondByTheSame
  <2> SUFFICES ASSUME IncidentsInv, NEW m \in Monitors
               PROVE  Cardinality({i \in ActiveRows : rows[i].by = m /\ ~rows[i].left}) <= 1
    BY DEF NoSecondByTheSame
  <2> DEFINE mine == {i \in ActiveRows : rows[i].by = m /\ ~rows[i].left}
  <2>1. \A i, j \in mine : i = j
    BY DEF IncidentsInv, AtMostOne, Unresolved, ActiveRows
  <2> HIDE DEF mine
  <2>2. mine = {} \/ \E i : mine = {i}
    BY <2>1
  <2>3. Cardinality(mine) = 0 \/ Cardinality(mine) = 1
    BY <2>2, FS_EmptySet, FS_Singleton
  <2> QED
    BY <2>3 DEF mine
<1> QED
  BY <1>1, <1>2, <1>3, PTL DEF IncidentsSpec

-----------------------------------------------------------------------------
(* Alerts, for any alerts, drains and sizes of the queue.                  *)

(* A full queue shows what it gives up, and takes what comes.              *)
LEMMA EnqueueKeeps ==
    ASSUME OpsLogTypeOK, NEW b \in Alerts, Enqueue(b)
    PROVE  /\ b \in Range(backlog')
           /\ Range(backlog) \subseteq Range(backlog') \cup displaced'
           /\ displaced \subseteq displaced'
           /\ backlog' \in Seq(Alerts) /\ Len(backlog') <= BacklogMax /\ displaced' \in SUBSET Alerts
<1> USE OpsLogAssumption DEF OpsLogTypeOK
<1>1. CASE Len(backlog) < BacklogMax
  <2>1. backlog' = Append(backlog, b) /\ displaced' = displaced
    BY <1>1 DEF Enqueue
  <2>2. /\ Len(backlog') = Len(backlog) + 1 /\ backlog' \in Seq(Alerts)
        /\ \A i \in 1..Len(backlog) : backlog'[i] = backlog[i]
        /\ backlog'[Len(backlog) + 1] = b
    BY <2>1
  <2>3. Len(backlog) + 1 \in DOMAIN backlog' /\ DOMAIN backlog \subseteq DOMAIN backlog'
    BY <2>2
  <2>4. Len(backlog') <= BacklogMax
    BY <1>1, <2>2
  <2>5. DOMAIN backlog = 1..Len(backlog)
    OBVIOUS
  <2> QED
    BY <2>1, <2>2, <2>3, <2>4, <2>5 DEF Range
<1>2. CASE ~(Len(backlog) < BacklogMax)
  <2> DEFINE t == Tail(backlog)
  <2>1. backlog' = Append(t, b) /\ displaced' = displaced \cup {Head(backlog)}
    BY <1>2 DEF Enqueue
  <2>2. backlog # <<>> /\ Len(backlog) \in Nat
    BY <1>2
  <2>3. /\ Head(backlog) = backlog[1] /\ Head(backlog) \in Alerts
        /\ t \in Seq(Alerts) /\ Len(t) = Len(backlog) - 1
        /\ \A i \in 1..Len(t) : t[i] = backlog[i + 1]
    BY <2>2, HeadTailProperties
  <2> HIDE DEF t
  <2>4. /\ Len(backlog') = Len(backlog) /\ backlog' \in Seq(Alerts)
        /\ \A i \in 1..Len(t) : backlog'[i] = t[i]
        /\ backlog'[Len(backlog)] = b
    BY <2>1, <2>2, <2>3
  <2>5. b \in Range(backlog')
    <3>1. Len(backlog) \in DOMAIN backlog'
      BY <2>2, <2>4
    <3> QED
      BY <2>4, <3>1 DEF Range
  <2>6. ASSUME NEW i \in DOMAIN backlog PROVE backlog[i] \in Range(backlog') \cup displaced'
    <3>1. CASE i = 1
      BY <2>1, <2>3, <3>1
    <3>2. CASE i # 1
      <4>1. i - 1 \in 1..Len(t) /\ (i - 1) + 1 = i
        BY <2>2, <2>3, <3>2
      <4>2. backlog'[i - 1] = backlog[i] /\ i - 1 \in DOMAIN backlog'
        BY <2>2, <2>3, <2>4, <4>1
      <4> QED
        BY <4>2 DEF Range
    <3> QED
      BY <3>1, <3>2
  <2>7. Range(backlog) \subseteq Range(backlog') \cup displaced'
    BY <2>6 DEF Range
  <2> QED
    BY <2>1, <2>3, <2>4, <2>5, <2>7
<1> QED
  BY <1>1, <1>2

(* What is not the first of a queue is in the rest of it.                  *)
LEMMA FirstOrInTheRest ==
    ASSUME NEW S, NEW s \in Seq(S), s # <<>>
    PROVE  /\ Range(s) \subseteq {Head(s)} \cup Range(Tail(s))
           /\ Head(s) \in S /\ Tail(s) \in Seq(S) /\ Len(Tail(s)) < Len(s)
<1>1. /\ Head(s) = s[1] /\ Head(s) \in S /\ Tail(s) \in Seq(S) /\ Len(Tail(s)) = Len(s) - 1
      /\ \A i \in 1..Len(Tail(s)) : Tail(s)[i] = s[i + 1]
  BY HeadTailProperties
<1>2. ASSUME NEW i \in DOMAIN s, i # 1 PROVE s[i] \in Range(Tail(s))
  <2>1. i - 1 \in 1..Len(Tail(s)) /\ (i - 1) + 1 = i
    BY <1>1, <1>2
  <2>2. i - 1 \in DOMAIN Tail(s) /\ Tail(s)[i - 1] = s[i]
    BY <1>1, <2>1
  <2> QED
    BY <2>2 DEF Range
<1>3. Range(s) \subseteq {Head(s)} \cup Range(Tail(s))
  BY <1>1, <1>2 DEF Range
<1>4. Len(s) \in Nat
  OBVIOUS
<1> QED
  BY <1>1, <1>3, <1>4

(* A drain has one message in its hand, or none.                           *)
OneInHand == \A d \in Drains : drain[d].hand = <<>> \/ \E a \in Alerts : drain[d].hand = <<a>>

(* An alert that was let through is somewhere.                             *)
Kept(a) ==
    \/ a \in delivered \cup displaced \cup Range(backlog)
    \/ \E d \in Drains : drain[d].hand = <<a>> \/ a \in dropped[d]
AllKept == \A a \in Alerts : post[a] = "over" => Kept(a)

(* It is in one place only of the queue, the hands and what was given up.  *)
Waiting == Range(backlog) \cup displaced
OnePlace ==
    /\ \A i, j \in DOMAIN backlog : backlog[i] = backlog[j] => i = j
    /\ Range(backlog) \cap displaced = {}
    /\ \A d \in Drains, a \in Alerts : drain[d].hand = <<a>> => a \notin Waiting /\ post[a] = "over"
    /\ \A d, e \in Drains, a \in Alerts : drain[d].hand = <<a>> /\ drain[e].hand = <<a>> => d = e
    /\ \A a \in Waiting : post[a] = "over"

(* A drain whose request raised is over.                                   *)
DropsOne ==
    \A d \in Drains : dropped[d] # {} =>
        drain[d].left = 0 /\ drain[d].hand = <<>> /\ \E a \in Alerts : dropped[d] = {a}

(* The queue was full of others when it gave up the last.                  *)
Surplus == displaced # {} => Cardinality(displaced) + BacklogMax <= Cardinality(Sent)

OpsLogInv == OpsLogTypeOK /\ OneInHand /\ AllKept /\ OnePlace /\ DropsOne /\ Surplus

(* The type of the state is kept by every step.                            *)
LEMMA OpsLogTypeStep ==
    ASSUME OpsLogTypeOK, OneInHand, [OpsLogNext]_opsVars
    PROVE  OpsLogTypeOK' /\ OneInHand'
<1> USE OpsLogAssumption DEF OpsLogTypeOK, OneInHand
<1>1. ASSUME NEW a \in Alerts, Send(a) PROVE OpsLogTypeOK' /\ OneInHand'
  BY <1>1 DEF Send, Range
<1>2. ASSUME NEW a \in Alerts, Posted(a) PROVE OpsLogTypeOK' /\ OneInHand'
  <2>1. backlog' \in Seq(Alerts) /\ Len(backlog') <= BacklogMax /\ displaced' \in SUBSET Alerts
    BY <1>2, EnqueueKeeps DEF Posted
  <2> QED
    BY <1>2, <2>1 DEF Posted
<1>3. ASSUME NEW k \in Range(KindOf), CooldownOver(k) PROVE OpsLogTypeOK' /\ OneInHand'
  BY <1>3 DEF CooldownOver
<1>4. ASSUME NEW d \in Drains, Take(d) PROVE OpsLogTypeOK' /\ OneInHand'
  <2>1. /\ Head(backlog) \in Alerts /\ backlog' \in Seq(Alerts) /\ Len(backlog') < Len(backlog)
        /\ Len(backlog) \in Nat /\ Len(backlog') \in Nat
    BY <1>4, FirstOrInTheRest DEF Take
  <2>2. Len(backlog') <= BacklogMax
    BY <2>1
  <2>3. drain' = [drain EXCEPT ![d] = [hand |-> <<Head(backlog)>>, left |-> drain[d].left - 1]]
    BY <1>4 DEF Take
  <2>4. drain[d].left - 1 \in 0..DrainMax /\ <<Head(backlog)>> \in Seq(Alerts)
    BY <1>4, <2>1 DEF Take
  <2>5. drain' \in [Drains -> [hand : Seq(Alerts), left : 0..DrainMax]]
    BY <2>3, <2>4
  <2>6. OneInHand'
    BY <2>1, <2>3
  <2> QED
    BY <1>4, <2>1, <2>2, <2>5, <2>6 DEF Take
<1>5. ASSUME NEW d \in Drains, Drained(d) PROVE OpsLogTypeOK' /\ OneInHand'
  <2> DEFINE a == Head(drain[d].hand)
  <2>1. a \in Alerts
    BY <1>5, FirstOrInTheRest DEF Drained
  <2>2. \E left \in 0..DrainMax : drain' = [drain EXCEPT ![d] = [hand |-> <<>>, left |-> left]]
    BY <1>5 DEF Drained
  <2>3. drain' \in [Drains -> [hand : Seq(Alerts), left : 0..DrainMax]] /\ OneInHand'
    BY <2>2
  <2>4. backlog' \in Seq(Alerts) /\ Len(backlog') <= BacklogMax /\ displaced' \in SUBSET Alerts
    BY <1>5, <2>1, EnqueueKeeps DEF Drained
  <2>5. delivered' \in SUBSET Alerts
    BY <1>5, <2>1 DEF Drained
  <2>6. dropped' = dropped \/ dropped' = [dropped EXCEPT ![d] = @ \cup {a}]
    BY <1>5 DEF Drained
  <2> HIDE DEF a
  <2>7. dropped' \in [Drains -> SUBSET Alerts]
    <3>1. dropped[d] \cup {a} \in SUBSET Alerts
      BY <2>1
    <3> HIDE DEF OneInHand
    <3> QED
      BY <2>6, <3>1
  <2>8. UNCHANGED <<post, recent>>
    BY <1>5 DEF Drained
  <2> QED
    BY <2>3, <2>4, <2>5, <2>7, <2>8
<1>6. CASE UNCHANGED opsVars
  BY <1>6 DEF opsVars
<1> QED
  BY <1>1, <1>2, <1>3, <1>4, <1>5, <1>6 DEF OpsLogNext

(* What comes into the queue is new to it; what leaves it is given up, and *)
(* then the queue is full.                                                 *)
LEMMA EnqueueOnce ==
    ASSUME OpsLogTypeOK, NEW b \in Alerts, b \notin Waiting, Enqueue(b),
           \A i, j \in DOMAIN backlog : backlog[i] = backlog[j] => i = j,
           Range(backlog) \cap displaced = {}
    PROVE  /\ \A i, j \in DOMAIN backlog' : backlog'[i] = backlog'[j] => i = j
           /\ Range(backlog') \cap displaced' = {}
           /\ Waiting' = Waiting \cup {b}
           /\ displaced' = displaced \/ Len(backlog') = BacklogMax
<1> USE OpsLogAssumption DEF OpsLogTypeOK
<1>0. DOMAIN backlog = 1..Len(backlog) /\ Len(backlog) \in Nat /\ \A i \in DOMAIN backlog : backlog[i] # b
  BY DEF Waiting, Range
<1>1. CASE Len(backlog) < BacklogMax
  <2>1. backlog' = Append(backlog, b) /\ displaced' = displaced
    BY <1>1 DEF Enqueue
  <2>2. /\ DOMAIN backlog' = 1..Len(backlog) + 1 /\ backlog'[Len(backlog) + 1] = b
        /\ \A i \in 1..Len(backlog) : backlog'[i] = backlog[i]
    BY <2>1
  <2>3. Range(backlog') = Range(backlog) \cup {b}
    BY <1>0, <2>2 DEF Range
  <2>4. ASSUME NEW i \in DOMAIN backlog', NEW j \in DOMAIN backlog', backlog'[i] = backlog'[j] PROVE i = j
    BY <1>0, <2>2, <2>4
  <2> QED
    BY <2>1, <2>3, <2>4 DEF Waiting
<1>2. CASE ~(Len(backlog) < BacklogMax)
  <2> DEFINE t == Tail(backlog)
  <2>1. backlog' = Append(t, b) /\ displaced' = displaced \cup {Head(backlog)}
    BY <1>2 DEF Enqueue
  <2>2. /\ Len(backlog) = BacklogMax /\ Len(backlog) >= 1 /\ Head(backlog) = backlog[1]
        /\ t \in Seq(Alerts) /\ Len(t) = Len(backlog) - 1
        /\ \A i \in 1..Len(t) : t[i] = backlog[i + 1]
    <3>1. Len(backlog) = BacklogMax /\ Len(backlog) >= 1 /\ backlog # <<>>
      <4>1. Len(backlog) <= BacklogMax /\ BacklogMax \in Nat /\ BacklogMax >= 1
        OBVIOUS
      <4>2. \A m, n \in Nat : ~(m < n) /\ m <= n /\ n >= 1 => m = n /\ m >= 1
        OBVIOUS
      <4>3. Len(backlog) = BacklogMax /\ Len(backlog) >= 1
        BY <1>0, <1>2, <4>1, <4>2, Zenon
      <4> QED
        BY <4>3
    <3> QED
      BY <3>1, HeadTailProperties
  <2> HIDE DEF t
  <2>3. /\ Len(backlog') = BacklogMax /\ DOMAIN backlog' = 1..Len(backlog) /\ backlog'[Len(backlog)] = b
        /\ \A i \in 1..Len(backlog) - 1 : backlog'[i] = backlog[i + 1]
    BY <2>1, <2>2
  <2>4. Range(backlog') = (Range(backlog) \ {backlog[1]}) \cup {b}
    <3>1. ASSUME NEW x \in Range(backlog) \ {backlog[1]} PROVE x \in Range(backlog')
      <4>1. PICK i \in DOMAIN backlog : backlog[i] = x
        BY <3>1 DEF Range
      <4>2. i - 1 \in 1..Len(backlog) - 1 /\ (i - 1) + 1 = i
        BY <1>0, <3>1, <4>1
      <4>3. backlog'[i - 1] = x /\ i - 1 \in DOMAIN backlog'
        BY <2>3, <4>1, <4>2
      <4> QED
        BY <4>3 DEF Range
    <3>2. ASSUME NEW x \in Range(backlog') PROVE x \in (Range(backlog) \ {backlog[1]}) \cup {b}
      <4>1. PICK i \in 1..Len(backlog) : backlog'[i] = x
        BY <2>3, <3>2 DEF Range
      <4>2. CASE i = Len(backlog)
        BY <2>3, <4>1, <4>2
      <4>3. CASE i # Len(backlog)
        <5>1. x = backlog[i + 1] /\ i + 1 \in DOMAIN backlog /\ 1 \in DOMAIN backlog /\ i + 1 # 1
          BY <1>0, <2>2, <2>3, <4>1, <4>3
        <5> QED
          BY <5>1 DEF Range
      <4> QED
        BY <4>2, <4>3
    <3>3. b \in Range(backlog')
      <4>1. Len(backlog) \in DOMAIN backlog'
        BY <1>0, <2>2, <2>3
      <4> QED
        BY <2>3, <4>1 DEF Range
    <3> QED
      BY <3>1, <3>2, <3>3
  <2>5. ASSUME NEW i \in DOMAIN backlog', NEW j \in DOMAIN backlog', backlog'[i] = backlog'[j] PROVE i = j
    <3>1. \A n \in 1..Len(backlog) - 1 : n + 1 \in DOMAIN backlog /\ n + 1 \in Nat
      BY <1>0
    <3>2. i \in 1..Len(backlog) /\ j \in 1..Len(backlog)
      BY <2>3
    <3>3. CASE i = Len(backlog) \/ j = Len(backlog)
      <4>1. \A n \in 1..Len(backlog) - 1 : backlog'[n] # b
        BY <1>0, <2>3, <3>1
      <4>2. backlog'[i] = b /\ backlog'[j] = b
        BY <2>3, <2>5, <3>3
      <4>3. i \notin 1..Len(backlog) - 1 /\ j \notin 1..Len(backlog) - 1
        BY <4>1, <4>2
      <4> QED
        BY <1>0, <3>2, <4>3
    <3>4. CASE i # Len(backlog) /\ j # Len(backlog)
      <4>1. i \in 1..Len(backlog) - 1 /\ j \in 1..Len(backlog) - 1
        BY <1>0, <3>2, <3>4
      <4>2. backlog[i + 1] = backlog[j + 1]
        BY <2>3, <2>5, <4>1
      <4>3. i + 1 = j + 1
        BY <3>1, <4>1, <4>2
      <4> QED
        BY <4>1, <4>3
    <3> QED
      BY <3>3, <3>4
  <2>6. backlog[1] \in Range(backlog) /\ backlog[1] # b
    <3>1. 1 \in DOMAIN backlog
      BY <1>0, <2>2
    <3> QED
      BY <1>0, <3>1 DEF Range
  <2>7. Range(backlog') \cap displaced' = {} /\ Waiting' = Waiting \cup {b}
    BY <2>1, <2>2, <2>4, <2>6 DEF Waiting
  <2> QED
    BY <2>3, <2>5, <2>7
<1> QED
  BY <1>1, <1>2

(* What a drain takes is no longer in the queue.                           *)
LEMMA TakenOnce ==
    ASSUME OpsLogTypeOK, backlog # <<>>, backlog' = Tail(backlog),
           \A i, j \in DOMAIN backlog : backlog[i] = backlog[j] => i = j
    PROVE  /\ \A i, j \in DOMAIN backlog' : backlog'[i] = backlog'[j] => i = j
           /\ Range(backlog') = Range(backlog) \ {Head(backlog)}
           /\ Head(backlog) \in Range(backlog)
<1> USE DEF OpsLogTypeOK
<1>1. /\ Head(backlog) = backlog[1] /\ Len(backlog) \in Nat /\ Len(backlog) >= 1
      /\ DOMAIN backlog = 1..Len(backlog) /\ DOMAIN backlog' = 1..Len(backlog) - 1
      /\ \A i \in 1..Len(backlog) - 1 : backlog'[i] = backlog[i + 1]
  OBVIOUS
<1>2. \A n \in 1..Len(backlog) - 1 : n + 1 \in DOMAIN backlog /\ n + 1 # 1
  BY <1>1
<1>3. ASSUME NEW i \in DOMAIN backlog', NEW j \in DOMAIN backlog', backlog'[i] = backlog'[j] PROVE i = j
  <2>1. i \in 1..Len(backlog) - 1 /\ j \in 1..Len(backlog) - 1 /\ backlog[i + 1] = backlog[j + 1]
    BY <1>1, <1>3
  <2>2. i + 1 = j + 1
    BY <1>2, <2>1
  <2> QED
    BY <2>1, <2>2
<1>4. Head(backlog) \in Range(backlog)
  BY <1>1 DEF Range
<1>5. ASSUME NEW x \in Range(backlog') PROVE x \in Range(backlog) \ {Head(backlog)}
  <2>1. PICK i \in 1..Len(backlog) - 1 : backlog'[i] = x
    BY <1>1, <1>5 DEF Range
  <2>2. x = backlog[i + 1] /\ i + 1 \in DOMAIN backlog /\ 1 \in DOMAIN backlog /\ i + 1 # 1
    BY <1>1, <1>2, <2>1
  <2> QED
    BY <1>1, <2>2 DEF Range
<1>6. ASSUME NEW x \in Range(backlog) \ {Head(backlog)} PROVE x \in Range(backlog')
  BY <1>6, FirstOrInTheRest
<1> QED
  BY <1>3, <1>4, <1>5, <1>6

(* An alert stays in one place, and somewhere, from hand to hand.          *)
LEMMA PlacesStep ==
    ASSUME OpsLogInv, [OpsLogNext]_opsVars
    PROVE  AllKept' /\ OnePlace' /\ DropsOne'
<1> USE DEF OpsLogInv, OpsLogTypeOK
<1>e. \A x : <<x>> # <<>>
  OBVIOUS
<1>1. ASSUME NEW b \in Alerts, Send(b) PROVE AllKept' /\ OnePlace' /\ DropsOne'
  <2>1. /\ \A a \in Alerts : post'[a] = "over" <=> post[a] = "over"
        /\ UNCHANGED <<backlog, drain, delivered, displaced, dropped>>
    BY <1>1 DEF Send
  <2>2. AllKept'
    BY <2>1 DEF AllKept, Kept
  <2>3. \A a \in Waiting : a \in Alerts
    BY DEF Waiting, Range
  <2>4. OnePlace'
    BY <2>1, <2>3 DEF OnePlace, Waiting
  <2>5. DropsOne'
    BY <2>1 DEF DropsOne
  <2> QED
    BY <2>2, <2>4, <2>5
<1>2. ASSUME NEW b \in Alerts, Posted(b) PROVE AllKept' /\ OnePlace' /\ DropsOne'
  <2>1. /\ post[b] # "over" /\ post' = [post EXCEPT ![b] = "over"] /\ UNCHANGED <<drain, dropped>>
        /\ delivered \subseteq delivered'
        /\ \/ b \in delivered' /\ UNCHANGED <<backlog, displaced>>
           \/ Enqueue(b)
    BY <1>2 DEF Posted
  <2>2. b \notin Waiting /\ \A d \in Drains : drain[d].hand # <<b>>
    BY <2>1 DEF OnePlace
  <2>3. /\ \A i, j \in DOMAIN backlog' : backlog'[i] = backlog'[j] => i = j
        /\ Range(backlog') \cap displaced' = {}
        /\ Waiting \subseteq Waiting' /\ Waiting' \subseteq Waiting \cup {b}
        /\ b \in delivered' \cup Waiting'
    <3>1. CASE Enqueue(b)
      BY <2>2, <3>1, EnqueueOnce DEF OnePlace
    <3>2. CASE b \in delivered' /\ UNCHANGED <<backlog, displaced>>
      BY <3>2 DEF OnePlace, Waiting
    <3> QED
      BY <2>1, <3>1, <3>2
  <2>4. AllKept'
    BY <2>1, <2>3 DEF AllKept, Kept, Waiting
  <2>5. /\ \A d \in Drains, a \in Alerts : drain'[d].hand = <<a>> => a \notin Waiting' /\ post'[a] = "over"
        /\ \A a \in Waiting' : post'[a] = "over"
    BY <2>1, <2>2, <2>3 DEF OnePlace, Waiting
  <2>6. OnePlace'
    BY <2>1, <2>3, <2>5 DEF OnePlace
  <2>7. DropsOne'
    BY <2>1 DEF DropsOne
  <2> QED
    BY <2>4, <2>6, <2>7
<1>3. ASSUME NEW d \in Drains, Take(d) PROVE AllKept' /\ OnePlace' /\ DropsOne'
  <2> DEFINE h == Head(backlog)
  <2>1. /\ drain[d].hand = <<>> /\ drain[d].left > 0 /\ backlog # <<>> /\ backlog' = Tail(backlog)
        /\ drain' = [drain EXCEPT ![d] = [hand |-> <<h>>, left |-> drain[d].left - 1]]
        /\ UNCHANGED <<post, delivered, displaced, dropped>>
    BY <1>3 DEF Take
  <2>2. /\ \A i, j \in DOMAIN backlog' : backlog'[i] = backlog'[j] => i = j
        /\ Range(backlog') = Range(backlog) \ {h} /\ h \in Range(backlog) /\ h \in Alerts
    BY <2>1, TakenOnce, FirstOrInTheRest DEF OnePlace
  <2> HIDE DEF h
  <2>3. drain'[d].hand = <<h>> /\ \A e \in Drains \ {d} : drain'[e] = drain[e]
    BY <2>1
  <2>4. ASSUME NEW a \in Alerts, post'[a] = "over" PROVE Kept(a)'
    <3>1. Kept(a)
      BY <2>1, <2>4 DEF AllKept
    <3>2. CASE a = h
      BY <2>3, <3>2 DEF Kept
    <3>3. CASE a # h /\ a \in delivered \cup displaced \cup Range(backlog)
      BY <2>1, <2>2, <3>3 DEF Kept
    <3>4. ASSUME NEW e \in Drains, drain[e].hand = <<a>> \/ a \in dropped[e] PROVE Kept(a)'
      <4>1. drain[e].hand = <<a>> => e # d
        BY <1>e, <2>1
      <4>2. a \in dropped'[e] \/ drain'[e].hand = <<a>>
        BY <2>1, <2>3, <3>4, <4>1
      <4> QED
        BY <4>2 DEF Kept
    <3> QED
      BY <3>1, <3>2, <3>3, <3>4 DEF Kept
  <2>5. h \notin displaced /\ post[h] = "over"
    BY <2>2 DEF OnePlace, Waiting
  <2>6. ASSUME NEW e \in Drains, NEW a \in Alerts, drain'[e].hand = <<a>>
        PROVE  /\ a \notin Waiting' /\ post'[a] = "over"
               /\ e = d <=> a = h
    <3>1. CASE e = d
      <4>1. a = h
        BY <2>3, <2>6, <3>1
      <4> QED
        BY <2>1, <2>2, <2>5, <3>1, <4>1 DEF Waiting
    <3>2. CASE e # d
      <4>1. drain[e].hand = <<a>>
        BY <2>3, <2>6, <3>2
      <4>2. a \notin Waiting /\ post[a] = "over"
        BY <4>1 DEF OnePlace
      <4> QED
        BY <2>1, <2>2, <3>2, <4>2 DEF Waiting
    <3> QED
      BY <3>1, <3>2
  <2>7. ASSUME NEW e \in Drains, NEW f \in Drains, NEW a \in Alerts,
               drain'[e].hand = <<a>>, drain'[f].hand = <<a>>
        PROVE  e = f
    <3>1. (e = d <=> a = h) /\ (f = d <=> a = h)
      BY <2>6, <2>7
    <3>2. CASE e # d /\ f # d
      <4>1. drain[e].hand = <<a>> /\ drain[f].hand = <<a>>
        BY <2>3, <2>7, <3>2
      <4> QED
        BY <4>1 DEF OnePlace
    <3> QED
      BY <3>1, <3>2
  <2>8. Range(backlog') \cap displaced' = {} /\ \A a \in Waiting' : post'[a] = "over"
    BY <2>1, <2>2 DEF OnePlace, Waiting
  <2>9. OnePlace'
    <3>1. \A e \in Drains, a \in Alerts : drain'[e].hand = <<a>> => a \notin Waiting' /\ post'[a] = "over"
      BY <2>6
    <3>2. \A e, f \in Drains, a \in Alerts : drain'[e].hand = <<a>> /\ drain'[f].hand = <<a>> => e = f
      BY <2>7
    <3> QED
      BY <2>2, <2>8, <3>1, <3>2 DEF OnePlace
  <2>10. DropsOne'
    BY <2>1, <2>3 DEF DropsOne
  <2> QED
    BY <2>4, <2>9, <2>10 DEF AllKept
<1>4. ASSUME NEW d \in Drains, Drained(d) PROVE AllKept' /\ OnePlace' /\ DropsOne'
  <2> DEFINE b == Head(drain[d].hand)
  <2>1. b \in Alerts /\ drain[d].hand = <<b>> /\ dropped[d] = {}
    BY <1>4 DEF Drained, OneInHand, DropsOne
  <2>2. /\ delivered \subseteq delivered' /\ post' = post
        /\ \/ b \in delivered' /\ UNCHANGED <<backlog, displaced, dropped>>
           \/ Enqueue(b) /\ dropped' = dropped
           \/ /\ UNCHANGED <<backlog, displaced>> /\ dropped' = [dropped EXCEPT ![d] = {b}]
              /\ drain'[d].left = 0
    BY <1>4, <2>1 DEF Drained
  <2>3. drain'[d].hand = <<>> /\ \A e \in Drains \ {d} : drain'[e] = drain[e]
    BY <1>4 DEF Drained
  <2>4. b \notin Waiting /\ post[b] = "over" /\ \A e \in Drains \ {d} : drain[e].hand # <<b>>
    BY <2>1 DEF OnePlace
  <2> HIDE DEF b
  <2>5. /\ \A i, j \in DOMAIN backlog' : backlog'[i] = backlog'[j] => i = j
        /\ Range(backlog') \cap displaced' = {}
        /\ Waiting \subseteq Waiting' /\ Waiting' \subseteq Waiting \cup {b}
        /\ b \in delivered' \cup Waiting' \cup dropped'[d]
    <3>1. CASE Enqueue(b)
      BY <2>1, <2>4, <3>1, EnqueueOnce DEF OnePlace
    <3>2. CASE UNCHANGED <<backlog, displaced>> /\ (b \in delivered' \/ dropped' = [dropped EXCEPT ![d] = {b}])
      BY <3>2 DEF OnePlace, Waiting
    <3> QED
      BY <2>2, <3>1, <3>2
  <2>6. ASSUME NEW a \in Alerts, post'[a] = "over" PROVE Kept(a)'
    <3>1. Kept(a)
      BY <2>2, <2>6 DEF AllKept
    <3>2. \A e \in Drains : dropped[e] \subseteq dropped'[e]
      BY <2>1, <2>2
    <3>3. CASE a = b
      BY <2>5, <3>3 DEF Kept, Waiting
    <3>4. CASE a \in delivered \cup displaced \cup Range(backlog)
      BY <2>2, <2>5, <3>4 DEF Kept, Waiting
    <3>5. ASSUME NEW e \in Drains, drain[e].hand = <<a>> \/ a \in dropped[e], a # b PROVE Kept(a)'
      <4>0. drain[e].hand = <<a>> => e # d
        BY <2>1, <3>5
      <4>1. a \in dropped'[e] \/ drain'[e].hand = <<a>>
        BY <2>3, <3>2, <3>5, <4>0
      <4> QED
        BY <4>1 DEF Kept
    <3> QED
      BY <3>1, <3>3, <3>4, <3>5 DEF Kept
  <2>7. ASSUME NEW e \in Drains, NEW a \in Alerts, drain'[e].hand = <<a>>
        PROVE  a \notin Waiting' /\ post'[a] = "over" /\ drain[e].hand = <<a>>
    <3>1. e # d
      BY <1>e, <2>3, <2>7
    <3>2. drain[e].hand = <<a>>
      BY <2>3, <2>7, <3>1
    <3>3. a # b
      BY <2>4, <3>1, <3>2
    <3> QED
      BY <2>2, <2>5, <3>2, <3>3 DEF OnePlace
  <2>8. \A a \in Waiting' : post'[a] = "over"
    BY <2>2, <2>4, <2>5 DEF OnePlace
  <2>9. OnePlace'
    <3>1. \A e, f \in Drains, a \in Alerts : drain'[e].hand = <<a>> /\ drain'[f].hand = <<a>> => e = f
      BY <2>7 DEF OnePlace
    <3> QED
      BY <2>5, <2>7, <2>8, <3>1 DEF OnePlace
  <2>10. ASSUME NEW e \in Drains, dropped'[e] # {}
         PROVE  drain'[e].left = 0 /\ drain'[e].hand = <<>> /\ \E a \in Alerts : dropped'[e] = {a}
    <3>1. CASE e = d
      BY <2>1, <2>2, <2>3, <2>10, <3>1
    <3>2. CASE e # d
      BY <2>2, <2>3, <2>10, <3>2 DEF DropsOne
    <3> QED
      BY <3>1, <3>2
  <2> QED
    BY <2>6, <2>9, <2>10 DEF AllKept, DropsOne
<1>5. CASE UNCHANGED <<post, backlog, drain, delivered, displaced, dropped>>
  BY <1>5 DEF AllKept, Kept, OnePlace, Waiting, DropsOne
<1> QED
  BY <1>1, <1>2, <1>3, <1>4, <1>5 DEF OpsLogNext, CooldownOver, opsVars

(* As many alerts are in a queue as it is long.                            *)
LEMMA QueueIsCounted ==
    ASSUME NEW S, NEW q \in Seq(S), \A i, j \in DOMAIN q : q[i] = q[j] => i = j
    PROVE  IsFiniteSet(Range(q)) /\ Cardinality(Range(q)) = Len(q)
<1>1. Len(q) \in Nat /\ DOMAIN q = 1..Len(q) /\ q \in [1..Len(q) -> Range(q)]
  BY DEF Range
<1>2. q \in Surjection(1..Len(q), Range(q))
  BY <1>1 DEF Surjection, Range
<1>3. IsInjective(q)
  BY DEF IsInjective
<1>4. q \in Injection(1..Len(q), Range(q))
  BY <1>1, <1>3 DEF Injection
<1>5. IsFiniteSet(1..Len(q)) /\ Cardinality(1..Len(q)) = Len(q)
  BY <1>1, FS_Interval
<1>6. /\ IsFiniteSet(Range(q))
      /\ Cardinality(Range(q)) = Cardinality(1..Len(q)) <=> q \in Injection(1..Len(q), Range(q))
  BY <1>2, <1>5, FS_Surjection
<1> QED
  BY <1>4, <1>5, <1>6

(* The queue gives up nothing unless it is full of other alerts.           *)
LEMMA SurplusStep ==
    ASSUME OpsLogInv, [OpsLogNext]_opsVars
    PROVE  Surplus'
<1>0. OpsLogTypeOK' /\ AllKept' /\ OnePlace'
  BY OpsLogTypeStep, PlacesStep DEF OpsLogInv
<1>1. Sent \subseteq Sent'
  BY DEF OpsLogInv, OpsLogTypeOK, OpsLogNext, Send, Posted, CooldownOver, Take, Drained, opsVars, Sent
<1>2. IsFiniteSet(Sent') /\ Cardinality(Sent') \in Nat
  BY OpsLogAssumption, FS_Subset, FS_CardinalityType DEF Sent
<1>3. displaced' = displaced \/ Len(backlog') = BacklogMax
  BY EnqueueOnce DEF OpsLogInv, OpsLogNext, Send, Posted, CooldownOver, Take, Drained, opsVars, OnePlace, OneInHand
<1>4. CASE displaced' = displaced
  <2>1. Cardinality(Sent) <= Cardinality(Sent') /\ Cardinality(Sent) \in Nat
    BY <1>1, <1>2, FS_Subset, FS_CardinalityType
  <2>2. Cardinality(displaced) \in Nat
    BY OpsLogAssumption, FS_Subset, FS_CardinalityType DEF OpsLogInv, OpsLogTypeOK
  <2> QED
    BY <1>2, <1>4, <2>1, <2>2, OpsLogAssumption DEF OpsLogInv, Surplus
<1>5. CASE Len(backlog') = BacklogMax
  <2>1. IsFiniteSet(Range(backlog')) /\ Cardinality(Range(backlog')) = BacklogMax
    <3>1. backlog' \in Seq(Alerts) /\ \A i, j \in DOMAIN backlog' : backlog'[i] = backlog'[j] => i = j
      BY <1>0 DEF OnePlace, OpsLogTypeOK
    <3> QED
      BY <1>5, <3>1, QueueIsCounted
  <2>2. IsFiniteSet(displaced') /\ Cardinality(displaced') \in Nat
    BY <1>0, OpsLogAssumption, FS_Subset, FS_CardinalityType DEF OpsLogTypeOK
  <2>3. Range(backlog') \cap displaced' = {} /\ Range(backlog') \cup displaced' \subseteq Sent'
    BY <1>0 DEF OnePlace, Waiting, Sent, OpsLogTypeOK, Range
  <2>4. Cardinality(Range(backlog') \cup displaced') = BacklogMax + Cardinality(displaced')
    <3>1. Cardinality(Range(backlog') \cup displaced')
          = BacklogMax + Cardinality(displaced') - Cardinality(Range(backlog') \cap displaced')
      BY <2>1, <2>2, FS_Union
    <3>2. Cardinality(Range(backlog') \cap displaced') = 0
      BY <2>3, FS_EmptySet
    <3> QED
      BY <2>2, <3>1, <3>2, OpsLogAssumption
  <2>5. Cardinality(Range(backlog') \cup displaced') <= Cardinality(Sent')
    BY <1>2, <2>3, FS_Subset
  <2> QED
    BY <2>2, <2>4, <2>5, OpsLogAssumption DEF Surplus
<1> QED
  BY <1>3, <1>4, <1>5

(* What is lost was given up by the queue or by a drain that is over.      *)
LEMMA LossIsSurplusOrDropped ==
    ASSUME OpsLogInv
    PROVE  LossIsBounded
<1> USE DEF OpsLogInv, OpsLogTypeOK
<1> DEFINE D == {d \in Drains : dropped[d] # {}}
           U == {a \in Alerts : \E d \in D : a \in dropped[d]}
<1>1. IsFiniteSet(D) /\ IsFiniteSet(DrainsOver) /\ Cardinality(D) <= Cardinality(DrainsOver)
      /\ Cardinality(D) \in Nat /\ Cardinality(DrainsOver) \in Nat
  <2>1. D \subseteq DrainsOver /\ DrainsOver \subseteq Drains
    BY DEF DropsOne, DrainsOver
  <2> HIDE DEF D
  <2>2. IsFiniteSet(DrainsOver)
    BY <2>1, OpsLogAssumption, FS_Subset
  <2> QED
    BY <2>1, <2>2, FS_Subset, FS_CardinalityType
<1>2. IsFiniteSet(U) /\ Cardinality(U) <= Cardinality(D) /\ Cardinality(U) \in Nat
  <2> DEFINE f == [d \in D |-> CHOOSE a \in Alerts : dropped[d] = {a}]
  <2>1. \A d \in D : f[d] \in Alerts /\ dropped[d] = {f[d]}
    BY DEF DropsOne
  <2> HIDE DEF f
  <2>2. \A d \in D : f[d] \in U
    BY <2>1
  <2>3. f \in [D -> U]
    BY <2>2 DEF f
  <2>4. \A a \in U : \E d \in D : f[d] = a
    BY <2>1
  <2> HIDE DEF D, U
  <2>5. f \in Surjection(D, U)
    BY <2>3, <2>4 DEF Surjection
  <2> QED
    BY <1>1, <2>5, FS_Surjection, FS_CardinalityType
<1>3. Lost \subseteq displaced \cup U
  BY DEF AllKept, Kept, Lost
<1> HIDE DEF D, U
<1>4. IsFiniteSet(displaced) /\ Cardinality(displaced) \in Nat /\ Cardinality(Sent) \in Nat
  BY OpsLogAssumption, FS_Subset, FS_CardinalityType DEF Sent
<1>5. /\ IsFiniteSet(displaced \cup U) /\ Cardinality(displaced \cup U) <= Cardinality(displaced) + Cardinality(U)
      /\ Cardinality(displaced \cup U) \in Nat
  <2>1. IsFiniteSet(displaced \cap U) /\ Cardinality(displaced \cap U) \in Nat
    BY <1>4, FS_Subset, FS_CardinalityType
  <2>2. /\ IsFiniteSet(displaced \cup U)
        /\ Cardinality(displaced \cup U) = Cardinality(displaced) + Cardinality(U) - Cardinality(displaced \cap U)
    BY <1>2, <1>4, FS_Union
  <2>3. Cardinality(displaced \cup U) \in Nat
    BY <2>2, FS_CardinalityType
  <2>4. \A x, y, z \in Nat : x + y - z <= x + y
    OBVIOUS
  <2> QED
    BY <1>2, <1>4, <2>1, <2>2, <2>3, <2>4
<1>6. Cardinality(Lost) <= Cardinality(displaced) + Cardinality(U) /\ Cardinality(Lost) \in Nat
  BY <1>2, <1>3, <1>4, <1>5, FS_Subset, FS_CardinalityType
<1>7. Cardinality(displaced) <= IF Cardinality(Sent) > BacklogMax THEN Cardinality(Sent) - BacklogMax ELSE 0
  <2>1. CASE displaced = {}
    BY <1>4, <2>1, FS_EmptySet, OpsLogAssumption
  <2>2. CASE displaced # {}
    <3>1. Cardinality(displaced) > 0
      BY <1>4, <2>2, FS_EmptySet
    <3> QED
      BY <1>4, <2>2, <3>1, OpsLogAssumption DEF Surplus
  <2> QED
    BY <2>1, <2>2
<1> QED
  BY <1>1, <1>2, <1>4, <1>6, <1>7, OpsLogAssumption DEF LossIsBounded

(* Theorem: for any alerts, drains and size of the queue, no more alerts   *)
(* are lost than were sent beyond the size of the queue, and one for every *)
(* drain that is over, however posts and drains overlap.                   *)
THEOREM LossesAreFew == OpsLogSpec => []LossIsBounded
<1>1. OpsLogInit => OpsLogInv
  BY OpsLogAssumption
  DEF OpsLogInit, OpsLogInv, OpsLogTypeOK, OneInHand, AllKept, Kept, OnePlace, Waiting, DropsOne, Surplus, Range
<1>2. OpsLogInv /\ [OpsLogNext]_opsVars => OpsLogInv'
  BY OpsLogTypeStep, PlacesStep, SurplusStep DEF OpsLogInv
<1>3. OpsLogInv => LossIsBounded
  BY LossIsSurplusOrDropped
<1> QED
  BY <1>1, <1>2, <1>3, PTL DEF OpsLogSpec
=============================================================================
