----------------------------- MODULE Incidents ------------------------------
(***************************************************************************)
(* HealthMonitorSupervisor (app/services/health_monitor.py) of every       *)
(* process goes through the subsystems again and again, and opens an       *)
(* incident when one is CRITICAL that its process cannot do without.       *)
(* IncidentService (app/services/incidents.py) notes a recurrence on the   *)
(* active incident there is, if it sees one; operators move incidents on.  *)
(*                                                                         *)
(* Transactions are READ COMMITTED: a row is read without a lock and held  *)
(* from its UPDATE to the commit.  The lock on a fingerprint is one of the *)
(* process, in which the supervisor is the only one to report, and its     *)
(* cycles do not overlap.                                                  *)
(***************************************************************************)
EXTENDS Naturals, Sequences, FiniteSets

CONSTANTS
    Monitors,       \* processes with a supervisor
    Mode,           \* APP_SERVICE_MODE of a process
    Operators,      \* requests that move an incident on
    Target,         \* the status an operator asks for
    MaxChanges,     \* of the state of subsystems
    MaxFaults,      \* cycles, reports and requests that fail, and restarts
    Nobody

ASSUME IncidentsAssumption ==
    /\ Mode \in [Monitors -> {"api", "worker", "unified"}]
    /\ Target \in [Operators -> {"OPEN", "INVESTIGATING", "MITIGATED", "RESOLVED", "CLOSED"}]
    /\ MaxChanges \in Nat /\ MaxFaults \in Nat
    /\ Monitors \cap Operators = {}
    /\ Nobody \notin Monitors \cup Operators

VARIABLES
    ill,        \* subsystems that are CRITICAL
    stage,      \* the await a monitor or an operator is at
    found,      \* the subsystems a cycle has found CRITICAL
    rows,       \* committed incidents: status, who opened it, whether it ever left the active ones
    row,        \* the incident a transaction is about
    seen,       \* the status an operator has read
    holder,     \* of the lock of an incident
    changes, faults

incidentVars == <<ill, stage, found, rows, row, seen, holder, changes, faults>>

(* The checks of a snapshot that can end CRITICAL, in their order.  Redis  *)
(* is DEGRADED at worst, the others never more than that.                  *)
Checks == <<"database", "youtube", "economy">>
Stages == {"rest", "look", "note", "insert", "publish", "commit", "read", "write", "over"} \cup {Checks[i] : i \in DOMAIN Checks}
Active == {"OPEN", "INVESTIGATING"}
IncidentStatuses == Active \cup {"MITIGATED", "RESOLVED", "CLOSED"}

Legal(from) ==
    CASE from = "OPEN" -> {"INVESTIGATING", "MITIGATED", "RESOLVED", "CLOSED"}
      [] from = "INVESTIGATING" -> {"MITIGATED", "RESOLVED", "CLOSED"}
      [] from = "MITIGATED" -> {"INVESTIGATING", "RESOLVED", "CLOSED"}
      [] from = "RESOLVED" -> {"CLOSED", "OPEN"}
      [] OTHER -> {"OPEN"}

IncidentsTypeOK ==
    /\ ill \in SUBSET {Checks[i] : i \in DOMAIN Checks}
    /\ stage \in [Monitors \cup Operators -> Stages]
    /\ found \in [Monitors -> SUBSET {Checks[i] : i \in DOMAIN Checks}]
    /\ rows \in Seq([status : IncidentStatuses, by : Monitors, left : BOOLEAN])
    /\ row \in [Monitors \cup Operators -> 0..Len(rows)]
    /\ \A i \in DOMAIN rows : holder[i] \in Monitors \cup Operators \cup {Nobody}
    /\ changes \in 0..MaxChanges /\ faults \in 0..MaxFaults

IncidentsInit ==
    /\ ill = {}
    /\ stage = [a \in Monitors \cup Operators |-> IF a \in Monitors THEN "rest" ELSE "read"]
    /\ found = [m \in Monitors |-> {}]
    /\ rows = <<>> /\ holder = <<>>
    /\ row = [a \in Monitors \cup Operators |-> 0]
    /\ seen = [o \in Operators |-> Nobody]
    /\ changes = 0 /\ faults = 0

(* A monitor that rests has forgotten its cycle, and a request that is     *)
(* over what it has read.                                                  *)
Rest(m) ==
    /\ stage' = [stage EXCEPT ![m] = "rest"]
    /\ found' = [found EXCEPT ![m] = {}]
    /\ row' = [row EXCEPT ![m] = 0]

Finish(o) ==
    /\ stage' = [stage EXCEPT ![o] = "over"]
    /\ seen' = [seen EXCEPT ![o] = Nobody]
    /\ row' = [row EXCEPT ![o] = 0]

Enter(a, place) == stage' = [stage EXCEPT ![a] = place]

-----------------------------------------------------------------------------
(* get_detailed_snapshot: what a process cannot do without.                *)
CriticalFor(m) ==
    IF Mode[m] = "api" THEN {"database"} ELSE {"database", "youtube", "economy"}

(* The state of YouTube and of the workers is nothing to an api process.   *)
Bypassed(m) == IF Mode[m] = "api" THEN {"youtube"} ELSE {}

Overall(m) ==
    IF found[m] \cap CriticalFor(m) # {} THEN "CRITICAL"
    ELSE IF found[m] \ Bypassed(m) # {} THEN "DEGRADED"
    ELSE "HEALTHY"

(* evaluate_cycle begins.                                                  *)
Wake(m) ==
    /\ stage[m] = "rest"
    /\ Enter(m, "database")
    /\ UNCHANGED <<ill, found, rows, row, seen, holder, changes, faults>>

(* One check.  Without the database the economy is not audited.            *)
Shows(s) == s \in ill /\ (s = "economy" => "database" \notin ill)

Check(m) ==
    \E i \in DOMAIN Checks :
        /\ stage[m] = Checks[i]
        /\ found' = [found EXCEPT ![m] = IF Shows(Checks[i]) THEN @ \cup {Checks[i]} ELSE @]
        /\ Enter(m, IF i < Len(Checks) THEN Checks[i + 1] ELSE "look")
        /\ UNCHANGED <<ill, rows, row, seen, holder, changes, faults>>

(* The cycle takes more than its five seconds, or has no session: that     *)
(* is shown as CRITICAL, and is reported to nobody.                        *)
CycleFails(m) ==
    /\ stage[m] \in {Checks[i] : i \in DOMAIN Checks} /\ faults < MaxFaults
    /\ faults' = faults + 1
    /\ Rest(m)
    /\ UNCHANGED <<ill, rows, seen, holder, changes>>

-----------------------------------------------------------------------------
ActiveRows == {i \in DOMAIN rows : rows[i].status \in Active}
Newest(i, R) == i \in R /\ \A j \in R : j <= i

(* Where the cycle goes on, with R for the active incidents: the newest of *)
(* them, a new one, or nowhere.                                            *)
Report(m, R) ==
    \/ Overall(m) # "CRITICAL" /\ Rest(m)
    \/ /\ Overall(m) = "CRITICAL"
       /\ \/ R = {} /\ Enter(m, "insert") /\ row' = [row EXCEPT ![m] = 0]
          \/ Enter(m, "note") /\ \E i \in DOMAIN rows : Newest(i, R) /\ row' = [row EXCEPT ![m] = i]
       /\ UNCHANGED found

(* Fault: a recurrence is noted on whatever incident there is.             *)
LookAtAny(m) ==
    /\ stage[m] = "look"
    /\ Report(m, DOMAIN rows)
    /\ UNCHANGED <<ill, rows, seen, holder, changes, faults>>

(* Fault: an incident that is being investigated is not an active one.     *)
LookAtOpen(m) ==
    /\ stage[m] = "look"
    /\ Report(m, {i \in DOMAIN rows : rows[i].status = "OPEN"})
    /\ UNCHANGED <<ill, rows, seen, holder, changes, faults>>

(* The snapshot is complete; report_incident looks for an active incident. *)
Look(m) ==
    /\ stage[m] = "look"
    /\ Report(m, ActiveRows)
    /\ UNCHANGED <<ill, rows, seen, holder, changes, faults>>

(* A recurrence: the status is written as it was read, which writes        *)
(* nothing, and a note is added.                                           *)
Note(m) ==
    /\ stage[m] = "note" /\ holder[row[m]] = Nobody
    /\ holder' = [holder EXCEPT ![row[m]] = m]
    /\ Enter(m, "commit")
    /\ UNCHANGED <<ill, found, rows, row, seen, changes, faults>>

(* create_incident; the event is published before the row is committed.    *)
Insert(m) ==
    /\ stage[m] = "insert"
    /\ Enter(m, "publish")
    /\ UNCHANGED <<ill, found, rows, row, seen, holder, changes, faults>>

Publish(a) ==
    /\ stage[a] = "publish"
    /\ Enter(a, "commit")
    /\ UNCHANGED <<ill, found, rows, row, seen, holder, changes, faults>>

Unlocked(a) == [i \in DOMAIN holder |-> IF holder[i] = a THEN Nobody ELSE holder[i]]

CommitReport(m) ==
    /\ stage[m] = "commit" /\ m \in Monitors
    /\ IF row[m] = 0
       THEN /\ rows' = Append(rows, [status |-> "OPEN", by |-> m, left |-> FALSE])
            /\ holder' = Append(holder, Nobody)
       ELSE rows' = rows /\ holder' = Unlocked(m)
    /\ Rest(m)
    /\ UNCHANGED <<ill, seen, changes, faults>>

(* _report_health_incident swallows every error.                           *)
ReportFails(m) ==
    /\ stage[m] \in {"look", "note", "insert", "publish", "commit"} /\ m \in Monitors
    /\ \/ "database" \in ill /\ UNCHANGED faults
       \/ faults < MaxFaults /\ faults' = faults + 1
    /\ holder' = Unlocked(m)
    /\ Rest(m)
    /\ UNCHANGED <<ill, rows, seen, changes>>

-----------------------------------------------------------------------------
(* update_status of IncidentService, and the dashboard's resolve_incident. *)
Read(o) ==
    \E i \in DOMAIN rows :
        LET from == rows[i].status IN
        /\ stage[o] = "read"
        /\ IF Target[o] = from \/ Target[o] \in Legal(from)
           THEN /\ row' = [row EXCEPT ![o] = i]
                /\ seen' = [seen EXCEPT ![o] = from]
                /\ Enter(o, "write")
           ELSE Finish(o)
        /\ UNCHANGED <<ill, found, rows, holder, changes, faults>>

Write(o) ==
    /\ stage[o] = "write" /\ holder[row[o]] = Nobody
    /\ holder' = [holder EXCEPT ![row[o]] = o]
    /\ Enter(o, IF Target[o] \in {"RESOLVED", "CLOSED"} THEN "publish" ELSE "commit")
    /\ UNCHANGED <<ill, found, rows, row, seen, changes, faults>>

(* The status that was read is not compared again: what another has        *)
(* committed in between is overwritten.                                    *)
CommitStatus(o) ==
    LET i == row[o]
        status == IF Target[o] = seen[o] THEN rows[i].status ELSE Target[o]
    IN
    /\ stage[o] = "commit" /\ o \in Operators
    /\ rows' = [rows EXCEPT ![i] = [status |-> status, by |-> @.by, left |-> @.left \/ status \notin Active]]
    /\ holder' = Unlocked(o)
    /\ Finish(o)
    /\ UNCHANGED <<ill, found, changes, faults>>

OperatorFails(o) ==
    /\ stage[o] \in {"write", "publish", "commit"} /\ o \in Operators /\ faults < MaxFaults
    /\ faults' = faults + 1
    /\ holder' = Unlocked(o)
    /\ Finish(o)
    /\ UNCHANGED <<ill, found, rows, changes>>

-----------------------------------------------------------------------------
(* A subsystem breaks or recovers.                                         *)
Change(s) ==
    /\ changes < MaxChanges
    /\ changes' = changes + 1
    /\ ill' = IF s \in ill THEN ill \ {s} ELSE ill \cup {s}
    /\ UNCHANGED <<stage, found, rows, row, seen, holder, faults>>

RestartMonitor(m) ==
    /\ stage[m] # "rest" /\ faults < MaxFaults
    /\ faults' = faults + 1
    /\ holder' = Unlocked(m)
    /\ Rest(m)
    /\ UNCHANGED <<ill, rows, seen, changes>>

-----------------------------------------------------------------------------
Supervise(m) ==
    Wake(m) \/ Check(m) \/ Look(m) \/ Note(m) \/ Insert(m) \/ Publish(m) \/ CommitReport(m)

Request(o) == Read(o) \/ Write(o) \/ Publish(o) \/ CommitStatus(o)

IncidentsNext ==
    \/ \E m \in Monitors : Supervise(m) \/ CycleFails(m) \/ ReportFails(m) \/ RestartMonitor(m)
    \/ \E o \in Operators : Request(o) \/ OperatorFails(o)
    \/ \E i \in DOMAIN Checks : Change(Checks[i])

IncidentsSpec == IncidentsInit /\ [][IncidentsNext]_incidentVars

(* Fairness: WF of Supervise(m), the loop of a supervisor goes on, and of  *)
(* Request(o) once it has begun.                                           *)

-----------------------------------------------------------------------------
(* As long as an incident that a process has opened is active, that        *)
(* process does not open another, whatever operators do at the same time.  *)
(* Two processes may each open one for the same outage.                    *)
NoSecondByTheSame ==
    \A m \in Monitors : Cardinality({i \in ActiveRows : rows[i].by = m /\ ~rows[i].left}) <= 1

(* A process that lacks something it cannot do without has an active       *)
(* incident in the end, however often operators resolve it, unless the     *)
(* database is down too, where incidents are stored.                       *)
NeedsAttention(m) == "database" \notin ill /\ ill \cap CriticalFor(m) # {}

CriticalIsReported ==
    \A m \in Monitors : <>[]NeedsAttention(m) => <>[](ActiveRows # {})

(* What the documents say and the code does not: "race conditions" are     *)
(* prevented (incidents.py:51), and a failure that is reported again is    *)
(* grouped into the active incident, without duplicate records             *)
(* (docs/CHAOS_MATRIX.md:19).  That lock is no other process's.            *)
OneIncidentAnOutage == Cardinality({i \in ActiveRows : ~rows[i].left}) <= 1
=============================================================================
