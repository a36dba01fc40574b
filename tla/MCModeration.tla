---------------------------- MODULE MCModeration ----------------------------
(* What is done about a bad message, and about a process in trouble.  One  *)
(* topic at a time:                                                        *)
(*   review     a ticket, two approvals of the same action over HTTP and   *)
(*              in the chat, an approval with another action, and a denial *)
(*   policy     messages of every confidence, with every strictness; the   *)
(*              property goes through all degrees of severity              *)
(*   incidents  the supervisors of an api and of a worker process, and     *)
(*              two operators                                              *)
(*   alerts     four alerts of two kinds for a queue of two, and two calls *)
(*              of drain_retry_queue                                       *)
EXTENDS Review, Verdicts, Incidents, OpsLog

CONSTANTS open, approve, command, override, deny, DELETE, BAN, api, worker

VARIABLE topic

MCCalls == {open, approve, command, override, deny}
MCActions == {DELETE, BAN}
MCRemovals == {DELETE, BAN}
MCKind == [c \in MCCalls |-> CASE c = open -> "create" [] c = deny -> "deny" [] OTHER -> "approve"]
MCVia == [c \in MCCalls |-> IF c = command THEN "chat" ELSE "http"]
MCChosen == [c \in MCCalls |-> IF c = override THEN BAN ELSE DELETE]

(* On either side of the two thresholds of trust.                          *)
MCTrusts == {30, 31, 74, 75}

MCMonitors == {api, worker}
MCMode == [m \in MCMonitors |-> IF m = api THEN "api" ELSE "worker"]
MCOperators == {"o1", "o2"}
MCTarget == [o \in MCOperators |-> IF o = "o1" THEN "INVESTIGATING" ELSE "RESOLVED"]

MCAlerts == 1..4
MCKindOf == [a \in MCAlerts |-> IF a % 2 = 1 THEN "failure" ELSE "warning"]
MCCritical == {"failure"}
MCDrains == {"d1", "d2"}

MCInit ==
    /\ Init /\ PolicyInit /\ IncidentsInit /\ OpsLogInit
    /\ topic \in {"review", "policy", "incidents", "alerts"}
    /\ topic # "review" => backend = "memory"

MCNext ==
    /\ UNCHANGED topic
    /\ \/ topic = "review" /\ Next /\ UNCHANGED <<judged, incidentVars, opsVars>>
       \/ topic = "policy" /\ PolicyNext /\ UNCHANGED <<vars, incidentVars, opsVars>>
       \/ topic = "incidents" /\ IncidentsNext /\ UNCHANGED <<vars, judged, opsVars>>
       \/ topic = "alerts" /\ OpsLogNext /\ UNCHANGED <<vars, judged, incidentVars>>

(* The fairness of Incidents, where it is the topic.                       *)
MCFairness ==
    /\ ReviewFairness
    /\ \A m \in MCMonitors : WF_incidentVars(topic = "incidents" /\ Supervise(m))
    /\ \A o \in MCOperators : WF_incidentVars(topic = "incidents" /\ stage[o] # "read" /\ Request(o))

MCSpec == MCInit /\ [][MCNext]_<<vars, judged, incidentVars, opsVars, topic>> /\ MCFairness
=============================================================================
