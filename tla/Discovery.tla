------------------------------ MODULE Discovery ------------------------------
(***************************************************************************)
(* MonitoredChannelCoordinator (app/services/monitored_channel_            *)
(* coordinator.py): a loop in every worker process looks at the channels   *)
(* that are watched, the one looked at longest ago first, and joins a      *)
(* broadcast it finds; an administrator has one channel looked at now, and *)
(* edits the rows (app/api/routes/dashboard.py).                           *)
(*                                                                         *)
(* A check is kept to itself by a lease in Redis, which is no one's: who   *)
(* ends a check deletes it, be it his own or, after his has expired,       *)
(* another's.  Joining a broadcast is canonical_bootstrap_stream, which    *)
(* the module Streams is about; here it succeeds or fails.                 *)
(***************************************************************************)
EXTENDS Naturals, FiniteSets, SequencesExt

CONSTANTS
    Loops,          \* the coordinators of the worker processes
    Askers,         \* requests to look at a channel now
    Home,           \* the process of a checker
    Channels,       \* rows of monitored channels; a channel has one video
    Creator,        \* of a channel
    Patience,       \* leases that expire under a check
    MaxFaults,      \* failures of Redis or of the database
    MaxEdits,
    None

Checkers == Loops \cup Askers
Processes == {Home[p] : p \in Checkers}

ASSUME DiscoveryAssumption ==
    /\ Loops \cap Askers = {} /\ None \notin Processes
    /\ Checkers = DOMAIN Home
    /\ {Patience, MaxFaults, MaxEdits} \subseteq Nat
    /\ Channels = DOMAIN Creator /\ IsFiniteSet(Channels)
    /\ IsFiniteSet(Loops) /\ IsFiniteSet(Askers)

VARIABLES
    row,        \* the settings of a channel
    queue,      \* the channels, the one looked at longest ago first
    worker,     \* the process in whose table the stream of a channel is, with an
                \* active row: its worker runs, or is over and both have stayed
    lease,      \* channels whose lease is taken
    todo,       \* what a checker has yet to look at; the head is what it looks at
    at,         \* the await it is at
    plan,       \* auto_join_enabled, as it was when the row was read
    barred,     \* history: the channel was disabled after its row was read
    expired,    \* history: leases of a channel that expired under a check
    faults, edits

discoveryVars == <<row, queue, worker, lease, todo, at, plan, barred, expired, faults, edits>>

DiscoveryTypeOK ==
    /\ row \in [Channels -> [enabled : BOOLEAN, auto : BOOLEAN]]
    /\ queue \in SetToAllKPermutations(Channels)
    /\ lease \in SUBSET Channels
    /\ worker \in [Channels -> Processes \cup {None}]
    /\ \A p \in Checkers : todo[p] \in Seq(Channels)
    /\ at \in [Checkers -> {"rest", "look", "lease", "active", "probe", "offline", "seen", "join", "unlock", "over"}]
    /\ plan \in [Checkers -> BOOLEAN] /\ barred \in SUBSET Checkers
    /\ expired \in [Channels -> Nat]
    /\ faults \in 0..MaxFaults /\ edits \in 0..MaxEdits

DiscoveryInit ==
    /\ row \in [Channels -> [enabled : BOOLEAN, auto : {TRUE}]]
    /\ queue = SetToSeq(Channels)
    /\ lease = {}
    /\ worker = [c \in Channels |-> None]
    /\ todo = [p \in Checkers |-> <<>>]
    /\ at = [p \in Checkers |-> "rest"]
    /\ plan = [p \in Checkers |-> FALSE]
    /\ barred = {}
    /\ expired = [c \in Channels |-> 0]
    /\ faults = 0 /\ edits = 0

Subject(p) == Head(todo[p])
Watched(c) == row[c].enabled /\ row[c].auto
Inside(p, c) == at[p] \in {"active", "probe", "offline", "seen", "join", "unlock"} /\ Subject(p) = c

Goto(p, place) == at' = [at EXCEPT ![p] = place]
Idle(p) == IF p \in Loops THEN "rest" ELSE "over"

(* What comes after a check: the next one of the cycle, or a pause.        *)
Proceed(p) ==
    /\ todo' = [todo EXCEPT ![p] = Tail(@)]
    /\ Goto(p, IF Len(todo[p]) > 1 THEN "look" ELSE Idle(p))

-----------------------------------------------------------------------------
(* check_all_active_channels: the list is taken once for a cycle.          *)
Listed == SelectSeq(queue, Watched)

Begin(p) ==
    /\ p \in Loops /\ at[p] = "rest" /\ Listed # <<>>
    /\ todo' = [todo EXCEPT ![p] = Listed]
    /\ Goto(p, "look")
    /\ UNCHANGED <<row, queue, worker, lease, plan, barred, expired, faults, edits>>

Ask(p, c) ==
    /\ p \in Askers /\ at[p] = "rest"
    /\ todo' = [todo EXCEPT ![p] = <<c>>]
    /\ Goto(p, "look")
    /\ UNCHANGED <<row, queue, worker, lease, plan, barred, expired, faults, edits>>

-----------------------------------------------------------------------------
(* Fault: the list of the cycle is trusted.                                *)
LookNoMore(p) ==
    /\ at[p] = "look"
    /\ Goto(p, "lease") /\ plan' = [plan EXCEPT ![p] = row[Subject(p)].auto]
    /\ barred' = IF row[Subject(p)].enabled THEN barred \ {p} ELSE barred
    /\ UNCHANGED <<row, queue, worker, lease, todo, expired, faults, edits>>

(* check_channel.  The row is read again before anything else.             *)
Look(p) ==
    /\ at[p] = "look"
    /\ IF row[Subject(p)].enabled
       THEN /\ Goto(p, "lease") /\ plan' = [plan EXCEPT ![p] = row[Subject(p)].auto]
            /\ barred' = barred \ {p}
            /\ UNCHANGED todo
       ELSE Proceed(p) /\ UNCHANGED <<plan, barred>>
    /\ UNCHANGED <<row, queue, worker, lease, expired, faults, edits>>

(* Fault: the lease is set whether or not it is there.                     *)
TakeLeaseAnyhow(p) ==
    /\ at[p] = "lease"
    /\ lease' = lease \cup {Subject(p)} /\ Goto(p, "active")
    /\ UNCHANGED <<row, queue, worker, todo, plan, barred, expired, faults, edits>>

TakeLease(p) ==
    /\ at[p] = "lease"
    /\ IF Subject(p) \in lease
       THEN Proceed(p) /\ UNCHANGED lease
       ELSE lease' = lease \cup {Subject(p)} /\ Goto(p, "active") /\ UNCHANGED todo
    /\ UNCHANGED <<row, queue, worker, plan, barred, expired, faults, edits>>

-----------------------------------------------------------------------------
(* update_check_status: of what is written there, the time.               *)
Record(c) == queue' = Append(SelectSeq(queue, LAMBDA d : d # c), c)

(* Any stream of the creator that is in the table of this process is taken *)
(* for that of the channel, and for running: nobody asks its worker.       *)
RunsHere(p, c) == {d \in Channels : worker[d] = Home[p] /\ Creator[d] = Creator[c]}

LookForActive(p) ==
    /\ at[p] = "active"
    /\ IF RunsHere(p, Subject(p)) = {}
       THEN Goto(p, "probe") /\ UNCHANGED queue
       ELSE Goto(p, "unlock") /\ Record(Subject(p))
    /\ UNCHANGED <<row, worker, lease, todo, plan, barred, expired, faults, edits>>

(* The page of the channel names a video, or none: it may be on air or not *)
(* at any time, and failing is as good as none.                            *)
Probe(p) ==
    /\ at[p] = "probe"
    /\ \/ Goto(p, "offline")
       \/ Goto(p, IF plan[p] THEN "join" ELSE "seen")
    /\ UNCHANGED <<row, queue, worker, lease, todo, plan, barred, expired, faults, edits>>

RecordProbe(p) ==
    /\ at[p] \in {"offline", "seen"}
    /\ Record(Subject(p))
    /\ Goto(p, "unlock")
    /\ UNCHANGED <<row, worker, lease, todo, plan, barred, expired, faults, edits>>

(* The stream is bootstrapped in this process, or this fails, or finds it  *)
(* at work in another.                                                     *)
Join(p) ==
    /\ at[p] = "join"
    /\ worker' \in {worker, [worker EXCEPT ![Subject(p)] = Home[p]]}
    /\ Record(Subject(p))
    /\ Goto(p, "unlock")
    /\ UNCHANGED <<row, lease, todo, plan, barred, expired, faults, edits>>

Unlock(p) ==
    /\ at[p] = "unlock"
    /\ lease' = lease \ {Subject(p)}
    /\ Proceed(p)
    /\ UNCHANGED <<row, queue, worker, plan, barred, expired, faults, edits>>

-----------------------------------------------------------------------------
(* Redis or the database fails.  What is under the try is recorded and the *)
(* lease given up; what is outside ends the cycle, and the loop rests.     *)
Fails(p) ==
    /\ faults < MaxFaults /\ faults' = faults + 1
    /\ at[p] \notin {"rest", "over", "probe"}
    /\ UNCHANGED <<row, queue, worker, lease, plan, barred, expired, edits>>

FailInside(p) ==
    /\ Fails(p) /\ at[p] \in {"active", "offline", "seen", "join"}
    /\ Goto(p, "unlock") /\ UNCHANGED todo

(* Fault: the loop ends with the first exception.                          *)
FailOutsideForGood(p) ==
    /\ Fails(p) /\ at[p] \in {"look", "lease", "unlock"}
    /\ todo' = [todo EXCEPT ![p] = <<>>] /\ Goto(p, "over")

FailOutside(p) ==
    /\ Fails(p) /\ at[p] \in {"look", "lease", "unlock"}
    /\ todo' = [todo EXCEPT ![p] = <<>>] /\ Goto(p, Idle(p))

(* Forty-five seconds are over.                                            *)
Expire(c) ==
    /\ c \in lease
    /\ lease' = lease \ {c}
    /\ IF \E p \in Checkers : Inside(p, c)
       THEN expired[c] < Patience /\ expired' = [expired EXCEPT ![c] = @ + 1]
       ELSE UNCHANGED expired
    /\ UNCHANGED <<row, queue, worker, todo, at, plan, barred, faults, edits>>

-----------------------------------------------------------------------------
(* update_monitored_channel; a row that is deleted is disabled for good.   *)
Edit(c) ==
    /\ edits < MaxEdits /\ edits' = edits + 1
    /\ \E enabled, auto \in BOOLEAN :
        /\ row' = [row EXCEPT ![c] = [enabled |-> enabled, auto |-> auto]]
        /\ barred' = IF enabled THEN barred
                     ELSE barred \cup {p \in Checkers : at[p] = "lease" /\ Subject(p) = c}
                                 \cup {p \in Checkers : Inside(p, c)}
    /\ UNCHANGED <<queue, worker, lease, todo, at, plan, expired, faults>>

(* The stream leaves the table, or its row is ended: some time after its   *)
(* worker is over, or never.                                               *)
WorkerEnds(c) ==
    /\ worker[c] # None
    /\ worker' = [worker EXCEPT ![c] = None]
    /\ UNCHANGED <<row, queue, lease, todo, at, plan, barred, expired, faults, edits>>

-----------------------------------------------------------------------------
Check(p) ==
    \/ Look(p) \/ TakeLease(p) \/ LookForActive(p) \/ Probe(p) \/ RecordProbe(p) \/ Join(p) \/ Unlock(p)

DiscoveryNext ==
    \/ \E p \in Checkers : Begin(p) \/ Check(p) \/ FailInside(p) \/ FailOutside(p)
    \/ \E p \in Checkers, c \in Channels : Ask(p, c)
    \/ \E c \in Channels : Expire(c) \/ Edit(c) \/ WorkerEnds(c)

DiscoverySpec == DiscoveryInit /\ [][DiscoveryNext]_discoveryVars

(* A loop goes on, its timer wakes it, and Redis forgets a lease that no   *)
(* one is under.                                                           *)
DiscoveryFairness ==
    /\ \A p \in Checkers : WF_discoveryVars(Begin(p) \/ Check(p))
    /\ \A c \in Channels : WF_discoveryVars(Expire(c) /\ \A p \in Checkers : ~Inside(p, c))

-----------------------------------------------------------------------------
(* One check of a channel at a time, but for leases that expired under a   *)
(* check: since whoever ends deletes the lease that is there, one of these *)
(* may keep two checks side by side from then on, never three.             *)
OverlapIsBounded ==
    \A c \in Channels :
        Cardinality({p \in Checkers : Inside(p, c)}) <= expired[c] + (IF c \in lease THEN 1 ELSE 0)

(* A channel that is disabled is left alone, also by a cycle that listed   *)
(* it before: only a check that has read the row by then goes on.          *)
DisabledIsLeftAlone ==
    \A c \in Channels : ~row[c].enabled => \A p \in Checkers : Inside(p, c) => p \in barred

(* A channel that stays watched is looked at again and again, whatever     *)
(* fails (a finite number of times) and whoever gives up within a check.   *)
EveryChannelIsChecked ==
    \A c \in Channels : []<>(~Watched(c) \/ \E p \in Checkers : Inside(p, c))

=============================================================================
