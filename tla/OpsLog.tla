------------------------------- MODULE OpsLog -------------------------------
(***************************************************************************)
(* DiscordOperationsService (app/discord/operations.py): alerts are posted *)
(* to a channel; one that is not critical is suppressed for five minutes   *)
(* after another of its kind.  What could not be posted goes into a        *)
(* bounded queue.  drain_retry_queue posts what is in it; the repository   *)
(* has the method and no call of it, which is Drains = {}.  Posts and      *)
(* drains overlap at their awaits.                                         *)
(***************************************************************************)
EXTENDS Naturals, Sequences, Functions, FiniteSets

CONSTANTS
    Alerts,
    KindOf,         \* the kind of an alert
    Critical,       \* kinds that are never suppressed
    Drains,         \* calls of drain_retry_queue
    DrainMax,       \* what one of them takes at most
    BacklogMax

ASSUME OpsLogAssumption ==
    /\ Alerts = DOMAIN KindOf
    /\ IsFiniteSet(Alerts) /\ IsFiniteSet(Drains)
    /\ BacklogMax \in Nat \ {0} /\ DrainMax \in Nat

VARIABLES
    post,           \* of an alert: where its call is
    recent,         \* kinds posted within the last five minutes
    backlog,        \* the queue of what is to be tried again
    drain,          \* of a drain: what it has in its hand, and how often it may go on
    delivered,      \* history: alerts Discord has taken
    displaced,      \* history: what a full queue gave up
    dropped         \* history: what a drain had taken when its request raised

opsVars == <<post, recent, backlog, drain, delivered, displaced, dropped>>

OpsLogTypeOK ==
    /\ post \in [Alerts -> {"new", "posting", "suppressed", "over"}]
    /\ backlog \in Seq(Alerts) /\ Len(backlog) <= BacklogMax
    /\ recent \in SUBSET Range(KindOf)
    /\ drain \in [Drains -> [hand : Seq(Alerts), left : 0..DrainMax]]
    /\ {delivered, displaced} \subseteq SUBSET Alerts
    /\ dropped \in [Drains -> SUBSET Alerts]

OpsLogInit ==
    /\ post = [a \in Alerts |-> "new"]
    /\ recent = {} /\ backlog = <<>>
    /\ drain = [d \in Drains |-> [hand |-> <<>>, left |-> DrainMax]]
    /\ delivered = {} /\ displaced = {}
    /\ dropped = [d \in Drains |-> {}]

(* _should_suppress_alert: the kind is taken for sent before it is.        *)
Send(a) ==
    /\ post[a] = "new"
    /\ IF KindOf[a] \in recent
       THEN post' = [post EXCEPT ![a] = "suppressed"] /\ UNCHANGED recent
       ELSE /\ post' = [post EXCEPT ![a] = "posting"]
            /\ recent' = IF KindOf[a] \in Critical THEN recent ELSE recent \cup {KindOf[a]}
    /\ UNCHANGED <<backlog, drain, delivered, displaced, dropped>>

CooldownOver(k) ==
    /\ k \in recent
    /\ recent' = recent \ {k}
    /\ UNCHANGED <<post, backlog, drain, delivered, displaced, dropped>>

(* _enqueue_retry: the oldest gives way, whatever its priority.            *)
Enqueue(a) ==
    IF Len(backlog) < BacklogMax
    THEN backlog' = Append(backlog, a) /\ UNCHANGED displaced
    ELSE backlog' = Append(Tail(backlog), a) /\ displaced' = displaced \cup {Head(backlog)}

(* _dispatch_message.  A request that timed out may have been taken.       *)
Posted(a) ==
    /\ post[a] = "posting"
    /\ post' = [post EXCEPT ![a] = "over"]
    /\ \/ delivered' = delivered \cup {a} /\ UNCHANGED <<backlog, displaced>>
       \/ Enqueue(a) /\ delivered' \in {delivered, delivered \cup {a}}
    /\ UNCHANGED <<recent, drain, dropped>>

(* drain_retry_queue takes one message after the other.                    *)
Take(d) ==
    /\ drain[d].hand = <<>> /\ drain[d].left > 0 /\ backlog # <<>>
    /\ drain' = [drain EXCEPT ![d] = [hand |-> <<Head(backlog)>>, left |-> @.left - 1]]
    /\ backlog' = Tail(backlog)
    /\ UNCHANGED <<post, recent, delivered, displaced, dropped>>

(* Fault: a drain whose request raised goes on to the next alert.          *)
DrainedGoesOn(d) ==
    LET a == Head(drain[d].hand)
        Over(left) == drain' = [drain EXCEPT ![d] = [hand |-> <<>>, left |-> left]]
    IN
    /\ drain[d].hand # <<>>
    /\ \/ Over(drain[d].left) /\ delivered' = delivered \cup {a} /\ UNCHANGED <<backlog, displaced, dropped>>
       \/ Over(0) /\ Enqueue(a) /\ UNCHANGED <<delivered, dropped>>
       \/ /\ Over(drain[d].left) /\ dropped' = [dropped EXCEPT ![d] = @ \cup {a}]
          /\ UNCHANGED <<backlog, displaced, delivered>>
    /\ UNCHANGED <<post, recent>>

(* Taken by Discord; refused, and queued again; or gone with the request   *)
(* that raised, taken or not.  After anything but success the drain is     *)
(* over.                                                                   *)
Drained(d) ==
    LET a == Head(drain[d].hand)
        Over(left) == drain' = [drain EXCEPT ![d] = [hand |-> <<>>, left |-> left]]
    IN
    /\ drain[d].hand # <<>>
    /\ \/ Over(drain[d].left) /\ delivered' = delivered \cup {a} /\ UNCHANGED <<backlog, displaced, dropped>>
       \/ Over(0) /\ Enqueue(a) /\ UNCHANGED <<delivered, dropped>>
       \/ /\ Over(0) /\ dropped' = [dropped EXCEPT ![d] = @ \cup {a}]
          /\ delivered' \in {delivered, delivered \cup {a}} /\ UNCHANGED <<backlog, displaced>>
    /\ UNCHANGED <<post, recent>>

OpsLogNext ==
    \/ \E a \in Alerts : Send(a) \/ Posted(a)
    \/ \E k \in Range(KindOf) : CooldownOver(k)
    \/ \E d \in Drains : Take(d) \/ Drained(d)

OpsLogSpec == OpsLogInit /\ [][OpsLogNext]_opsVars

-----------------------------------------------------------------------------
(* Alerts that were let through and are now neither with Discord nor kept. *)
Lost ==
    {a \in Alerts : /\ post[a] = "over" /\ a \notin delivered \cup Range(backlog)
                    /\ \A d \in Drains : drain[d].hand # <<a>>}

Sent == {a \in Alerts : post[a] = "over"}
DrainsOver == {d \in Drains : drain[d].left = 0 /\ drain[d].hand = <<>>}

(* A full queue gives up the surplus over its size, and a drain no more    *)
(* than the one alert it had taken last: not more is lost, however posts   *)
(* and drains overlap, refill the queue and fail (operations.py:335-344,   *)
(* 353-380).                                                               *)
LossIsBounded ==
    Cardinality(Lost) <=
        Cardinality(DrainsOver) + IF Cardinality(Sent) > BacklogMax THEN Cardinality(Sent) - BacklogMax ELSE 0

-----------------------------------------------------------------------------
(* What the documents say and the code does not.                           *)

(* "Discord retry queue is full; dropping oldest non-critical message"     *)
(* (operations.py:339): a critical alert that Discord does not have is not *)
(* displaced.  get_nowait takes the oldest, whatever it is.                *)
CriticalIsKept == \A a \in displaced \ delivered : KindOf[a] \notin Critical
=============================================================================
