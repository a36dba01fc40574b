------------------------------- MODULE WebSub -------------------------------
(***************************************************************************)
(* What the hub tells of a channel: receive_websub_notification (app/api/  *)
(* routes/webhooks.py).  A notification is looked up in Redis and marked   *)
(* there, stored as a discovery event, published and committed.  The hub   *)
(* delivers it again until it is acknowledged, and may do so twice at the  *)
(* same time.                                                              *)
(*                                                                         *)
(* The transaction is committed by the dependency that opened the session, *)
(* before or after the answer is sent, which depends on the version of the *)
(* framework.                                                              *)
(***************************************************************************)
EXTENDS Naturals, FiniteSets

CONSTANTS
    Deliveries,
    Tells,      \* the hash of what is delivered
    Owned,      \* hashes about a channel of a registered creator
    MaxLapses

ASSUME WebSubAssumption ==
    /\ Deliveries = DOMAIN Tells
    /\ MaxLapses \in Nat

Hashes == {Tells[d] : d \in Deliveries}

VARIABLES
    step,       \* the await a delivery is at
    marked,     \* keys in Redis
    events,     \* committed rows of a hash
    heard,      \* events published
    acked,      \* hashes the hub has had an acknowledgement for
    cutOff,     \* history: hashes marked by a delivery that failed later
    lapses      \* keys whose time was over, a day after they were set

webSubVars == <<step, marked, events, heard, acked, cutOff, lapses>>

WebSubTypeOK ==
    /\ step \in [Deliveries -> {"new", "store", "publish", "commit", "over"}]
    /\ marked \in SUBSET Hashes /\ acked \in SUBSET Hashes /\ cutOff \in SUBSET Hashes
    /\ {events, heard} \subseteq [Hashes -> Nat]
    /\ lapses \in [Hashes -> 0..MaxLapses]

WebSubInit ==
    /\ step = [d \in Deliveries |-> "new"]
    /\ marked = {} /\ acked = {} /\ cutOff = {}
    /\ events = [h \in Hashes |-> 0] /\ heard = events /\ lapses = events

Move(d, place) == step' = [step EXCEPT ![d] = place]

(* is_duplicate_or_record.                                                 *)
IsDuplicateOrRecord(d) ==
    /\ step[d] = "new"
    /\ IF Tells[d] \in marked
       THEN acked' = acked \cup {Tells[d]} /\ Move(d, "over") /\ UNCHANGED marked
       ELSE marked' = marked \cup {Tells[d]} /\ Move(d, "store") /\ UNCHANGED acked
    /\ UNCHANGED <<events, heard, cutOff, lapses>>

(* Fault: what is about no creator is not stored.                          *)
StoreOwned(d) ==
    /\ step[d] = "store"
    /\ IF Tells[d] \in Owned
       THEN Move(d, "publish") /\ UNCHANGED acked
       ELSE Move(d, "over") /\ acked' = acked \cup {Tells[d]}
    /\ UNCHANGED <<marked, events, heard, cutOff, lapses>>

(* get_by_channel_id and record_event: a channel without a creator is      *)
(* recorded too.                                                           *)
Store(d) ==
    /\ step[d] = "store"
    /\ Move(d, "publish")
    /\ UNCHANGED <<marked, events, heard, acked, cutOff, lapses>>

PublishEvent(d) ==
    /\ step[d] = "publish"
    /\ heard' = [heard EXCEPT ![Tells[d]] = @ + 1]
    /\ acked' \in {acked, acked \cup {Tells[d]}}
    /\ Move(d, "commit")
    /\ UNCHANGED <<marked, events, cutOff, lapses>>

CommitEvent(d) ==
    /\ step[d] = "commit"
    /\ events' = [events EXCEPT ![Tells[d]] = @ + 1]
    /\ acked' = acked \cup {Tells[d]}
    /\ Move(d, "over")
    /\ UNCHANGED <<marked, heard, cutOff, lapses>>

(* The database fails, or the process dies.                                *)
DeliveryFails(d) ==
    /\ step[d] \in {"store", "publish", "commit"}
    /\ cutOff' = cutOff \cup {Tells[d]}
    /\ Move(d, "over")
    /\ UNCHANGED <<marked, events, heard, acked, lapses>>

KeyLapses(h) ==
    /\ h \in marked /\ lapses[h] < MaxLapses
    /\ marked' = marked \ {h}
    /\ lapses' = [lapses EXCEPT ![h] = @ + 1]
    /\ UNCHANGED <<step, events, heard, acked, cutOff>>

WebSubNext ==
    \/ \E d \in Deliveries :
        IsDuplicateOrRecord(d) \/ Store(d) \/ PublishEvent(d) \/ CommitEvent(d) \/ DeliveryFails(d)
    \/ \E h \in Hashes : KeyLapses(h)

WebSubSpec == WebSubInit /\ [][WebSubNext]_webSubVars

-----------------------------------------------------------------------------
(* What the hub takes for received is stored, or about to be, unless the   *)
(* delivery that marked it was cut off: after that the hub is told of a    *)
(* duplicate, and what it delivers is lost.                                *)
AckedIsStored ==
    \A h \in acked :
        events[h] > 0 \/ h \in cutOff \/ \E d \in Deliveries : Tells[d] = h /\ step[d] \notin {"new", "over"}

(* What the documents say and the code does not: notifications are         *)
(* "processed exactly once" however often the hub delivers them            *)
(* (websub/dedupe.py:11).  The mark stays when the delivery that has set   *)
(* it fails, and its repetition is acknowledged as a duplicate.            *)
ToldIsProcessed ==
    \A h \in acked :
        heard[h] > 0 \/ \E d \in Deliveries : Tells[d] = h /\ step[d] \notin {"new", "over"}
=============================================================================
