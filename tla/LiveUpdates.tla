---------------------------- MODULE LiveUpdates -----------------------------
(***************************************************************************)
(* SSEBroadcaster (app/api/sse.py): the events of a process go to the      *)
(* clients of the control center.  A client that comes back names the last *)
(* id it was sent, and is sent what it has missed before what is new.      *)
(*                                                                         *)
(* The sections under the lock of the broadcaster have no await, so that   *)
(* each of its methods is one step; between them lie the yields of the     *)
(* generator of a client.  Events are numbered as the bus dispatches them. *)
(***************************************************************************)
EXTENDS Naturals, Sequences, FiniteSets, Functions

CONSTANTS
    Clients,
    Events,         \* how many events there are
    ReplayMax,      \* size of the replay buffer
    BufferMax,      \* of the queue of a client
    MaxVisits       \* connections of a client

ASSUME LiveUpdatesAssumption ==
    /\ Events \in Nat /\ MaxVisits \in Nat
    /\ ReplayMax \in Nat \ {0} /\ BufferMax \in Nat \ {0}

VARIABLES
    emitted,
    replay,         \* the replay buffer
    feed,           \* the queue of a client; <<>> when it is not registered
    registered,
    visit,          \* where the generator of a client is
    missed,         \* events it has still to replay
    replayed,       \* ids it will not send again
    last,           \* the last event a client was sent, 0 for none
    newest,         \* the last id a client was sent, which may be that of a greeting
    named,          \* the id it has named to begin this connection
    lossy,          \* clients an event was dropped for
    visits

feedVars == <<emitted, replay, feed, registered, visit, missed, replayed, last, newest, named, lossy, visits>>

Greeting == Events + 1  \* the id of a greeting, which no event has

LiveUpdatesTypeOK ==
    /\ emitted \in 0..Events
    /\ replay \in Seq(1..Events) /\ Len(replay) <= ReplayMax
    /\ feed \in [Clients -> Seq(1..Events)] /\ \A c \in Clients : Len(feed[c]) <= BufferMax
    /\ registered \in SUBSET Clients
    /\ visit \in [Clients -> {"away", "greeted", "replaying", "live"}]
    /\ missed \in [Clients -> Seq(1..Events)]
    /\ replayed \in [Clients -> SUBSET (1..Events)]
    /\ last \in [Clients -> 0..Events]
    /\ newest \in [Clients -> 0..Greeting] /\ named \in [Clients -> 0..Greeting]
    /\ lossy \in SUBSET Clients
    /\ visits \in [Clients -> 0..MaxVisits]

LiveUpdatesInit ==
    /\ emitted = 0
    /\ replay = <<>>
    /\ feed = [c \in Clients |-> <<>>]
    /\ registered = {}
    /\ visit = [c \in Clients |-> "away"]
    /\ missed = [c \in Clients |-> <<>>]
    /\ replayed = [c \in Clients |-> {}]
    /\ last = [c \in Clients |-> 0]
    /\ newest = last /\ named = last
    /\ lossy = {}
    /\ visits = [c \in Clients |-> 0]

-----------------------------------------------------------------------------
(* A full buffer gives up its oldest entry.                                *)
Push(s, e, max) == IF Len(s) < max THEN Append(s, e) ELSE Append(Tail(s), e)

(* _handle_event: what a client loses that has not had it replayed.        *)
Emit ==
    LET e == emitted + 1 IN
    /\ emitted < Events
    /\ emitted' = e
    /\ replay' = Push(replay, e, ReplayMax)
    /\ feed' = [c \in Clients |-> IF c \in registered THEN Push(feed[c], e, BufferMax) ELSE feed[c]]
    /\ lossy' = lossy \cup {c \in registered : Len(feed[c]) = BufferMax}
    /\ UNCHANGED <<registered, visit, missed, replayed, last, newest, named, visits>>

(* register_client and the greeting.  A client with a queue of an earlier  *)
(* connection that was never removed is another client to the broadcaster. *)
Connect(c) ==
    /\ visit[c] = "away" /\ visits[c] < MaxVisits
    /\ visits' = [visits EXCEPT ![c] = @ + 1]
    /\ registered' = registered \cup {c}
    /\ feed' = [feed EXCEPT ![c] = <<>>]
    /\ named' = [named EXCEPT ![c] = newest[c]]
    /\ newest' = [newest EXCEPT ![c] = Greeting]
    /\ visit' = [visit EXCEPT ![c] = "greeted"]
    /\ UNCHANGED <<emitted, replay, missed, replayed, last, lossy>>

(* get_replay_events: all that follows the event the client names; nothing *)
(* if that is no longer in the buffer, or was never an event.              *)
Known(e) == \E i \in DOMAIN replay : replay[i] = e
After(e) ==
    LET i == CHOOSE i \in DOMAIN replay : replay[i] = e
    IN  SubSeq(replay, i + 1, Len(replay))

Replay(c) ==
    /\ visit[c] = "greeted"
    /\ missed' = [missed EXCEPT ![c] = IF Known(named[c]) THEN After(named[c]) ELSE <<>>]
    /\ lossy' = IF named[c] # 0 /\ ~Known(named[c]) THEN lossy \cup {c} ELSE lossy
    /\ visit' = [visit EXCEPT ![c] = "replaying"]
    /\ UNCHANGED <<emitted, replay, feed, registered, replayed, last, newest, named, visits>>

SendMissed(c) ==
    /\ visit[c] = "replaying" /\ missed[c] # <<>>
    /\ last' = [last EXCEPT ![c] = Head(missed[c])]
    /\ newest' = [newest EXCEPT ![c] = Head(missed[c])]
    /\ replayed' = [replayed EXCEPT ![c] = @ \cup {Head(missed[c])}]
    /\ missed' = [missed EXCEPT ![c] = Tail(@)]
    /\ UNCHANGED <<emitted, replay, feed, registered, visit, named, lossy, visits>>

GoLive(c) ==
    /\ visit[c] = "replaying" /\ missed[c] = <<>>
    /\ visit' = [visit EXCEPT ![c] = "live"]
    /\ UNCHANGED <<emitted, replay, feed, registered, missed, replayed, last, newest, named, lossy, visits>>

(* Fault: an event is sent whether it was replayed or not.                 *)
SendAgain(c) ==
    /\ visit[c] = "live" /\ feed[c] # <<>>
    /\ feed' = [feed EXCEPT ![c] = Tail(@)]
    /\ last' = [last EXCEPT ![c] = Head(feed[c])]
    /\ newest' = [newest EXCEPT ![c] = Head(feed[c])]
    /\ UNCHANGED <<emitted, replay, registered, visit, missed, replayed, named, lossy, visits>>

Send(c) ==
    LET e == Head(feed[c]) IN
    /\ visit[c] = "live" /\ feed[c] # <<>>
    /\ feed' = [feed EXCEPT ![c] = Tail(@)]
    /\ replayed' = [replayed EXCEPT ![c] = @ \ {e}]
    /\ last' = IF e \in replayed[c] THEN last ELSE [last EXCEPT ![c] = e]
    /\ newest' = IF e \in replayed[c] THEN newest ELSE [newest EXCEPT ![c] = e]
    /\ UNCHANGED <<emitted, replay, registered, visit, missed, named, lossy, visits>>

(* The connection goes.  Only the live part of the generator unregisters.  *)
Disconnect(c) ==
    /\ visit[c] # "away"
    /\ registered' = IF visit[c] = "live" THEN registered \ {c} ELSE registered
    /\ feed' = IF visit[c] = "live" THEN [feed EXCEPT ![c] = <<>>] ELSE feed
    /\ visit' = [visit EXCEPT ![c] = "away"]
    /\ missed' = [missed EXCEPT ![c] = <<>>]
    /\ replayed' = [replayed EXCEPT ![c] = {}]
    /\ UNCHANGED <<emitted, replay, last, newest, named, lossy, visits>>

-----------------------------------------------------------------------------
LiveUpdatesNext ==
    \/ Emit
    \/ \E c \in Clients : Connect(c) \/ Replay(c) \/ SendMissed(c) \/ GoLive(c) \/ Send(c) \/ Disconnect(c)

LiveUpdatesSpec == LiveUpdatesInit /\ [][LiveUpdatesNext]_feedVars

-----------------------------------------------------------------------------
(* What a client is still to be sent: what it missed, then what is in its  *)
(* queue and is not of the replay.                                         *)
Fresh(c) == {i \in DOMAIN feed[c] : feed[c][i] \notin replayed[c] \cup Range(missed[c])}
Coming(c) == Range(missed[c]) \cup {feed[c][i] : i \in Fresh(c)}

(* What a client is sent over its connections is in order and without      *)
(* repetition, though the replay and the queue overlap; and without a gap, *)
(* as long as no buffer was too small for it.                              *)
FeedHasNoGap ==
    \A c \in Clients : visit[c] \in {"replaying", "live"} =>
        /\ \A i \in DOMAIN missed[c] :
            /\ missed[c][i] > last[c]
            /\ \A k \in DOMAIN missed[c] : k < i => missed[c][k] < missed[c][i]
        /\ \A i \in Fresh(c) :
            /\ feed[c][i] > last[c]
            /\ \A k \in DOMAIN missed[c] : missed[c][k] < feed[c][i]
            /\ \A k \in Fresh(c) : k < i => feed[c][k] < feed[c][i]
        /\ last[c] # 0 /\ c \notin lossy => Coming(c) = (last[c] + 1)..emitted

=============================================================================
