---------------------------- MODULE Intelligence ----------------------------
(***************************************************************************)
(* StreamIntelligenceCoordinator (app/workers/intelligence.py): what is    *)
(* done about a chat message, from the moderation engine                   *)
(* (app/moderation/engine.py) over commands and experience points to the   *)
(* answer of the co-host, and AIBudgetManager (app/ai/budget.py), which    *)
(* both of them ask before they call the model and tell afterwards.        *)
(*                                                                         *)
(* The event bus starts a task for every message, so that any number of    *)
(* them are between two awaits at the same time; here, as many as there    *)
(* are Slots.  One process, one creator, one stream.  The counters of the  *)
(* budget are in Redis and are read and incremented one after the other;   *)
(* each has a second one in memory, which is read if Redis has no value.   *)
(***************************************************************************)
EXTENDS ModerationPolicy, FiniteSets

CONSTANTS
    Slots,          \* handlers that run at the same time
    Chatters,
    Results,        \* answers of the model: [confidence, severity]
    Limit,          \* of a counter
    Models,         \* tried in turn for one call: the model of the tier and its
                    \* fallbacks
    MaxMessages,
    Lapsing,        \* the counters whose time may be over
    MaxLapses

Counters == {"day", "stream", "minute"} \cup Chatters

ASSUME IntelligenceAssumption ==
    /\ Results \subseteq [confidence : Percent, severity : Percent]
    /\ Limit \in [Counters -> Nat \ {0}]
    /\ Models \in Nat \ {0}
    /\ Lapsing \subseteq Counters
    /\ Chatters # {} /\ Chatters \cap {"day", "stream", "minute"} = {}
    /\ MaxMessages \in Nat /\ MaxLapses \in Nat
    /\ IsFiniteSet(Slots)

VARIABLES
    handler,    \* of a slot: the await it is at, what it needs the model for, the
                \* counter it reads or increments next, the viewer, the verdict
    redis,      \* a counter in Redis; zero when there is none
    local,      \* a counter in memory
    calls,      \* history: calls in the time of a counter
    unbilled,   \* history: of these, those whose recording failed
    answers,    \* history: what the models have answered to them, and is paid for
    messages, lapses

budgetVars == <<redis, local, calls, unbilled, answers>>
aiVars == <<handler, budgetVars, messages, lapses>>

HandlerStates ==
    [at : {"free", "gate", "call", "record", "act", "engage", "send"}, job : {"moderate", "reply"},
     counter : {"day", "stream", "user", "minute"}, author : Chatters, verdict : {"ALLOW", "FLAG", "PUNISH"}]

IntelligenceTypeOK ==
    /\ handler \in [Slots -> HandlerStates]
    /\ {redis, local, calls, unbilled, answers} \subseteq [Counters -> Nat]
    /\ messages \in 0..MaxMessages /\ lapses \in 0..MaxLapses

Start(v) == [at |-> "free", job |-> "moderate", counter |-> "day", author |-> v, verdict |-> "ALLOW"]
SomeViewer == CHOOSE v \in Chatters : TRUE

IntelligenceInit ==
    /\ handler = [t \in Slots |-> Start(SomeViewer)]
    /\ redis = [k \in Counters |-> 0]
    /\ local = redis /\ calls = redis /\ unbilled = redis /\ answers = redis
    /\ messages = 0 /\ lapses = 0

At(t) == handler[t].at
Job(t) == handler[t].job

Goto(t, place) ==
    handler' = [handler EXCEPT ![t] = IF place = "free" THEN Start(SomeViewer) ELSE [@ EXCEPT !.at = place]]

(* The counters are gone through from the first.                           *)
GotoCounters(t, place, what) ==
    handler' = [handler EXCEPT ![t] =
        [at |-> place, job |-> what, counter |-> "day", author |-> @.author, verdict |-> @.verdict]]

-----------------------------------------------------------------------------
(* A message comes in, and the layers that need no model look at it: what  *)
(* the bot says is dropped; the owner, moderators, banter and short        *)
(* messages are let through; rules and the detector of spam convict.       *)
Arrive(t) ==
    /\ At(t) = "free" /\ messages < MaxMessages
    /\ messages' = messages + 1
    /\ \E v \in Chatters, place \in {"act", "engage", "gate"} :
        handler' = [handler EXCEPT ![t] = [Start(v) EXCEPT !.at = place]]
    /\ UNCHANGED <<budgetVars, lapses>>

-----------------------------------------------------------------------------
Key(t) == IF handler[t].counter = "user" THEN handler[t].author ELSE handler[t].counter

(* The minute has no counter in memory.                                    *)
Reading(k) == IF redis[k] # 0 \/ k = "minute" THEN redis[k] ELSE local[k]

(* The order in which the counters are read and incremented; the one of    *)
(* the viewer is not read for moderation.                                  *)
Following(t) ==
    CASE handler[t].counter = "day" -> "stream"
      [] handler[t].counter = "stream" /\ ~(At(t) = "gate" /\ Job(t) = "moderate") -> "user"
      [] OTHER -> "minute"

Advance(t) == handler' = [handler EXCEPT ![t] = [@ EXCEPT !.counter = Following(t)]]

(* Fault: the limit itself is still let through.                           *)
GateAtLimit(t) ==
    /\ At(t) = "gate"
    /\ IF Reading(Key(t)) > Limit[Key(t)] THEN Goto(t, IF Job(t) = "moderate" THEN "engage" ELSE "free")
       ELSE IF handler[t].counter = "minute" THEN Goto(t, "call")
       ELSE Advance(t)
    /\ UNCHANGED <<budgetVars, messages, lapses>>

(* can_dispatch, one of its reads.  Out of budget, moderation lets the     *)
(* message through and the co-host is silent.                              *)
Gate(t) ==
    /\ At(t) = "gate"
    /\ IF Reading(Key(t)) >= Limit[Key(t)] THEN Goto(t, IF Job(t) = "moderate" THEN "engage" ELSE "free")
       ELSE IF handler[t].counter = "minute" THEN Goto(t, "call")
       ELSE Advance(t)
    /\ UNCHANGED <<budgetVars, messages, lapses>>

(* What a call is part of: moderation is not held against the viewer.      *)
Dimensions(t) == {"day", "stream", "minute"} \cup (IF Job(t) = "reply" THEN {handler[t].author} ELSE {})

CountIn(f, K) == [k \in Counters |-> IF k \in K THEN f[k] + 1 ELSE f[k]]

(* One call: the models are asked in turn until one gives an answer that   *)
(* can be used.  Those before it may have answered too, with what is not   *)
(* the JSON or not the schema, and none may have answered.                 *)
Call(t) ==
    /\ calls' = CountIn(calls, Dimensions(t))
    /\ \E n \in 0..Models :
          answers' = [k \in Counters |-> IF k \in Dimensions(t) THEN answers[k] + n ELSE answers[k]]

Sentence(r) ==
    LET action == Judgement(r.confidence, r.severity, "BALANCED") IN
    IF action \in {"ALLOW", "FLAG"} THEN action ELSE "PUNISH"

(* classify and the policy.  When every model has failed the result is the *)
(* default one, of no confidence and harmless, and counts as a dispatch.   *)
Classify(t) ==
    /\ At(t) = "call" /\ Job(t) = "moderate"
    /\ Call(t)
    /\ \E r \in Results :
        handler' = [handler EXCEPT ![t] = [at |-> "record", job |-> "moderate", counter |-> "day",
                                           author |-> @.author, verdict |-> Sentence(r)]]
    /\ UNCHANGED <<redis, local, unbilled, messages, lapses>>

(* An answer for the chat; a greeting is made up without the model.        *)
Reply(t) ==
    /\ At(t) = "call" /\ Job(t) = "reply"
    /\ Call(t) \/ UNCHANGED <<calls, answers>>
    /\ GotoCounters(t, "record", "reply")
    /\ UNCHANGED <<redis, local, unbilled, messages, lapses>>

(* All models fail, or nothing is left of the answer: there is no reply,   *)
(* and what the answers have cost is recorded nowhere.                     *)
ReplyFails(t) ==
    /\ At(t) = "call" /\ Job(t) = "reply"
    /\ Call(t) /\ unbilled' = CountIn(unbilled, Dimensions(t))
    /\ Goto(t, "free")
    /\ UNCHANGED <<redis, local, messages, lapses>>

AfterRecord(t) ==
    IF Job(t) = "reply" THEN "send" ELSE IF handler[t].verdict = "PUNISH" THEN "act" ELSE "engage"

Increment(k) ==
    /\ redis' = CountIn(redis, {k})
    /\ local' = CountIn(local, {k} \ {"minute"})

(* record_dispatch, one of its increments.                                 *)
Record(t) ==
    /\ At(t) = "record"
    /\ Increment(Key(t))
    /\ IF handler[t].counter = "minute" THEN Goto(t, AfterRecord(t)) ELSE Advance(t)
    /\ UNCHANGED <<calls, unbilled, answers, messages, lapses>>

(* The counters that have not been reached.                                *)
Left(t) ==
    CASE handler[t].counter = "day" -> Counters
      [] handler[t].counter = "stream" -> Counters \ {"day"}
      [] handler[t].counter = "user" -> Counters \ {"day", "stream"}
      [] OTHER -> {"minute"}

(* Redis fails.  An answer for moderation counts for nothing then: the     *)
(* message is flagged, whatever the model has said of it.  A reply is not  *)
(* sent.                                                                   *)
RecordFails(t) ==
    /\ At(t) = "record"
    /\ unbilled' = CountIn(unbilled, Left(t) \cap Dimensions(t))
    /\ Goto(t, IF Job(t) = "moderate" THEN "engage" ELSE "free")
    /\ UNCHANGED <<redis, local, calls, answers, messages, lapses>>

-----------------------------------------------------------------------------
(* execute_decision.  A message that was deleted, and a viewer who was     *)
(* banned for it, are dealt with further like any other.                   *)
Act(t) ==
    /\ At(t) = "act"
    /\ Goto(t, "engage")
    /\ UNCHANGED <<budgetVars, messages, lapses>>

(* A command or the end of a game is answered at once; any other message   *)
(* earns experience, and the co-host answers it or does not.               *)
Engage(t) ==
    /\ At(t) = "engage"
    /\ Goto(t, "send") \/ Goto(t, "free") \/ GotoCounters(t, "gate", "reply")
    /\ UNCHANGED <<budgetVars, messages, lapses>>

(* Whatever becomes of the message that is sent.                           *)
SendReply(t) ==
    /\ At(t) = "send"
    /\ Goto(t, "free")
    /\ UNCHANGED <<budgetVars, messages, lapses>>

(* Redis fails at a read, execute_decision or the database: the bus        *)
(* swallows the exception, and the message is dealt with no further.       *)
HandlerFails(t) ==
    /\ At(t) \in {"gate", "act", "engage"}
    /\ Goto(t, "free")
    /\ UNCHANGED <<budgetVars, messages, lapses>>

-----------------------------------------------------------------------------
(* A counter is over: midnight, the next minute, or its time to live.      *)
Lapse(k) ==
    /\ lapses < MaxLapses
    /\ lapses' = lapses + 1
    /\ redis' = [redis EXCEPT ![k] = 0]
    /\ calls' = [calls EXCEPT ![k] = 0] /\ answers' = [answers EXCEPT ![k] = 0]
    /\ unbilled' = [unbilled EXCEPT ![k] = 0]
    /\ UNCHANGED <<handler, local, messages>>

-----------------------------------------------------------------------------
Attend(t) ==
    \/ Gate(t) \/ Classify(t) \/ Reply(t) \/ ReplyFails(t) \/ Record(t) \/ RecordFails(t)
    \/ Act(t) \/ Engage(t) \/ SendReply(t) \/ HandlerFails(t)

IntelligenceNext ==
    \/ \E t \in Slots : Arrive(t) \/ Attend(t)
    \/ \E k \in Lapsing : Lapse(k)

IntelligenceSpec == IntelligenceInit /\ [][IntelligenceNext]_aiVars

-----------------------------------------------------------------------------
(* The budget is checked before a call and recorded after it, and a call   *)
(* counts once, however many models have answered.  So it can be passed,   *)
(* but by no more calls than there are other handlers that were on their   *)
(* way, and those that could not be recorded; and what is paid for is no   *)
(* more than an answer of each model of the tier for each call.            *)
BudgetHolds ==
    \A k \in Counters :
        /\ calls[k] <= Limit[k] + Cardinality(Slots) - 1 + unbilled[k]
        /\ answers[k] <= Models * calls[k]

(* "Enforced ... request ceilings", says the architecture of the budget,   *)
(* against runaway spend: what is paid for stays within the limit.         *)
CeilingIsEnforced == \A k \in Counters : answers[k] <= Limit[k]

=============================================================================
