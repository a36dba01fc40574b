-------------------------- MODULE Handlers_proofs ---------------------------
(***************************************************************************)
(* Theorems about what a message sets off: the calls of the AI and their   *)
(* budget (Intelligence), games and experience points (Engagement), and    *)
(* the custom commands (Commands), for any handlers, messages, viewers,    *)
(* requests and limits.                                                    *)
(***************************************************************************)
EXTENDS Intelligence, Engagement, Commands, FiniteSetTheorems, TLAPS

-----------------------------------------------------------------------------
(* The handlers that an answer of the model may still come to, and that    *)
(* have found room in the counter; and those that have an answer they have *)
(* not counted yet.                                                        *)
Cleared(t) ==
    CASE handler[t].counter = "day" -> {}
      [] handler[t].counter = "stream" -> {"day"}
      [] handler[t].counter = "user" -> {"day", "stream"}
      [] OTHER -> Dimensions(t) \ {"minute"}

Ahead(k) ==
    {t \in Slots : \/ At(t) = "gate" /\ k \in Cleared(t)
                   \/ At(t) = "call" /\ k \in Dimensions(t)}

Owing(k) == {t \in Slots : At(t) = "record" /\ k \in Left(t) \cap Dimensions(t)}

(* A call is in Redis, or is owed, or was lost.                            *)
SpentIsKnown == \A k \in Counters : calls[k] <= redis[k] + unbilled[k] + Cardinality(Owing(k))

(* Whoever has found room has left room for all the others.                *)
RoomForAll ==
    \A k \in Counters :
        calls[k] + Cardinality(Ahead(k)) <= Limit[k] + Cardinality(Slots) - 1 + unbilled[k]

(* Moderation does not read the counter of the viewer.                     *)
ReadsInOrder ==
    \A t \in Slots : At(t) = "gate" /\ handler[t].counter = "user" => Job(t) = "reply"

(* A call has no more answers than there are models to ask.                *)
AnswersOfCalls == \A k \in Counters : answers[k] <= Models * calls[k]

BudgetInv ==
    /\ IntelligenceTypeOK
    /\ ReadsInOrder
    /\ SpentIsKnown
    /\ RoomForAll
    /\ AnswersOfCalls

-----------------------------------------------------------------------------
(* Sets of slots: they are finite, a part is no larger than the whole, and *)
(* one that lacks a single slot is smaller by one.                         *)
LEMMA SlotSets ==
    ASSUME NEW A \in SUBSET Slots
    PROVE  /\ Cardinality(A) \in Nat
           /\ \A B \in SUBSET Slots : A \subseteq B => Cardinality(A) <= Cardinality(B)
           /\ \A B \in SUBSET Slots, t \in Slots : A \subseteq B \cup {t} => Cardinality(A) <= Cardinality(B) + 1
           /\ \A B \in SUBSET Slots, t \in A : B \subseteq A \ {t} => Cardinality(B) <= Cardinality(A) - 1
           /\ \A B \in SUBSET Slots : A \cap B = {} => Cardinality(A) + Cardinality(B) <= Cardinality(Slots)
<1>1. IsFiniteSet(Slots)
  BY IntelligenceAssumption
<1>2. \A B \in SUBSET Slots : IsFiniteSet(B) /\ Cardinality(B) \in Nat
  BY <1>1, FS_Subset, FS_CardinalityType
<1>3. ASSUME NEW B \in SUBSET Slots, NEW C \in SUBSET Slots, B \subseteq C
      PROVE  Cardinality(B) <= Cardinality(C)
  BY <1>2, <1>3, FS_Subset
<1>4. ASSUME NEW B \in SUBSET Slots, NEW t \in Slots, A \subseteq B \cup {t}
      PROVE  Cardinality(A) <= Cardinality(B) + 1
  <2>1. Cardinality(B \cup {t}) <= Cardinality(B) + 1
    BY <1>2, FS_AddElement
  <2>2. Cardinality(A) <= Cardinality(B \cup {t})
    BY <1>3, <1>4
  <2> QED
    BY <1>2, <2>1, <2>2
<1>5. ASSUME NEW B \in SUBSET Slots, NEW t \in A, B \subseteq A \ {t}
      PROVE  Cardinality(B) <= Cardinality(A) - 1
  <2>1. Cardinality(A \ {t}) = Cardinality(A) - 1
    BY <1>2, FS_RemoveElement
  <2>2. Cardinality(B) <= Cardinality(A \ {t})
    BY <1>3, <1>5
  <2> QED
    BY <2>1, <2>2
<1>6. ASSUME NEW B \in SUBSET Slots, A \cap B = {}
      PROVE  Cardinality(A) + Cardinality(B) <= Cardinality(Slots)
  <2>1. Cardinality(A \cup B) = Cardinality(A) + Cardinality(B)
    <3>1. Cardinality(A \cup B) = Cardinality(A) + Cardinality(B) - Cardinality(A \cap B)
      BY <1>2, FS_Union
    <3> QED
      BY <1>2, <1>6, <3>1, FS_EmptySet
  <2>2. Cardinality(A \cup B) <= Cardinality(Slots)
    BY <1>3
  <2> QED
    BY <2>1, <2>2
<1> QED
  BY <1>2, <1>3, <1>4, <1>5, <1>6

(* Where a handler is after the two ways it moves on.                      *)
LEMMA Moved ==
    ASSUME IntelligenceTypeOK, NEW t \in Slots
    PROVE  /\ \A place \in {"gate", "call", "record", "act", "engage", "send"} :
                 Goto(t, place) =>
                    handler' = [handler EXCEPT ![t] =
                      [at |-> place, job |-> Job(t), counter |-> handler[t].counter,
                       author |-> handler[t].author, verdict |-> handler[t].verdict]]
           /\ Goto(t, "free") => handler' = [handler EXCEPT ![t] = Start(SomeViewer)]
           /\ Advance(t) =>
                    handler' = [handler EXCEPT ![t] =
                      [at |-> At(t), job |-> Job(t), counter |-> Following(t),
                       author |-> handler[t].author, verdict |-> handler[t].verdict]]
           /\ \A place \in {"gate", "record"} : GotoCounters(t, place, "reply") =>
                    handler' = [handler EXCEPT ![t] =
                      [at |-> place, job |-> "reply", counter |-> "day",
                       author |-> handler[t].author, verdict |-> handler[t].verdict]]
<1>1. handler \in [Slots -> HandlerStates] /\ handler[t] \in HandlerStates
  BY DEF IntelligenceTypeOK
<1>2. \A place : [handler[t] EXCEPT !.at = place] =
         [at |-> place, job |-> Job(t), counter |-> handler[t].counter,
          author |-> handler[t].author, verdict |-> handler[t].verdict]
  BY <1>1 DEF HandlerStates, Job
<1>3. [handler[t] EXCEPT !.counter = Following(t)] =
         [at |-> At(t), job |-> Job(t), counter |-> Following(t),
          author |-> handler[t].author, verdict |-> handler[t].verdict]
  BY <1>1 DEF HandlerStates, Job, At
<1>6. Advance(t) => handler' = [handler EXCEPT ![t] = [handler[t] EXCEPT !.counter = Following(t)]]
  BY DEF Advance
<1>7. \A place \in {"gate", "call", "record", "act", "engage", "send"} :
         Goto(t, place) => handler' = [handler EXCEPT ![t] = [handler[t] EXCEPT !.at = place]]
  BY DEF Goto
<1>8. Goto(t, "free") => handler' = [handler EXCEPT ![t] = Start(SomeViewer)]
  BY DEF Goto
<1>10. Advance(t) =>
         handler' = [handler EXCEPT ![t] =
           [at |-> At(t), job |-> Job(t), counter |-> Following(t),
            author |-> handler[t].author, verdict |-> handler[t].verdict]]
  BY <1>3, <1>6
<1>11. ASSUME NEW place \in {"gate", "call", "record", "act", "engage", "send"}, Goto(t, place)
       PROVE  handler' = [handler EXCEPT ![t] =
                [at |-> place, job |-> Job(t), counter |-> handler[t].counter,
                 author |-> handler[t].author, verdict |-> handler[t].verdict]]
  BY <1>2, <1>7, <1>11
<1>12. ASSUME NEW place \in {"gate", "record"}, GotoCounters(t, place, "reply")
       PROVE  handler' = [handler EXCEPT ![t] =
                [at |-> place, job |-> "reply", counter |-> "day",
                 author |-> handler[t].author, verdict |-> handler[t].verdict]]
  BY <1>12 DEF GotoCounters
<1> QED
  BY <1>8, <1>10, <1>11, <1>12

-----------------------------------------------------------------------------
(* The accounts balance after a step of one handler if they do for every   *)
(* counter, where only this handler may have come to be ahead or owing.    *)
Balanced(k) ==
    /\ calls[k] <= redis[k] + unbilled[k] + Cardinality(Owing(k))
    /\ calls[k] + Cardinality(Ahead(k)) <= Limit[k] + Cardinality(Slots) - 1 + unbilled[k]

Nats == {redis, local, calls, unbilled, answers} \subseteq [Counters -> Nat]

(* No handler comes to be ahead, none stops owing, and what is counted     *)
(* does not change, or grows with what was lost.                           *)
LEMMA StillBalanced ==
    ASSUME NEW k \in Counters, Nats, Nats', Balanced(k),
           redis'[k] = redis[k],
           \E n \in {0, 1} : calls'[k] = calls[k] + n /\ unbilled'[k] = unbilled[k] + n,
           Ahead(k)' \subseteq Ahead(k), Owing(k) \subseteq Owing(k)'
    PROVE  Balanced(k)'
<1>1. /\ Ahead(k) \in SUBSET Slots /\ Ahead(k)' \in SUBSET Slots
      /\ Owing(k) \in SUBSET Slots /\ Owing(k)' \in SUBSET Slots
  BY DEF Ahead, Owing
<1>2. Cardinality(Ahead(k)') <= Cardinality(Ahead(k)) /\ Cardinality(Owing(k)) <= Cardinality(Owing(k)')
  BY <1>1, SlotSets
<1>3. /\ Cardinality(Ahead(k)') \in Nat /\ Cardinality(Ahead(k)) \in Nat
      /\ Cardinality(Owing(k)') \in Nat /\ Cardinality(Owing(k)) \in Nat /\ Cardinality(Slots) \in Nat
  BY <1>1, SlotSets
<1>4. /\ Limit[k] \in Nat /\ redis[k] \in Nat /\ calls[k] \in Nat /\ unbilled[k] \in Nat
  BY IntelligenceAssumption DEF Nats
<1> QED
  BY <1>2, <1>3, <1>4 DEF Balanced

(* A handler finds room: it is one of the Slots, ahead or owing.           *)
LEMMA FindsRoom ==
    ASSUME NEW k \in Counters, Nats, Nats', Balanced(k), redis[k] < Limit[k],
           redis'[k] = redis[k], calls'[k] = calls[k], unbilled'[k] = unbilled[k],
           Owing(k) \subseteq Owing(k)'
    PROVE  Balanced(k)'
<1>1. /\ Ahead(k)' \in SUBSET Slots /\ Owing(k) \in SUBSET Slots /\ Owing(k)' \in SUBSET Slots
      /\ Ahead(k)' \cap Owing(k)' = {}
  BY DEF Ahead, Owing
<1>2. /\ Cardinality(Owing(k)) <= Cardinality(Owing(k)')
      /\ Cardinality(Ahead(k)') + Cardinality(Owing(k)') <= Cardinality(Slots)
  BY <1>1, SlotSets
<1>3. /\ Cardinality(Ahead(k)') \in Nat /\ Cardinality(Owing(k)') \in Nat
      /\ Cardinality(Owing(k)) \in Nat /\ Cardinality(Slots) \in Nat
  BY <1>1, SlotSets
<1>4. Limit[k] \in Nat /\ redis[k] \in Nat /\ calls[k] \in Nat /\ unbilled[k] \in Nat
  BY IntelligenceAssumption DEF Nats
<1> QED
  BY <1>2, <1>3, <1>4 DEF Balanced

(* A handler has its answer: it was ahead, and owes now.                   *)
LEMMA Spends ==
    ASSUME NEW k \in Counters, NEW t \in Slots, Nats, Nats', Balanced(k),
           redis'[k] = redis[k], calls'[k] = calls[k] + 1, unbilled'[k] = unbilled[k],
           t \in Ahead(k), Ahead(k)' \subseteq Ahead(k) \ {t},
           t \in Owing(k)', Owing(k) \subseteq Owing(k)' \ {t}
    PROVE  Balanced(k)'
<1>1. /\ Ahead(k) \in SUBSET Slots /\ Ahead(k)' \in SUBSET Slots
      /\ Owing(k) \in SUBSET Slots /\ Owing(k)' \in SUBSET Slots
  BY DEF Ahead, Owing
<1>2. /\ Cardinality(Ahead(k)') <= Cardinality(Ahead(k)) - 1
      /\ Cardinality(Owing(k)) <= Cardinality(Owing(k)') - 1
  BY <1>1, SlotSets
<1>3. /\ Cardinality(Ahead(k)') \in Nat /\ Cardinality(Ahead(k)) \in Nat
      /\ Cardinality(Owing(k)') \in Nat /\ Cardinality(Owing(k)) \in Nat /\ Cardinality(Slots) \in Nat
  BY <1>1, SlotSets
<1>4. Limit[k] \in Nat /\ redis[k] \in Nat /\ calls[k] \in Nat /\ unbilled[k] \in Nat
  BY IntelligenceAssumption DEF Nats
<1> QED
  BY <1>2, <1>3, <1>4 DEF Balanced

(* A handler pays what it owes, or fails to.                               *)
LEMMA Pays ==
    ASSUME NEW k \in Counters, NEW t \in Slots, Nats, Nats', Balanced(k), calls'[k] = calls[k],
           \/ redis'[k] = redis[k] + 1 /\ unbilled'[k] = unbilled[k]
           \/ redis'[k] = redis[k] /\ unbilled'[k] = unbilled[k] + 1,
           Ahead(k)' \subseteq Ahead(k), Owing(k) \subseteq Owing(k)' \cup {t}
    PROVE  Balanced(k)'
<1>1. /\ Ahead(k) \in SUBSET Slots /\ Ahead(k)' \in SUBSET Slots
      /\ Owing(k) \in SUBSET Slots /\ Owing(k)' \in SUBSET Slots
  BY DEF Ahead, Owing
<1>2. /\ Cardinality(Ahead(k)') <= Cardinality(Ahead(k))
      /\ Cardinality(Owing(k)) <= Cardinality(Owing(k)') + 1
  BY <1>1, SlotSets
<1>3. /\ Cardinality(Ahead(k)') \in Nat /\ Cardinality(Ahead(k)) \in Nat
      /\ Cardinality(Owing(k)') \in Nat /\ Cardinality(Owing(k)) \in Nat /\ Cardinality(Slots) \in Nat
  BY <1>1, SlotSets
<1>4. Limit[k] \in Nat /\ redis[k] \in Nat /\ calls[k] \in Nat /\ unbilled[k] \in Nat
  BY IntelligenceAssumption DEF Nats
<1> QED
  BY <1>2, <1>3, <1>4 DEF Balanced

-----------------------------------------------------------------------------
(* What a step of one handler does is nothing to the others.               *)
LEMMA OthersStay ==
    ASSUME NEW t \in Slots, NEW u \in Slots, handler'[u] = handler[u], NEW k \in Counters
    PROVE  (u \in Ahead(k)' <=> u \in Ahead(k)) /\ (u \in Owing(k)' <=> u \in Owing(k))
BY DEF Ahead, Owing, At, Job, Cleared, Dimensions, Left

(* The type of the state is kept by every step.                            *)
LEMMA IntelligenceTypeStep ==
    ASSUME IntelligenceTypeOK, [IntelligenceNext]_aiVars
    PROVE  IntelligenceTypeOK'
<1> USE IntelligenceAssumption
<1>0. /\ handler \in [Slots -> HandlerStates] /\ redis \in [Counters -> Nat] /\ local \in [Counters -> Nat]
      /\ calls \in [Counters -> Nat] /\ unbilled \in [Counters -> Nat] /\ answers \in [Counters -> Nat]
      /\ messages \in 0..MaxMessages /\ lapses \in 0..MaxLapses
  BY DEF IntelligenceTypeOK
<1>1. \A v \in Chatters : Start(v) \in HandlerStates
  BY DEF Start, HandlerStates
<1>2. SomeViewer \in Chatters
  BY DEF SomeViewer
<1>3. \A f \in [Counters -> Nat], K \in SUBSET Counters : CountIn(f, K) \in [Counters -> Nat]
  BY DEF CountIn
<1>4. \A t \in Slots : Key(t) \in Counters /\ Dimensions(t) \in SUBSET Counters
  BY <1>0 DEF Key, Dimensions, Counters, HandlerStates
<1>15. ASSUME NEW t \in Slots, Call(t)
       PROVE  calls' \in [Counters -> Nat] /\ answers' \in [Counters -> Nat]
  <2>1. PICK n \in 0..Models :
          answers' = [k \in Counters |-> IF k \in Dimensions(t) THEN answers[k] + n ELSE answers[k]]
    BY <1>15 DEF Call
  <2>2. answers' \in [Counters -> Nat]
    BY <1>0, <2>1
  <2> QED
    BY <1>0, <1>3, <1>4, <1>15, <2>2 DEF Call
<1>5. ASSUME NEW t \in Slots, NEW place \in {"gate", "call", "record", "act", "engage", "send", "free"},
             Goto(t, place)
      PROVE  handler' \in [Slots -> HandlerStates]
  <2>1. CASE place = "free"
    <3>1. handler' = [handler EXCEPT ![t] = Start(SomeViewer)]
      BY <1>5, <2>1 DEF Goto
    <3> QED
      BY <1>0, <1>1, <1>2, <3>1
  <2>2. CASE place # "free"
    <3>1. handler' = [handler EXCEPT ![t] =
                [at |-> place, job |-> Job(t), counter |-> handler[t].counter,
                 author |-> handler[t].author, verdict |-> handler[t].verdict]]
      BY <1>5, <2>2, Moved
    <3>2. [at |-> place, job |-> Job(t), counter |-> handler[t].counter,
           author |-> handler[t].author, verdict |-> handler[t].verdict] \in HandlerStates
      BY <1>0, <2>2 DEF HandlerStates, Job
    <3> QED
      BY <1>0, <3>1, <3>2
  <2> QED
    BY <2>1, <2>2
<1>6. ASSUME NEW t \in Slots, Advance(t) PROVE handler' \in [Slots -> HandlerStates]
  <2>1. handler' = [handler EXCEPT ![t] =
           [at |-> At(t), job |-> Job(t), counter |-> Following(t),
            author |-> handler[t].author, verdict |-> handler[t].verdict]]
    BY <1>6, Moved
  <2>2. Following(t) \in {"day", "stream", "user", "minute"}
    BY DEF Following
  <2>3. [at |-> At(t), job |-> Job(t), counter |-> Following(t),
         author |-> handler[t].author, verdict |-> handler[t].verdict] \in HandlerStates
    BY <1>0, <2>2 DEF HandlerStates, At, Job
  <2> QED
    BY <1>0, <2>1, <2>3
<1>7. ASSUME NEW t \in Slots, NEW place \in {"gate", "record"}, GotoCounters(t, place, "reply")
      PROVE  handler' \in [Slots -> HandlerStates]
  <2>1. [at |-> place, job |-> "reply", counter |-> "day",
         author |-> handler[t].author, verdict |-> handler[t].verdict] \in HandlerStates
    BY <1>0 DEF HandlerStates
  <2> QED
    BY <1>0, <1>7, <2>1 DEF GotoCounters
<1>8. ASSUME NEW t \in Slots, Arrive(t) PROVE IntelligenceTypeOK'
  <2>1. PICK v \in Chatters, place \in {"act", "engage", "gate"} :
          handler' = [handler EXCEPT ![t] = [Start(v) EXCEPT !.at = place]]
    BY <1>8 DEF Arrive
  <2>2. [Start(v) EXCEPT !.at = place] \in HandlerStates
    BY DEF Start, HandlerStates
  <2>3. handler' \in [Slots -> HandlerStates]
    BY <1>0, <2>1, <2>2
  <2> QED
    BY <1>0, <1>8, <2>3 DEF Arrive, budgetVars, IntelligenceTypeOK
<1>9. ASSUME NEW t \in Slots, Gate(t) \/ Act(t) \/ Engage(t) \/ SendReply(t) \/ HandlerFails(t)
      PROVE  IntelligenceTypeOK'
  <2>1. handler' \in [Slots -> HandlerStates]
    BY <1>5, <1>6, <1>7, <1>9 DEF Gate, Act, Engage, SendReply, HandlerFails
  <2> QED
    BY <1>0, <1>9, <2>1 DEF Gate, Act, Engage, SendReply, HandlerFails, budgetVars, IntelligenceTypeOK
<1>10. ASSUME NEW t \in Slots, Classify(t) PROVE IntelligenceTypeOK'
  <2>1. PICK r \in Results :
          handler' = [handler EXCEPT ![t] = [at |-> "record", job |-> "moderate", counter |-> "day",
                                             author |-> handler[t].author, verdict |-> Sentence(r)]]
    BY <1>10 DEF Classify
  <2>2. Sentence(r) \in {"ALLOW", "FLAG", "PUNISH"}
    BY DEF Sentence
  <2>3. [at |-> "record", job |-> "moderate", counter |-> "day",
         author |-> handler[t].author, verdict |-> Sentence(r)] \in HandlerStates
    BY <1>0, <2>2 DEF HandlerStates
  <2>4. handler' \in [Slots -> HandlerStates]
    BY <1>0, <2>1, <2>3
  <2>5. calls' \in [Counters -> Nat] /\ answers' \in [Counters -> Nat]
    BY <1>10, <1>15 DEF Classify
  <2> QED
    BY <1>0, <1>10, <2>4, <2>5 DEF Classify, IntelligenceTypeOK
<1>11. ASSUME NEW t \in Slots, Reply(t) \/ ReplyFails(t) PROVE IntelligenceTypeOK'
  <2>1. handler' \in [Slots -> HandlerStates]
    BY <1>5, <1>7, <1>11 DEF Reply, ReplyFails
  <2>2. CountIn(unbilled, Dimensions(t)) \in [Counters -> Nat]
    BY <1>0, <1>3, <1>4
  <2>3. calls' \in [Counters -> Nat] /\ answers' \in [Counters -> Nat]
    BY <1>0, <1>11, <1>15 DEF Reply, ReplyFails
  <2> QED
    BY <1>0, <1>11, <2>1, <2>2, <2>3 DEF Reply, ReplyFails, IntelligenceTypeOK
<1>12. ASSUME NEW t \in Slots, Record(t) PROVE IntelligenceTypeOK'
  <2>1. handler' \in [Slots -> HandlerStates]
    BY <1>5, <1>6, <1>12 DEF Record, AfterRecord
  <2>2. redis' \in [Counters -> Nat] /\ local' \in [Counters -> Nat]
    BY <1>0, <1>3, <1>4, <1>12 DEF Record, Increment
  <2> QED
    BY <1>0, <1>12, <2>1, <2>2 DEF Record, IntelligenceTypeOK
<1>13. ASSUME NEW t \in Slots, RecordFails(t) PROVE IntelligenceTypeOK'
  <2>1. handler' \in [Slots -> HandlerStates]
    BY <1>5, <1>13 DEF RecordFails
  <2>2. unbilled' \in [Counters -> Nat]
    BY <1>0, <1>3, <1>4, <1>13 DEF RecordFails
  <2> QED
    BY <1>0, <1>13, <2>1, <2>2 DEF RecordFails, IntelligenceTypeOK
<1>14. ASSUME NEW k \in Lapsing, Lapse(k) PROVE IntelligenceTypeOK'
  BY <1>0, <1>14 DEF Lapse, IntelligenceTypeOK
<1>16. CASE UNCHANGED aiVars
  BY <1>0, <1>16 DEF aiVars, budgetVars, IntelligenceTypeOK
<1> QED
  BY <1>8, <1>9, <1>10, <1>11, <1>12, <1>13, <1>14, <1>16 DEF IntelligenceNext, Attend

-----------------------------------------------------------------------------
(* A handler that is neither ahead nor owing before and after its step.    *)
LEMMA Idles ==
    ASSUME NEW t \in Slots, NEW k \in Counters, \A u \in Slots \ {t} : handler'[u] = handler[u],
           t \notin Ahead(k)', t \notin Owing(k)
    PROVE  Ahead(k)' \subseteq Ahead(k) /\ Owing(k) \subseteq Owing(k)'
<1>1. \A u \in Slots \ {t} : (u \in Ahead(k)' <=> u \in Ahead(k)) /\ (u \in Owing(k)' <=> u \in Owing(k))
  BY OthersStay
<1>2. Ahead(k)' \subseteq Slots /\ Owing(k) \subseteq Slots
  BY DEF Ahead, Owing
<1> QED
  BY <1>1, <1>2

(* A moderation comes past the counter of the stream and never to that of  *)
(* the viewer.                                                             *)
LEMMA ReadsInOrderStep ==
    ASSUME IntelligenceTypeOK, ReadsInOrder, [IntelligenceNext]_aiVars
    PROVE  ReadsInOrder'
<1> USE IntelligenceAssumption DEF ReadsInOrder
<1>0. handler \in [Slots -> HandlerStates]
  BY DEF IntelligenceTypeOK
<1>1. ASSUME NEW t \in Slots, \A u \in Slots \ {t} : handler'[u] = handler[u],
             handler'[t].at = "gate" /\ handler'[t].counter = "user" => handler'[t].job = "reply"
      PROVE  ReadsInOrder'
  BY <1>1 DEF At, Job
<1>2. ASSUME NEW t \in Slots, NEW place \in {"call", "record", "act", "engage", "send", "free"},
             Goto(t, place)
      PROVE  ReadsInOrder'
  <2>1. handler'[t].at = place /\ \A u \in Slots \ {t} : handler'[u] = handler[u]
    <3>1. CASE place = "free"
      BY <1>0, <1>2, <3>1, Moved DEF Start
    <3>2. CASE place # "free"
      BY <1>0, <1>2, <3>2, Moved
    <3> QED
      BY <3>1, <3>2
  <2> QED
    BY <1>1, <2>1
<1>3. ASSUME NEW t \in Slots, At(t) \in {"gate", "record"}, Advance(t) PROVE ReadsInOrder'
  <2>1. /\ \A u \in Slots \ {t} : handler'[u] = handler[u]
        /\ handler'[t].at = At(t) /\ handler'[t].counter = Following(t) /\ handler'[t].job = Job(t)
    BY <1>0, <1>3, Moved
  <2>2. Job(t) \in {"moderate", "reply"} /\ handler[t].counter \in {"day", "stream", "user", "minute"}
    BY <1>0 DEF Job, HandlerStates
  <2>3. At(t) = "gate" /\ Following(t) = "user" => Job(t) = "reply"
    BY <2>2 DEF Following
  <2> QED
    BY <1>1, <2>1, <2>3
<1>4. ASSUME NEW t \in Slots, NEW place \in {"gate", "record"}, GotoCounters(t, place, "reply")
      PROVE  ReadsInOrder'
  BY <1>0, <1>1, <1>4, Moved
<1>5. ASSUME NEW t \in Slots, Arrive(t) PROVE ReadsInOrder'
  <2>1. PICK v \in Chatters, place \in {"act", "engage", "gate"} :
          handler' = [handler EXCEPT ![t] = [Start(v) EXCEPT !.at = place]]
    BY <1>5 DEF Arrive
  <2>2. handler'[t].counter = "day" /\ \A u \in Slots \ {t} : handler'[u] = handler[u]
    BY <1>0, <2>1 DEF Start
  <2> QED
    BY <1>1, <2>2
<1>6. ASSUME NEW t \in Slots, Classify(t) PROVE ReadsInOrder'
  <2>1. handler'[t].at = "record" /\ \A u \in Slots \ {t} : handler'[u] = handler[u]
    BY <1>0, <1>6 DEF Classify
  <2> QED
    BY <1>1, <2>1
<1>7. ASSUME NEW t \in Slots,
             Gate(t) \/ Reply(t) \/ ReplyFails(t) \/ Record(t) \/ RecordFails(t) \/ Act(t) \/ Engage(t)
               \/ SendReply(t) \/ HandlerFails(t)
      PROVE  ReadsInOrder'
  BY <1>2, <1>3, <1>4, <1>7
  DEF Gate, Reply, ReplyFails, Record, AfterRecord, RecordFails, Act, Engage, SendReply, HandlerFails
<1>8. CASE (\E k \in Lapsing : Lapse(k)) \/ UNCHANGED aiVars
  BY <1>8 DEF Lapse, aiVars, At, Job
<1> QED
  BY <1>5, <1>6, <1>7, <1>8 DEF IntelligenceNext, Attend

(* The books of every counter after a step of a handler.                   *)
LEMMA BudgetStep ==
    ASSUME IntelligenceTypeOK, ReadsInOrder, Nats, Nats', NEW t \in Slots, Arrive(t) \/ Attend(t),
           NEW k \in Counters, Balanced(k)
    PROVE  Balanced(k)'
<1> USE IntelligenceAssumption
<1>0. /\ handler \in [Slots -> HandlerStates] /\ handler[t] \in HandlerStates /\ Key(t) \in Counters
      /\ redis[k] \in Nat /\ calls[k] \in Nat /\ unbilled[k] \in Nat
      /\ redis \in [Counters -> Nat] /\ calls \in [Counters -> Nat] /\ unbilled \in [Counters -> Nat]
  BY DEF IntelligenceTypeOK, Key, Counters, HandlerStates, Nats
(* It comes to nothing.                                                    *)
<1>1. ASSUME \A u \in Slots \ {t} : handler'[u] = handler[u], At(t) # "record",
             handler'[t].at \notin {"gate", "call"} \/ (handler'[t].at = "gate" /\ handler'[t].counter = "day"),
             redis' = redis, \E n \in {0, 1} : calls'[k] = calls[k] + n /\ unbilled'[k] = unbilled[k] + n
      PROVE  Balanced(k)'
  <2>1. t \notin Ahead(k)' /\ t \notin Owing(k)
    BY <1>1 DEF Ahead, Owing, At, Cleared
  <2> QED
    BY <1>1, <2>1, Idles, StillBalanced
<1>2. ASSUME NEW place \in {"act", "engage", "send", "free"}, Goto(t, place)
      PROVE  handler'[t].at = place /\ \A u \in Slots \ {t} : handler'[u] = handler[u]
  <2>1. CASE place = "free"
    BY <1>0, <1>2, <2>1, Moved DEF Start
  <2>2. CASE place # "free"
    BY <1>0, <1>2, <2>2, Moved
  <2> QED
    BY <2>1, <2>2
<1>3. CASE Arrive(t)
  <2>1. PICK v \in Chatters, place \in {"act", "engage", "gate"} :
          handler' = [handler EXCEPT ![t] = [Start(v) EXCEPT !.at = place]]
    BY <1>3 DEF Arrive
  <2>2. handler'[t].at = place /\ handler'[t].counter = "day" /\ \A u \in Slots \ {t} : handler'[u] = handler[u]
    BY <1>0, <2>1 DEF Start
  <2>3. UNCHANGED <<redis, calls, unbilled>> /\ At(t) = "free"
    BY <1>3 DEF Arrive, budgetVars
  <2> QED
    BY <1>0, <1>1, <2>2, <2>3
<1>4. CASE Act(t) \/ Engage(t) \/ SendReply(t) \/ HandlerFails(t)
  <2>1. At(t) # "record" /\ UNCHANGED <<redis, calls, unbilled>>
    BY <1>4 DEF Act, Engage, SendReply, HandlerFails, budgetVars
  <2>2. CASE GotoCounters(t, "gate", "reply")
    <3>1. handler'[t].at = "gate" /\ handler'[t].counter = "day" /\ \A u \in Slots \ {t} : handler'[u] = handler[u]
      BY <1>0, <2>2, Moved
    <3> QED
      BY <1>0, <1>1, <2>1, <3>1
  <2>3. CASE \E place \in {"act", "engage", "send", "free"} : Goto(t, place)
    <3>1. handler'[t].at \notin {"gate", "call"} /\ \A u \in Slots \ {t} : handler'[u] = handler[u]
      BY <1>2, <2>3
    <3> QED
      BY <1>0, <1>1, <2>1, <3>1
  <2> QED
    BY <1>4, <2>2, <2>3 DEF Act, Engage, SendReply, HandlerFails
<1>5. CASE Gate(t)
  <2>1. At(t) = "gate" /\ UNCHANGED <<redis, local, calls, unbilled>>
    BY <1>5 DEF Gate, budgetVars
  <2>2. CASE Reading(Key(t)) >= Limit[Key(t)]
    <3>1. \E place \in {"engage", "free"} : Goto(t, place)
      BY <1>5, <2>2 DEF Gate
    <3>2. handler'[t].at \notin {"gate", "call"} /\ \A u \in Slots \ {t} : handler'[u] = handler[u]
      BY <1>2, <3>1
    <3> QED
      BY <1>0, <1>1, <2>1, <3>2
  <2>3. CASE ~(Reading(Key(t)) >= Limit[Key(t)])
    <3>1. redis[Key(t)] < Limit[Key(t)]
      BY <1>0, <2>3 DEF Reading, Nats
    <3>2. /\ \A u \in Slots \ {t} : handler'[u] = handler[u]
          /\ handler'[t].job = Job(t) /\ handler'[t].author = handler[t].author
          /\ \/ handler[t].counter = "minute" /\ handler'[t].at = "call"
             \/ handler[t].counter # "minute" /\ handler'[t].at = "gate" /\ handler'[t].counter = Following(t)
      <4>1. CASE handler[t].counter = "minute"
        <5>1. Goto(t, "call")
          BY <1>5, <2>3, <4>1 DEF Gate
        <5> QED
          BY <1>0, <4>1, <5>1, Moved
      <4>2. CASE handler[t].counter # "minute"
        <5>1. Advance(t)
          BY <1>5, <2>3, <4>2 DEF Gate
        <5> QED
          BY <1>0, <2>1, <4>2, <5>1, Moved
      <4> QED
        BY <4>1, <4>2
    <3>3. t \notin Owing(k) /\ Owing(k) \subseteq Slots /\ Ahead(k)' \subseteq Slots
      BY <2>1 DEF Owing, Ahead
    <3>4. \A u \in Slots \ {t} : (u \in Ahead(k)' <=> u \in Ahead(k)) /\ (u \in Owing(k)' <=> u \in Owing(k))
      BY <3>2, OthersStay
    <3>5. CASE k = Key(t)
      BY <1>0, <2>1, <3>1, <3>3, <3>4, <3>5, FindsRoom
    <3>6. CASE k # Key(t)
      <4>1. t \in Ahead(k)' => t \in Ahead(k)
        <5>1. Job(t) \in {"moderate", "reply"} /\ handler[t].counter \in {"day", "stream", "user", "minute"}
          BY <1>0 DEF Job, HandlerStates
        <5>2. handler[t].counter = "user" => Job(t) = "reply"
          BY <2>1 DEF ReadsInOrder
        <5>3. Dimensions(t)' = Dimensions(t)
          BY <3>2 DEF Dimensions, Job
        <5>4. CASE handler[t].counter = "minute"
          BY <2>1, <3>2, <3>6, <5>3, <5>4 DEF Ahead, At, Cleared, Key
        <5>5. CASE handler[t].counter = "user"
          BY <2>1, <3>2, <3>6, <5>2, <5>3, <5>5 DEF Ahead, At, Cleared, Key, Following, Dimensions
        <5>6. CASE handler[t].counter = "stream"
          BY <2>1, <3>2, <3>6, <5>1, <5>3, <5>6 DEF Ahead, At, Cleared, Key, Following, Dimensions
        <5>7. CASE handler[t].counter = "day"
          BY <2>1, <3>2, <3>6, <5>3, <5>7 DEF Ahead, At, Cleared, Key, Following
        <5> QED
          BY <5>1, <5>4, <5>5, <5>6, <5>7
      <4>2. Ahead(k)' \subseteq Ahead(k) /\ Owing(k) \subseteq Owing(k)'
        BY <3>3, <3>4, <4>1
      <4> QED
        BY <1>0, <2>1, <4>2, StillBalanced
    <3> QED
      BY <3>5, <3>6
  <2> QED
    BY <2>2, <2>3
(* An answer of the model: whoever has it owes all that it counts for.     *)
<1>6. ASSUME At(t) = "call", handler'[t].at = "record", handler'[t].counter = "day",
             handler'[t].job = Job(t), handler'[t].author = handler[t].author,
             \A u \in Slots \ {t} : handler'[u] = handler[u],
             redis' = redis, unbilled' = unbilled, calls' \in {calls, CountIn(calls, Dimensions(t))}
      PROVE  Balanced(k)'
  <2>1. \A u \in Slots \ {t} : (u \in Ahead(k)' <=> u \in Ahead(k)) /\ (u \in Owing(k)' <=> u \in Owing(k))
    BY <1>6, OthersStay
  <2>2. /\ t \notin Ahead(k)' /\ t \notin Owing(k)
        /\ Ahead(k)' \subseteq Slots /\ Owing(k) \subseteq Slots
    BY <1>6 DEF Ahead, Owing, At
  <2>3. Dimensions(t)' = Dimensions(t)
    BY <1>6 DEF Dimensions, Job
  <2>4. CASE k \in Dimensions(t) /\ calls' # calls
    <3>1. calls'[k] = calls[k] + 1
      BY <1>0, <1>6, <2>4 DEF CountIn
    <3>2. t \in Ahead(k) /\ t \in Owing(k)'
      BY <1>6, <2>3, <2>4 DEF Ahead, Owing, At, Left
    <3>3. Ahead(k)' \subseteq Ahead(k) \ {t} /\ Owing(k) \subseteq Owing(k)' \ {t}
      BY <2>1, <2>2
    <3> QED
      BY <1>6, <3>1, <3>2, <3>3, Spends
  <2>5. CASE k \notin Dimensions(t) \/ calls' = calls
    <3>1. calls'[k] = calls[k]
      BY <1>0, <1>6, <2>5 DEF CountIn
    <3>2. Ahead(k)' \subseteq Ahead(k) /\ Owing(k) \subseteq Owing(k)'
      BY <2>1, <2>2
    <3> QED
      BY <1>0, <1>6, <3>1, <3>2, StillBalanced
  <2> QED
    BY <2>4, <2>5
<1>7. CASE Classify(t)
  <2>1. PICK r \in Results :
          handler' = [handler EXCEPT ![t] = [at |-> "record", job |-> "moderate", counter |-> "day",
                                             author |-> handler[t].author, verdict |-> Sentence(r)]]
    BY <1>7 DEF Classify
  <2>2. /\ handler'[t].at = "record" /\ handler'[t].counter = "day" /\ handler'[t].job = Job(t)
        /\ handler'[t].author = handler[t].author /\ \A u \in Slots \ {t} : handler'[u] = handler[u]
    BY <1>0, <1>7, <2>1 DEF Classify
  <2> QED
    BY <1>6, <1>7, <2>2 DEF Classify, Call
<1>8. CASE Reply(t)
  <2>1. /\ handler'[t].at = "record" /\ handler'[t].counter = "day" /\ handler'[t].job = Job(t)
        /\ handler'[t].author = handler[t].author /\ \A u \in Slots \ {t} : handler'[u] = handler[u]
    BY <1>0, <1>8, Moved DEF Reply
  <2> QED
    BY <1>6, <1>8, <2>1 DEF Reply, Call
<1>9. CASE ReplyFails(t)
  <2>1. At(t) = "call" /\ Goto(t, "free") /\ redis' = redis
    BY <1>9 DEF ReplyFails
  <2>2. handler'[t].at = "free" /\ \A u \in Slots \ {t} : handler'[u] = handler[u]
    BY <1>2, <2>1
  <2>3. \E n \in {0, 1} : calls'[k] = calls[k] + n /\ unbilled'[k] = unbilled[k] + n
    <3>1. calls' = CountIn(calls, Dimensions(t)) /\ unbilled' = CountIn(unbilled, Dimensions(t))
      BY <1>9 DEF ReplyFails, Call
    <3> QED
      BY <1>0, <3>1 DEF CountIn
  <2> QED
    BY <1>1, <2>1, <2>2, <2>3
(* The counter that is paid, or what is left of them.                      *)
<1>10. CASE Record(t)
  <2>1. At(t) = "record" /\ redis' = CountIn(redis, {Key(t)}) /\ UNCHANGED <<calls, unbilled>>
    BY <1>10 DEF Record, Increment
  <2>2. /\ \A u \in Slots \ {t} : handler'[u] = handler[u]
        /\ handler'[t].at \notin {"gate", "call"}
        /\ handler[t].counter # "minute" =>
             /\ handler'[t].at = "record" /\ handler'[t].counter = Following(t)
             /\ handler'[t].job = Job(t) /\ handler'[t].author = handler[t].author
    <3>1. CASE handler[t].counter = "minute"
      <4>1. \E place \in {"act", "engage", "send", "free"} : Goto(t, place)
        BY <1>10, <3>1 DEF Record, AfterRecord
      <4> QED
        BY <1>2, <3>1, <4>1
    <3>2. CASE handler[t].counter # "minute"
      <4>1. Advance(t)
        BY <1>10, <3>2 DEF Record
      <4> QED
        BY <1>0, <2>1, <4>1, Moved
    <3> QED
      BY <3>1, <3>2
  <2>3. \A u \in Slots \ {t} : (u \in Ahead(k)' <=> u \in Ahead(k)) /\ (u \in Owing(k)' <=> u \in Owing(k))
    BY <2>2, OthersStay
  <2>4. t \notin Ahead(k)' /\ Ahead(k)' \subseteq Slots /\ Owing(k) \subseteq Slots
    BY <2>2 DEF Ahead, Owing, At
  <2>5. Ahead(k)' \subseteq Ahead(k) /\ Owing(k) \subseteq Owing(k)' \cup {t}
    BY <2>3, <2>4
  <2>6. CASE k = Key(t)
    <3>1. redis'[k] = redis[k] + 1
      BY <1>0, <2>1, <2>6 DEF CountIn
    <3> QED
      BY <2>1, <2>5, <3>1, Pays
  <2>7. CASE k # Key(t)
    <3>1. redis'[k] = redis[k]
      BY <1>0, <2>1, <2>7 DEF CountIn
    <3>2. t \in Owing(k) => t \in Owing(k)'
      <4>1. handler[t].counter \in {"day", "stream", "user", "minute"} /\ handler[t].author \in Chatters
        BY <1>0 DEF HandlerStates
      <4>2. handler[t].counter # "minute" => Dimensions(t)' = Dimensions(t)
        BY <2>2 DEF Dimensions, Job
      <4>3. CASE handler[t].counter = "minute"
        BY <2>7, <4>3 DEF Owing, Left, Key
      <4>4. CASE handler[t].counter = "user"
        BY <2>1, <2>2, <2>7, <4>1, <4>2, <4>4 DEF Owing, At, Left, Key, Following, Dimensions
      <4>5. CASE handler[t].counter = "stream"
        BY <2>1, <2>2, <2>7, <4>2, <4>5 DEF Owing, At, Left, Key, Following
      <4>6. CASE handler[t].counter = "day"
        BY <2>1, <2>2, <2>7, <4>2, <4>6 DEF Owing, At, Left, Key, Following
      <4> QED
        BY <4>1, <4>3, <4>4, <4>5, <4>6
    <3>3. Owing(k) \subseteq Owing(k)'
      BY <2>3, <2>4, <3>2
    <3>4. calls'[k] = calls[k] + 0 /\ unbilled'[k] = unbilled[k] + 0
      BY <1>0, <2>1
    <3> QED
      BY <2>5, <3>1, <3>3, <3>4, StillBalanced
  <2> QED
    BY <2>6, <2>7
<1>11. CASE RecordFails(t)
  <2>1. /\ At(t) = "record" /\ UNCHANGED <<redis, calls>>
        /\ unbilled' = CountIn(unbilled, Left(t) \cap Dimensions(t))
        /\ \E place \in {"act", "engage", "send", "free"} : Goto(t, place)
    BY <1>11 DEF RecordFails
  <2>2. handler'[t].at \notin {"gate", "call"} /\ \A u \in Slots \ {t} : handler'[u] = handler[u]
    BY <1>2, <2>1
  <2>3. \A u \in Slots \ {t} : (u \in Ahead(k)' <=> u \in Ahead(k)) /\ (u \in Owing(k)' <=> u \in Owing(k))
    BY <2>2, OthersStay
  <2>4. t \notin Ahead(k)' /\ Ahead(k)' \subseteq Slots /\ Owing(k) \subseteq Slots
    BY <2>2 DEF Ahead, Owing, At
  <2>5. Ahead(k)' \subseteq Ahead(k) /\ Owing(k) \subseteq Owing(k)' \cup {t}
    BY <2>3, <2>4
  <2>6. CASE k \in Left(t) \cap Dimensions(t)
    <3>1. unbilled'[k] = unbilled[k] + 1
      BY <1>0, <2>1, <2>6 DEF CountIn
    <3> QED
      BY <2>1, <2>5, <3>1, Pays
  <2>7. CASE k \notin Left(t) \cap Dimensions(t)
    <3>1. unbilled'[k] = unbilled[k] /\ t \notin Owing(k)
      BY <1>0, <2>1, <2>7 DEF CountIn, Owing
    <3>2. Owing(k) \subseteq Owing(k)'
      BY <2>3, <2>4, <3>1
    <3>3. calls'[k] = calls[k] + 0 /\ unbilled'[k] = unbilled[k] + 0 /\ redis'[k] = redis[k]
      BY <1>0, <2>1, <3>1
    <3> QED
      BY <2>5, <3>2, <3>3, StillBalanced
  <2> QED
    BY <2>6, <2>7
<1> QED
  BY <1>3, <1>4, <1>5, <1>7, <1>8, <1>9, <1>10, <1>11 DEF Attend

(* The time of a counter is over.                                          *)
LEMMA LapseStep ==
    ASSUME Nats, Nats', NEW l \in Counters, Lapse(l), NEW k \in Counters, Balanced(k)
    PROVE  Balanced(k)'
<1>1. Ahead(k)' = Ahead(k) /\ Owing(k)' = Owing(k)
  BY DEF Lapse, Ahead, Owing, At, Job, Cleared, Dimensions, Left
<1>2. CASE k # l
  BY <1>1, <1>2, StillBalanced DEF Lapse, Nats
<1>3. CASE k = l
  <2>1. redis'[k] = 0 /\ calls'[k] = 0 /\ unbilled'[k] = 0
    BY <1>3 DEF Lapse, Nats
  <2>2. Ahead(k) \in SUBSET Slots /\ Owing(k) \in SUBSET Slots /\ {} \in SUBSET Slots /\ Ahead(k) \cap {} = {}
    BY DEF Ahead, Owing
  <2>3. /\ Cardinality(Ahead(k)) + Cardinality({}) <= Cardinality(Slots)
        /\ Cardinality(Ahead(k)) \in Nat /\ Cardinality({}) \in Nat
        /\ Cardinality(Owing(k)) \in Nat /\ Cardinality(Slots) \in Nat
    BY <2>2, SlotSets
  <2>4. Limit[k] \in Nat /\ Limit[k] >= 1
    BY IntelligenceAssumption
  <2> QED
    BY <1>1, <2>1, <2>3, <2>4 DEF Balanced
<1> QED
  BY <1>2, <1>3

(* Whoever calls, its call has an answer of each model at most.            *)
LEMMA AnswersStep ==
    ASSUME Nats, Nats', AnswersOfCalls, [IntelligenceNext]_aiVars
    PROVE  AnswersOfCalls'
<1> SUFFICES ASSUME NEW k \in Counters
             PROVE  answers'[k] <= Models * calls'[k]
  BY DEF AnswersOfCalls
<1>0. /\ Models \in Nat /\ answers[k] <= Models * calls[k]
      /\ calls \in [Counters -> Nat] /\ answers \in [Counters -> Nat]
  BY IntelligenceAssumption DEF AnswersOfCalls, Nats
<1>1. ASSUME NEW t \in Slots, Call(t)
      PROVE  answers'[k] <= Models * calls'[k]
  <2>1. PICK n \in 0..Models :
          answers' = [l \in Counters |-> IF l \in Dimensions(t) THEN answers[l] + n ELSE answers[l]]
    BY <1>1 DEF Call
  <2>2. CASE k \in Dimensions(t)
    <3>1. answers'[k] = answers[k] + n /\ calls'[k] = calls[k] + 1
      BY <1>0, <1>1, <2>1, <2>2 DEF Call, CountIn
    <3>2. Models * (calls[k] + 1) = Models * calls[k] + Models
      BY <1>0
    <3>3. Models * calls[k] \in Nat
      BY <1>0
    <3> QED
      BY <1>0, <3>1, <3>2, <3>3
  <2>3. CASE k \notin Dimensions(t)
    BY <1>0, <1>1, <2>1, <2>3 DEF Call, CountIn
  <2> QED
    BY <2>2, <2>3
<1>2. CASE UNCHANGED <<calls, answers>>
  BY <1>0, <1>2
<1>3. ASSUME NEW l \in Lapsing, Lapse(l)
      PROVE  answers'[k] <= Models * calls'[k]
  <2>1. CASE k = l
    <3>1. answers'[k] = 0 /\ calls'[k] = 0
      BY <1>0, <1>3, <2>1 DEF Lapse
    <3> QED
      BY <1>0, <3>1
  <2>2. CASE k # l
    BY <1>0, <1>3, <2>2 DEF Lapse
  <2> QED
    BY <2>1, <2>2
<1>4. ASSUME NEW t \in Slots, Arrive(t) \/ Attend(t)
      PROVE  Call(t) \/ UNCHANGED <<calls, answers>>
  BY <1>4 DEF Attend, Arrive, Gate, Classify, Reply, ReplyFails, Record, RecordFails, Act, Engage,
              SendReply, HandlerFails, budgetVars
<1>5. CASE UNCHANGED aiVars
  BY <1>2, <1>5 DEF aiVars, budgetVars
<1> QED
  BY <1>1, <1>2, <1>3, <1>4, <1>5 DEF IntelligenceNext

(* Theorem: the calls of a budget pass it by those that were lost and by   *)
(* one for every other handler at most, and what the models have answered  *)
(* is no more than one answer of each for every call, whatever fails and   *)
(* whenever a counter lapses, for any handlers, viewers, models and        *)
(* limits.                                                                 *)
THEOREM BudgetIsKept == IntelligenceSpec => []BudgetHolds
<1> USE IntelligenceAssumption
<1>1. IntelligenceInit => BudgetInv
  <2> SUFFICES ASSUME IntelligenceInit PROVE BudgetInv
    OBVIOUS
  <2>1. SomeViewer \in Chatters
    BY DEF SomeViewer
  <2>2. Start(SomeViewer) \in HandlerStates
    BY <2>1 DEF Start, HandlerStates
  <2>3. IntelligenceTypeOK
    BY <2>2 DEF IntelligenceInit, IntelligenceTypeOK
  <2>4. ReadsInOrder
    BY DEF IntelligenceInit, ReadsInOrder, At, Start
  <2>5. \A k \in Counters : Ahead(k) = {} /\ Owing(k) = {} /\ calls[k] = 0 /\ redis[k] = 0 /\ unbilled[k] = 0
    BY DEF IntelligenceInit, Ahead, Owing, At, Start
  <2>6. Cardinality({}) = 0 /\ Cardinality(Slots) \in Nat
    BY FS_EmptySet, SlotSets
  <2>7. ASSUME NEW k \in Counters PROVE Balanced(k)
    <3>1. Limit[k] \in Nat /\ Limit[k] >= 1
      OBVIOUS
    <3>2. Cardinality(Ahead(k)) = 0 /\ Cardinality(Owing(k)) = 0
      BY <2>5, <2>6
    <3> QED
      BY <2>5, <2>6, <3>1, <3>2 DEF Balanced
  <2>8. AnswersOfCalls
    <3>1. \A k \in Counters : answers[k] = 0 /\ calls[k] = 0
      BY DEF IntelligenceInit
    <3>2. Models * 0 = 0
      OBVIOUS
    <3> QED
      BY <3>1, <3>2 DEF AnswersOfCalls
  <2> QED
    BY <2>3, <2>4, <2>7, <2>8 DEF BudgetInv, SpentIsKnown, RoomForAll, Balanced
<1>2. BudgetInv /\ [IntelligenceNext]_aiVars => BudgetInv'
  <2> SUFFICES ASSUME BudgetInv, [IntelligenceNext]_aiVars PROVE BudgetInv'
    OBVIOUS
  <2>1. IntelligenceTypeOK' /\ ReadsInOrder'
    BY IntelligenceTypeStep, ReadsInOrderStep DEF BudgetInv
  <2>2. Nats /\ Nats'
    BY <2>1 DEF BudgetInv, IntelligenceTypeOK, Nats
  <2>3. ASSUME NEW k \in Counters PROVE Balanced(k)'
    <3>1. Balanced(k)
      BY DEF BudgetInv, SpentIsKnown, RoomForAll, Balanced
    <3>2. ASSUME NEW t \in Slots, Arrive(t) \/ Attend(t) PROVE Balanced(k)'
      BY <2>2, <3>1, <3>2, BudgetStep DEF BudgetInv
    <3>3. ASSUME NEW l \in Lapsing, Lapse(l) PROVE Balanced(k)'
      BY <2>2, <3>1, <3>3, LapseStep
    <3>4. CASE UNCHANGED aiVars
      BY <3>1, <3>4 DEF aiVars, budgetVars, Balanced, Ahead, Owing, At, Job, Cleared, Dimensions, Left
    <3> QED
      BY <3>2, <3>3, <3>4 DEF IntelligenceNext
  <2>4. AnswersOfCalls'
    BY <2>2, AnswersStep DEF BudgetInv
  <2> QED
    BY <2>1, <2>3, <2>4 DEF BudgetInv, SpentIsKnown, RoomForAll, Balanced
<1>3. BudgetInv => BudgetHolds
  <2> SUFFICES ASSUME BudgetInv, NEW k \in Counters
               PROVE  calls[k] <= Limit[k] + Cardinality(Slots) - 1 + unbilled[k]
    BY DEF BudgetHolds, BudgetInv, AnswersOfCalls
  <2>1. Cardinality(Ahead(k)) \in Nat /\ Cardinality(Slots) \in Nat
    BY SlotSets DEF Ahead
  <2> QED
    BY <2>1 DEF BudgetInv, RoomForAll, IntelligenceTypeOK
<1> QED
  BY <1>1, <1>2, <1>3, PTL DEF IntelligenceSpec

-----------------------------------------------------------------------------
(* Games and experience points.                                            *)

(* A message with a right answer has its game to itself from the update of *)
(* the row to its end, and one that is about to be awarded its profile.    *)
WinnersHold ==
    \A j \in Jobs : Wins(j) =>
        /\ at[j] \notin {"insert", "count", "award"}
        /\ at[j] \in {"profile", "open", "reward", "commit"} => holder[Game(j)] = j
AwardsHold == \A j \in Jobs : at[j] = "award" => holder[Author[j]] = j

(* What was found before the counter was flushed is still so.              *)
RoomForAward ==
    \A j \in Jobs : at[j] = "award" =>
        LET v == Author[j] IN
        /\ \A a \in awards[v] : a[2] + Cooldown <= now
        /\ Cardinality({a \in awards[v] : now < a[2] + BurstWindow}) < BurstMax
        /\ daily[v].total < DailyMax

(* The running total is about a day that no award is later than, and is no *)
(* less than the awards of that day.                                       *)
DayOf(a) == a[2] \div DayLength
AwardsOfDay(v, d) == {a \in awards[v] : DayOf(a) = d}
DailyCounts ==
    \A v \in Viewers :
        /\ IsFiniteSet(awards[v])
        /\ daily[v].day <= Day
        /\ \A a \in awards[v] : a[2] <= now /\ DayOf(a) <= daily[v].day
        /\ Cardinality(AwardsOfDay(v, daily[v].day)) <= daily[v].total

PacedInv ==
    /\ EngagementTypeOK
    /\ AwardsHold
    /\ RoomForAward
    /\ DailyCounts
    /\ PacedAwards

WinnerIsKnown == \A g \in Jobs : games[g].state = "COMPLETED" => games[g].winner \in Viewers

(* A game is new when it is inserted: a message that begins one has seen   *)
(* none, and is over when others see it.                                   *)
GamesAreNew ==
    /\ \A g \in Jobs : games[g].state # "ABSENT" => at[g] = "over"
    /\ \A j \in Jobs : \A g \in seen[j] : games[g].state # "ABSENT"
    /\ \A j \in Jobs : at[j] = "insert" => seen[j] = {}
    /\ \A j \in Jobs : holder[j] = j => at[j] = "commit" /\ seen[j] = {}

PaidInv ==
    /\ EngagementTypeOK
    /\ WinnersHold
    /\ GamesAreNew
    /\ WinnerIsKnown
    /\ MintedOnce

-----------------------------------------------------------------------------
(* The days are in the order of the times.                                 *)
LEMMA DaysInOrder ==
    ASSUME NEW a \in Nat, NEW b \in Nat, a <= b
    PROVE  a \div DayLength <= b \div DayLength /\ a \div DayLength \in Nat
BY EngagementAssumption

(* A message that takes a row takes it from nobody, and one that ends gives*)
(* back only its own: the others keep what they have.                      *)
LEMMA OthersKeep ==
    ASSUME EngagementTypeOK, NEW j \in Jobs, Step(j) \/ Fail(j), NEW i \in Jobs \ {j}
    PROVE  /\ at'[i] = at[i] /\ seen'[i] = seen[i] /\ asked'[i] = asked[i]
           /\ \A r \in Jobs \cup Viewers : holder[r] = i => holder'[r] = i
<1> USE EngagementAssumption DEF EngagementTypeOK
<1>1. CASE Close(j)
  BY <1>1 DEF Close, Release
<1>2. CASE Ask(j) \/ StartGame(j) \/ ReadProfile(j) \/ Show(j)
  BY <1>2 DEF Ask, StartGame, ReadProfile, Show, Go
<1>3. CASE InsertGame(j)
  BY <1>3 DEF InsertGame, Go, Hold
<1>4. CASE CompleteGame(j)
  BY <1>4 DEF CompleteGame, Go, Hold, Free
<1>5. CASE OpenProfile(j)
  BY <1>1, <1>5 DEF OpenProfile, Go, Hold, Free
<1>6. CASE Count(j) \/ Award(j) \/ Reward(j)
  BY <1>6 DEF Count, Judge, Award, Reward, Go, Hold, Free
<1> QED
  BY <1>1, <1>2, <1>3, <1>4, <1>5, <1>6 DEF Step, Ambiguous, TurnDown, Commit, Fail

(* The type of the state is kept by every step.                            *)
LEMMA EngagementTypeStep ==
    ASSUME EngagementTypeOK, [Next]_gameVars
    PROVE  EngagementTypeOK'
<1> USE EngagementAssumption DEF EngagementTypeOK, Places
<1>1. ASSUME NEW j \in Jobs, Close(j)
      PROVE  /\ holder' \in [Jobs \cup Viewers -> Jobs \cup {NoJob}] /\ at' \in [Jobs -> Places]
             /\ asked' \in [Jobs -> 0..MaxTime] /\ seen' \in [Jobs -> SUBSET Jobs]
  BY <1>1 DEF Close, Release
<1>2. ASSUME NEW j \in Jobs, Ask(j) \/ Show(j) \/ StartGame(j) PROVE EngagementTypeOK'
  <2>1. UNCHANGED <<games, profiles, minted, lastStart, awards, daily, now, holder>>
    BY <1>2 DEF Ask, Show, StartGame, database, memory
  <2>2. at' \in [Jobs -> Places]
    BY ZenonT(60), <1>2 DEF Ask, Show, StartGame, Go
  <2>3. asked' \in [Jobs -> 0..MaxTime]
    BY <1>2 DEF Ask, Show, StartGame
  <2>4. Running \in SUBSET Jobs
    BY DEF Running
  <2>5. seen' \in [Jobs -> SUBSET Jobs]
    BY <1>2, <2>4 DEF Ask, Show, StartGame
  <2> QED
    BY <2>1, <2>2, <2>3, <2>5
<1>3. ASSUME NEW j \in Jobs, Ambiguous(j) \/ TurnDown(j) \/ Fail(j) PROVE EngagementTypeOK'
  BY <1>1, <1>3 DEF Ambiguous, TurnDown, Fail, database, memory
<1>4. ASSUME NEW j \in Jobs, InsertGame(j) PROVE EngagementTypeOK'
  BY <1>4 DEF InsertGame, Go, Hold, database
<1>5. ASSUME NEW j \in Jobs, CompleteGame(j) PROVE EngagementTypeOK'
  <2>1. Game(j) \in Jobs
    BY <1>5 DEF CompleteGame, Wins, Game
  <2> QED
    BY <1>5, <2>1 DEF CompleteGame, Go, Hold, database, memory
<1>6. ASSUME NEW j \in Jobs, ReadProfile(j) PROVE EngagementTypeOK'
  BY <1>6 DEF ReadProfile, Go, AfterProfile, database, memory
<1>7. ASSUME NEW j \in Jobs, OpenProfile(j) PROVE EngagementTypeOK'
  <2>1. CASE Close(j)
    BY <1>1, <1>7, <2>1 DEF OpenProfile, database, memory
  <2>2. CASE Go(j, AfterProfile(j)) /\ Hold(j, Author[j]) /\ UNCHANGED <<asked, seen>>
    BY <1>7, <2>2 DEF OpenProfile, Go, Hold, AfterProfile, database, memory
  <2> QED
    BY <1>7, <2>1, <2>2 DEF OpenProfile
<1>8. \A t \in 0..MaxTime : t \div DayLength \in Nat
  BY DaysInOrder
<1>9. ASSUME NEW j \in Jobs, Count(j) PROVE EngagementTypeOK'
  <2>1. Today(Author[j]) \in [day : Nat, total : Nat]
    BY <1>8 DEF Today, Day
  <2>2. daily' \in [Viewers -> [day : Nat, total : Nat]]
    BY <1>9, <2>1 DEF Count, Judge
  <2>3. at' \in [Jobs -> Places]
    BY <1>9 DEF Count, Judge, Go
  <2>4. holder' \in [Jobs \cup Viewers -> Jobs \cup {NoJob}]
    BY <1>9 DEF Count, Hold
  <2> QED
    BY <1>9, <2>2, <2>3, <2>4 DEF Count, database
<1>10. ASSUME NEW j \in Jobs, Award(j) PROVE EngagementTypeOK'
  <2>1. daily' = [daily EXCEPT ![Author[j]] = [day |-> Day, total |-> daily[Author[j]].total + 1]]
    BY <1>10 DEF Award
  <2>2. daily' \in [Viewers -> [day : Nat, total : Nat]]
    BY <1>8, <2>1 DEF Day
  <2>3. awards' \in [Viewers -> SUBSET (Jobs \X (0..MaxTime))]
    BY <1>10 DEF Award
  <2> QED
    BY <1>10, <2>2, <2>3 DEF Award, Go, Hold, database
<1>11. ASSUME NEW j \in Jobs, Reward(j) PROVE EngagementTypeOK'
  BY <1>11 DEF Reward, Go, Hold, database, memory
<1>12. ASSUME NEW j \in Jobs, Commit(j) PROVE EngagementTypeOK'
  <2>1. Wins(j) => Game(j) \in Jobs
    BY DEF Wins, Game
  <2>2. games' \in [Jobs -> [state : {"ABSENT", "ACTIVE", "COMPLETED"},
                             winner : Viewers \cup {NoJob}, began : Nat, until : Nat]]
    <3>1. CASE holder[j] = j
      <4>1. games' = [games EXCEPT ![j] = [state |-> "ACTIVE", winner |-> NoJob,
                                           began |-> asked[j], until |-> asked[j] + Duration]]
        BY <1>12, <3>1 DEF Commit
      <4>2. asked[j] \in Nat /\ asked[j] + Duration \in Nat
        OBVIOUS
      <4> QED
        BY <4>1, <4>2
    <3>2. CASE holder[j] # j /\ Wins(j)
      <4>1. games' = [games EXCEPT ![Game(j)] = [state |-> "COMPLETED", winner |-> Author[j],
                                                    began |-> games[Game(j)].began, until |-> games[Game(j)].until]]
        BY <1>12, <3>2 DEF Commit
      <4> QED
        BY <2>1, <3>2, <4>1
    <3>3. CASE holder[j] # j /\ ~Wins(j)
      BY <1>12, <3>3 DEF Commit
    <3> QED
      BY <3>1, <3>2, <3>3
  <2>3. minted' \in [Jobs \X Viewers -> Nat]
    BY <1>12, <2>1 DEF Commit
  <2>4. profiles' \in SUBSET Viewers
    BY <1>12 DEF Commit
  <2>5. Close(j) /\ UNCHANGED <<now, lastStart, awards, daily>>
    BY <1>12 DEF Commit, memory
  <2> QED
    BY <1>1, <2>2, <2>3, <2>4, <2>5
<1>13. CASE TimePasses
  BY <1>13 DEF TimePasses, database, memory
<1>14. CASE UNCHANGED gameVars
  BY <1>14 DEF gameVars, database, memory
<1> QED
  BY <1>2, <1>3, <1>4, <1>5, <1>6, <1>7, <1>9, <1>10, <1>11, <1>12, <1>13, <1>14 DEF Next, Step

(* The first state has the type.                                           *)
LEMMA EngagementTypeInit == ASSUME Init PROVE EngagementTypeOK
<1>1. Long \in 0..MaxTime
  BY EngagementAssumption DEF Long
<1> QED
  BY <1>1, EngagementAssumption DEF Init, EngagementInit, EngagementTypeOK, Places

(* A right answer keeps the row of its game from every other message.      *)
LEMMA WinnersHoldStep ==
    ASSUME EngagementTypeOK, WinnersHold, [Next]_gameVars
    PROVE  WinnersHold'
<1> USE EngagementAssumption
<1>1. ASSUME NEW j \in Jobs, Step(j) \/ Fail(j), NEW i \in Jobs \ {j}, Wins(i)'
      PROVE  /\ at'[i] \notin {"insert", "count", "award"}
             /\ at'[i] \in {"profile", "open", "reward", "commit"} => holder'[Game(i)'] = i
  <2>1. /\ at'[i] = at[i] /\ seen'[i] = seen[i]
        /\ \A r \in Jobs \cup Viewers : holder[r] = i => holder'[r] = i
    BY <1>1, OthersKeep
  <2>2. Wins(i) /\ Game(i)' = Game(i) /\ Game(i) \in Jobs
    BY <1>1, <2>1 DEF Wins, Game, EngagementTypeOK
  <2> QED
    BY <2>1, <2>2 DEF WinnersHold
<1>2. ASSUME NEW j \in Jobs, Step(j) \/ Fail(j), Wins(j)'
      PROVE  /\ at'[j] \notin {"insert", "count", "award"}
             /\ at'[j] \in {"profile", "open", "reward", "commit"} => holder'[Game(j)'] = j
  <2> USE DEF EngagementTypeOK, Go
  <2>1. ASSUME Close(j) PROVE at'[j] = "over"
    BY <2>1 DEF Close
  <2>2. CASE Ambiguous(j) \/ TurnDown(j) \/ Commit(j) \/ Fail(j)
    BY <2>1, <2>2 DEF Ambiguous, TurnDown, Commit, Fail
  <2>3. CASE Ask(j) \/ Show(j) \/ StartGame(j)
    BY <1>2, <2>3 DEF Ask, Show, StartGame, Wins
  <2>4. ASSUME seen'[j] = seen[j]
        PROVE  Wins(j) /\ Game(j)' = Game(j) /\ Game(j) \in Jobs /\ Kind[j] = "right"
    BY <1>2, <2>4 DEF Wins, Game
  <2>5. CASE CompleteGame(j)
    BY <2>4, <2>5 DEF CompleteGame, Hold
  <2>6. CASE ReadProfile(j)
    BY <2>4, <2>6 DEF ReadProfile, AfterProfile, WinnersHold
  <2>7. CASE OpenProfile(j)
    BY <2>1, <2>4, <2>7 DEF OpenProfile, AfterProfile, Hold, WinnersHold
  <2>8. CASE InsertGame(j) \/ Count(j) \/ Award(j)
    BY <2>4, <2>8 DEF InsertGame, Count, Award, WinnersHold
  <2>9. CASE Reward(j)
    BY <2>4, <2>9 DEF Reward, Hold, WinnersHold
  <2> QED
    BY <1>2, <2>2, <2>3, <2>5, <2>6, <2>7, <2>8, <2>9 DEF Step
<1>3. CASE \E j \in Jobs : Step(j) \/ Fail(j)
  BY <1>1, <1>2, <1>3 DEF WinnersHold
<1>4. CASE UNCHANGED <<holder, at, seen>>
  BY <1>4 DEF WinnersHold, Wins, Game
<1> QED
  BY <1>3, <1>4 DEF Next, TimePasses, gameVars

(* A game stays the one that its message has begun.                        *)
LEMMA GamesAreNewStep ==
    ASSUME EngagementTypeOK, GamesAreNew, [Next]_gameVars
    PROVE  GamesAreNew'
<1> USE EngagementAssumption DEF EngagementTypeOK, GamesAreNew
<1>1. ASSUME NEW j \in Jobs, Close(j), at[j] # "over", UNCHANGED games PROVE GamesAreNew'
  <2>1. at' = [at EXCEPT ![j] = "over"] /\ seen' = [seen EXCEPT ![j] = {}]
    BY <1>1 DEF Close
  <2>2. \A i \in Jobs : holder'[i] = i => i # j /\ holder[i] = i
    BY <1>1 DEF Close, Release
  <2> QED
    BY <1>1, <2>1, <2>2
<1>2. ASSUME NEW j \in Jobs, Ask(j) PROVE GamesAreNew'
  BY <1>2 DEF Ask, Go, Running, database
<1>3. ASSUME NEW j \in Jobs, Show(j) \/ ReadProfile(j) PROVE GamesAreNew'
  <2>1. AfterProfile(j) \notin {"insert", "over"}
    BY DEF AfterProfile
  <2>2. PICK there : there \notin {"insert", "over"} /\ at' = [at EXCEPT ![j] = there]
    BY <1>3, <2>1 DEF Show, ReadProfile, Go
  <2>3. UNCHANGED <<games, holder, seen>> /\ at[j] \notin {"over", "commit"}
    BY <1>3 DEF Show, ReadProfile, database
  <2> QED
    BY <2>2, <2>3
<1>4. ASSUME NEW j \in Jobs, StartGame(j) PROVE GamesAreNew'
  BY <1>4 DEF StartGame, Go, database
<1>5. ASSUME NEW j \in Jobs, InsertGame(j) PROVE GamesAreNew'
  BY <1>5 DEF InsertGame, Go, Hold, database
<1>6. ASSUME NEW j \in Jobs, CompleteGame(j) PROVE GamesAreNew'
  <2>1. Game(j) \in seen[j] /\ Game(j) \in Jobs
    BY <1>6 DEF CompleteGame, Wins, Game
  <2>2. Game(j) # j /\ at[j] = "asked"
    BY <1>6, <2>1 DEF CompleteGame
  <2> QED
    BY <1>6, <2>1, <2>2 DEF CompleteGame, Go, Hold, database
<1>7. ASSUME NEW j \in Jobs, Hold(j, Author[j]), UNCHANGED <<games, seen>>, at[j] \notin {"over", "commit"},
             NEW there \in Places \ {"insert", "over"}, Go(j, there)
      PROVE  GamesAreNew'
  <2>1. \A i \in Jobs : holder'[i] = i => holder[i] = i /\ i # j
    BY <1>7 DEF Hold
  <2> QED
    BY <1>7, <2>1 DEF Go
<1>8. ASSUME NEW j \in Jobs, OpenProfile(j) PROVE GamesAreNew'
  <2>1. CASE Close(j)
    BY <1>1, <1>8, <2>1 DEF OpenProfile, database
  <2>2. CASE Go(j, AfterProfile(j)) /\ Hold(j, Author[j]) /\ UNCHANGED <<asked, seen>>
    <3>1. AfterProfile(j) \in Places \ {"insert", "over"}
      BY DEF AfterProfile, Places
    <3> QED
      BY <1>7, <1>8, <2>2, <3>1 DEF OpenProfile, database
  <2> QED
    BY <1>8, <2>1, <2>2 DEF OpenProfile
<1>9. ASSUME NEW j \in Jobs, Count(j) \/ Award(j) \/ Reward(j) PROVE GamesAreNew'
  <2>1. /\ Hold(j, Author[j]) /\ UNCHANGED <<games, seen>> /\ at[j] \notin {"over", "commit"}
        /\ Go(j, "award") \/ Go(j, "commit")
    BY <1>9 DEF Count, Judge, Award, Reward, database
  <2>2. {"award", "commit"} \subseteq Places \ {"insert", "over"}
    BY DEF Places
  <2> QED
    BY <1>7, <2>1, <2>2
<1>10. ASSUME NEW j \in Jobs, Commit(j) PROVE GamesAreNew'
  <2>1. at' = [at EXCEPT ![j] = "over"] /\ seen' = [seen EXCEPT ![j] = {}]
    BY <1>10 DEF Commit, Close
  <2>2. \A i \in Jobs : holder'[i] = i => i # j /\ holder[i] = i
    BY <1>10 DEF Commit, Close, Release
  <2>3. Wins(j) => Game(j) \in seen[j] /\ Game(j) \in Jobs
    BY DEF Wins, Game
  <2>4. ASSUME NEW g \in Jobs
        PROVE  /\ games[g].state # "ABSENT" => games'[g].state # "ABSENT"
               /\ games'[g].state # "ABSENT" => games[g].state # "ABSENT" \/ g = j
    BY <1>10, <2>3 DEF Commit
  <2> QED
    BY <2>1, <2>2, <2>4
<1>11. ASSUME NEW j \in Jobs, Ambiguous(j) \/ TurnDown(j) \/ Fail(j) PROVE GamesAreNew'
  BY <1>1, <1>11 DEF Ambiguous, TurnDown, Fail, database
<1>12. CASE UNCHANGED <<games, at, seen, holder>>
  BY <1>12
<1> QED
  BY <1>2, <1>3, <1>4, <1>5, <1>6, <1>8, <1>9, <1>10, <1>11, <1>12
     DEF Next, Step, TimePasses, gameVars, database

(* A game is closed and paid for in one transaction.                       *)
LEMMA MintedStep ==
    ASSUME EngagementTypeOK, GamesAreNew, WinnerIsKnown, MintedOnce, [Next]_gameVars
    PROVE  WinnerIsKnown' /\ MintedOnce'
<1> USE EngagementAssumption DEF EngagementTypeOK, WinnerIsKnown, MintedOnce
<1>1. ASSUME NEW j \in Jobs, Commit(j) PROVE WinnerIsKnown' /\ MintedOnce'
  <2>1. CASE ~Wins(j)
    <3>1. minted' = minted
      BY <1>1, <2>1 DEF Commit
    <3>2. \A g \in Jobs : games'[g] = games[g] \/ (games'[g].state = "ACTIVE" /\ holder[j] = j /\ g = j)
      BY <1>1, <2>1 DEF Commit
    <3>3. holder[j] = j => games[j].state = "ABSENT"
      BY DEF GamesAreNew
    <3>4. \A g \in Jobs : games[g].state = "COMPLETED" => games'[g] = games[g]
      BY <3>2, <3>3
    <3>5. \A g \in Jobs : games'[g].state = "COMPLETED" => games'[g] = games[g]
      BY <3>2
    <3>6. \A l \in DOMAIN minted : l[1] \in Jobs
      OBVIOUS
    <3>7. \A l \in DOMAIN minted' : minted'[l] <= 1 /\ (minted'[l] = 1 => games'[l[1]].state = "COMPLETED")
      BY <3>1, <3>4, <3>6
    <3>8. \A g \in Jobs : games'[g].state = "COMPLETED" =>
              minted'[<<g, games'[g].winner>>] = 1 /\ games'[g].winner \in Viewers
      BY <3>1, <3>5
    <3> QED
      BY <3>7, <3>8
  <2>2. CASE Wins(j)
    <3> DEFINE k == <<Game(j), Author[j]>>
    <3>1. Game(j) \in Jobs /\ k \in Jobs \X Viewers
      BY <2>2 DEF Wins, Game
    <3>2. minted' = IF minted[k] = 0 THEN [minted EXCEPT ![k] = @ + 1] ELSE minted
      BY <1>1, <2>2 DEF Commit, Payable
    <3> HIDE DEF k
    <3>3a. minted[k] \in Nat /\ minted[k] <= 1
      BY <3>1
    <3>3. minted'[k] = 1 /\ \A l \in Jobs \X Viewers : l # k => minted'[l] = minted[l]
      <4>1. CASE minted[k] = 0
        <5>1. minted' = [minted EXCEPT ![k] = 1]
          BY <3>1, <3>2, <4>1
        <5> QED
          BY <3>1, <5>1
      <4>2. CASE minted[k] # 0
        <5>1. minted' = minted
          BY <3>2, <4>2
        <5>2. \A n \in Nat : n <= 1 /\ n # 0 => n = 1
          OBVIOUS
        <5>3. minted[k] = 1
          BY <3>3a, <4>2, <5>2
        <5> QED
          BY <5>1, <5>3
      <4> QED
        BY <4>1, <4>2
    <3>9. holder[j] # j
      BY <2>2 DEF GamesAreNew, Wins
    <3>4. /\ \A g \in Jobs : games'[g] = games[g] \/ (g = Game(j) /\ games'[g].winner = Author[j])
          /\ games'[Game(j)].state = "COMPLETED"
      BY <1>1, <2>2, <3>1, <3>9 DEF Commit
    <3>5. DOMAIN minted' = Jobs \X Viewers
      BY <3>2
    <3>6. \A l \in DOMAIN minted' : minted'[l] <= 1 /\ (minted'[l] = 1 => games'[l[1]].state = "COMPLETED")
      <4> SUFFICES ASSUME NEW l \in Jobs \X Viewers
                   PROVE  minted'[l] <= 1 /\ (minted'[l] = 1 => games'[l[1]].state = "COMPLETED")
        BY <3>5
      <4>1. DOMAIN minted = Jobs \X Viewers /\ l[1] \in Jobs
        OBVIOUS
      <4>2. minted[l] <= 1 /\ (minted[l] = 1 => games[l[1]].state = "COMPLETED")
        BY <4>1
      <4>3. CASE l = k
        BY <3>3, <3>4, <4>3 DEF k
      <4>4. CASE l # k
        <5>1. minted'[l] = minted[l]
          BY <3>3, <4>4
        <5>2. games'[l[1]] = games[l[1]] \/ games'[l[1]].state = "COMPLETED"
          BY <3>4, <4>1
        <5> QED
          BY <4>2, <5>1, <5>2
      <4> QED
        BY <4>3, <4>4
    <3>7. ASSUME NEW g \in Jobs, games'[g].state = "COMPLETED"
          PROVE  minted'[<<g, games'[g].winner>>] = 1
      <4>1. CASE g = Game(j) /\ games'[g].winner = Author[j]
        BY <3>3, <4>1 DEF k
      <4>2. CASE games'[g] = games[g]
        <5>1. minted[<<g, games[g].winner>>] = 1 /\ games[g].winner \in Viewers
          BY <3>7, <4>2
        <5>2. CASE <<g, games[g].winner>> = k
          BY <3>3, <4>2, <5>2
        <5>3. CASE <<g, games[g].winner>> # k
          BY <3>3, <4>2, <5>1, <5>3
        <5> QED
          BY <5>2, <5>3
      <4> QED
        BY <3>4, <3>7, <4>1, <4>2
    <3>8. WinnerIsKnown'
      BY <3>4
    <3> QED
      BY <3>6, <3>7, <3>8
  <2> QED
    BY <2>1, <2>2
<1>2. CASE UNCHANGED <<games, minted>>
  BY <1>2
<1> QED
  BY <1>1, <1>2 DEF Next, Step, Fail, TimePasses, gameVars, Ask, Ambiguous, StartGame, TurnDown,
                    InsertGame, CompleteGame, ReadProfile, OpenProfile, Show, Count, Award, Reward,
                    database


-----------------------------------------------------------------------------
(* Whose turn it is to be awarded holds the row of the profile.            *)
LEMMA AwardsHoldStep ==
    ASSUME EngagementTypeOK, AwardsHold, [Next]_gameVars
    PROVE  AwardsHold'
<1> USE EngagementAssumption
<1>1. ASSUME NEW j \in Jobs, Step(j) \/ Fail(j), NEW i \in Jobs \ {j}, at'[i] = "award"
      PROVE  holder'[Author[i]] = i
  BY <1>1, OthersKeep DEF AwardsHold
<1>2. ASSUME NEW j \in Jobs, Step(j) \/ Fail(j), at'[j] = "award"
      PROVE  holder'[Author[j]] = j
  <2> USE DEF EngagementTypeOK, Go
  <2>1. ASSUME Close(j) PROVE at'[j] = "over"
    BY <2>1 DEF Close
  <2>2. CASE Count(j)
    BY <2>2 DEF Count, Hold
  <2>3. CASE Ambiguous(j) \/ TurnDown(j) \/ Commit(j) \/ Fail(j)
    BY <1>2, <2>1, <2>3 DEF Ambiguous, TurnDown, Commit, Fail
  <2>4. CASE ReadProfile(j) \/ OpenProfile(j)
    BY <1>2, <2>1, <2>4 DEF ReadProfile, OpenProfile, AfterProfile
  <2>5. CASE Ask(j) \/ Show(j) \/ StartGame(j) \/ InsertGame(j) \/ CompleteGame(j) \/ Award(j) \/ Reward(j)
    BY <1>2, <2>5 DEF Ask, Show, StartGame, InsertGame, CompleteGame, Award, Reward
  <2> QED
    BY <1>2, <2>2, <2>3, <2>4, <2>5 DEF Step
<1>3. CASE \E j \in Jobs : Step(j) \/ Fail(j)
  BY <1>1, <1>2, <1>3 DEF AwardsHold
<1>4. CASE UNCHANGED <<holder, at>>
  BY <1>4 DEF AwardsHold
<1> QED
  BY <1>3, <1>4 DEF Next, TimePasses, gameVars

(* The memory of the guard is changed for one viewer, by a message that    *)
(* nobody else's hold on the profile stops.                                *)
LEMMA OneProfile ==
    ASSUME EngagementTypeOK, NEW j \in Jobs, Step(j) \/ Fail(j)
    PROVE  /\ now' = now
           /\ \/ UNCHANGED <<awards, daily>>
              \/ /\ Free(j, Author[j])
                 /\ \A v \in Viewers \ {Author[j]} : awards'[v] = awards[v] /\ daily'[v] = daily[v]
<1> USE EngagementAssumption DEF EngagementTypeOK
<1>1. CASE Count(j)
  BY <1>1 DEF Count, Judge
<1>2. CASE Award(j)
  BY <1>2 DEF Award
<1> QED
  BY <1>1, <1>2 DEF Step, Fail, Ask, Ambiguous, StartGame, TurnDown, InsertGame, CompleteGame,
                    ReadProfile, OpenProfile, Show, Reward, Commit, memory

(* What was found when the counter was flushed is so until it is used.     *)
LEMMA RoomForAwardStep ==
    ASSUME EngagementTypeOK, AwardsHold, DailyCounts, RoomForAward, [Next]_gameVars
    PROVE  RoomForAward'
<1> USE EngagementAssumption
<1>1. ASSUME NEW j \in Jobs, Step(j) \/ Fail(j), NEW i \in Jobs \ {j}, at'[i] = "award"
      PROVE  LET v == Author[i] IN
             /\ at[i] = "award" /\ now' = now
             /\ awards'[v] = awards[v] /\ daily'[v] = daily[v]
  <2>1. at[i] = "award" /\ holder[Author[i]] = i
    BY <1>1, OthersKeep DEF AwardsHold
  <2>2. ~Free(j, Author[i])
    BY <2>1 DEF Free
  <2> QED
    BY <1>1, <2>1, <2>2, OneProfile DEF EngagementTypeOK
<1>2. ASSUME NEW j \in Jobs, Step(j) \/ Fail(j), at'[j] = "award"
      PROVE  LET v == Author[j] IN
             /\ now' = now /\ awards' = awards
             /\ CanAward(v) /\ daily'[v].total = Today(v).total
  <2> USE DEF EngagementTypeOK, Go
  <2>1. ASSUME Close(j) PROVE at'[j] = "over"
    BY <2>1 DEF Close
  <2>2. CASE Count(j)
    BY <1>2, <2>2 DEF Count, Judge
  <2>3. CASE Ambiguous(j) \/ TurnDown(j) \/ Commit(j) \/ Fail(j)
    BY <1>2, <2>1, <2>3 DEF Ambiguous, TurnDown, Commit, Fail
  <2>4. CASE ReadProfile(j) \/ OpenProfile(j)
    BY <1>2, <2>1, <2>4 DEF ReadProfile, OpenProfile, AfterProfile
  <2>5. CASE Ask(j) \/ Show(j) \/ StartGame(j) \/ InsertGame(j) \/ CompleteGame(j) \/ Award(j) \/ Reward(j)
    BY <1>2, <2>5 DEF Ask, Show, StartGame, InsertGame, CompleteGame, Award, Reward
  <2> QED
    BY <1>2, <2>2, <2>3, <2>4, <2>5 DEF Step
<1>3. ASSUME NEW j \in Jobs, Step(j) \/ Fail(j) PROVE RoomForAward'
  <2> SUFFICES ASSUME NEW i \in Jobs, at'[i] = "award"
               PROVE  LET v == Author[i] IN
                      /\ \A a \in awards'[v] : a[2] + Cooldown <= now'
                      /\ Cardinality({a \in awards'[v] : now' < a[2] + BurstWindow}) < BurstMax
                      /\ daily'[v].total < DailyMax
    BY DEF RoomForAward
  <2>1. CASE i = j
    BY ZenonT(60), <1>2, <1>3, <2>1 DEF CanAward
  <2>2. CASE i # j
    <3>1. /\ at[i] = "award" /\ now' = now
          /\ awards'[Author[i]] = awards[Author[i]] /\ daily'[Author[i]] = daily[Author[i]]
      BY <1>1, <1>3, <2>2
    <3> QED
      BY <3>1 DEF RoomForAward
  <2> QED
    BY <2>1, <2>2
<1>4. CASE TimePasses
  <2>1. now' = now + 1 /\ UNCHANGED <<awards, daily, at>>
    BY <1>4 DEF TimePasses, memory
  <2> SUFFICES ASSUME NEW i \in Jobs, at[i] = "award"
               PROVE  LET v == Author[i] IN
                      /\ \A a \in awards[v] : a[2] + Cooldown <= now + 1
                      /\ Cardinality({a \in awards[v] : now + 1 < a[2] + BurstWindow}) < BurstMax
                      /\ daily[v].total < DailyMax
    BY <2>1 DEF RoomForAward
  <2> DEFINE v == Author[i]
             Recent(t) == {a \in awards[v] : t < a[2] + BurstWindow}
  <2>2. /\ v \in Viewers /\ now \in Nat /\ Cooldown \in Nat /\ BurstWindow \in Nat /\ BurstMax \in Nat
        /\ \A a \in awards[v] : a[2] \in Nat
    BY DEF EngagementTypeOK
  <2>3. /\ \A a \in awards[v] : a[2] + Cooldown <= now
        /\ Cardinality(Recent(now)) < BurstMax
        /\ daily[v].total < DailyMax
    BY DEF RoomForAward
  <2>4. Recent(now + 1) \subseteq Recent(now) /\ IsFiniteSet(Recent(now))
    <3>1. IsFiniteSet(awards[v])
      BY <2>2 DEF DailyCounts
    <3> QED
      BY <2>2, <3>1, FS_Subset
  <2>5. /\ Cardinality(Recent(now + 1)) <= Cardinality(Recent(now))
        /\ Cardinality(Recent(now + 1)) \in Nat /\ Cardinality(Recent(now)) \in Nat
    BY <2>4, FS_Subset, FS_CardinalityType
  <2>6. \A a \in awards[v] : a[2] + Cooldown <= now + 1
    BY <2>2, <2>3
  <2>7. Cardinality(Recent(now + 1)) < BurstMax
    <3> HIDE DEF Recent
    <3> QED
      BY <2>2, <2>3, <2>5
  <2> QED
    BY <2>3, <2>6, <2>7
<1>5. CASE UNCHANGED gameVars
  BY <1>5 DEF gameVars, memory, RoomForAward
<1> QED
  BY <1>3, <1>4, <1>5 DEF Next

(* One more award, to a viewer for whom there is room: what is counted of  *)
(* the awards grows by one at most.                                        *)
LEMMA OneMore ==
    ASSUME NEW S, IsFiniteSet(S), NEW x, NEW T, T \subseteq S \cup {x}
    PROVE  /\ IsFiniteSet(T) /\ Cardinality(T) \in Nat /\ Cardinality(S) \in Nat
           /\ Cardinality(T) <= Cardinality(S) + 1
<1>1. /\ IsFiniteSet(S \cup {x})
      /\ Cardinality(S \cup {x}) = IF x \in S THEN Cardinality(S) ELSE Cardinality(S) + 1
  BY FS_AddElement
<1>2. Cardinality(S) \in Nat /\ Cardinality(S \cup {x}) \in Nat
  BY <1>1, FS_CardinalityType
<1>3. IsFiniteSet(T) /\ Cardinality(T) <= Cardinality(S \cup {x}) /\ Cardinality(T) \in Nat
  BY <1>1, FS_Subset, FS_CardinalityType
<1> QED
  BY <1>1, <1>2, <1>3

(* The counters of a viewer are right after an award.                      *)
LEMMA AwardCounts ==
    ASSUME EngagementTypeOK, DailyCounts, NEW v \in Viewers, NEW j \in Jobs
    PROVE  LET After == awards[v] \cup {<<j, now>>} IN
           /\ IsFiniteSet(After)
           /\ \A a \in After : a[2] <= now /\ DayOf(a) <= Day
           /\ Cardinality({a \in After : DayOf(a) = Day}) <= daily[v].total + 1
<1> USE EngagementAssumption DEF EngagementTypeOK
<1> DEFINE After == awards[v] \cup {<<j, now>>}
<1>1. IsFiniteSet(After)
  BY FS_AddElement DEF DailyCounts
<1>2. /\ daily[v].day \in Nat /\ daily[v].total \in Nat /\ now \in Nat /\ Day \in Nat
      /\ daily[v].day <= Day
      /\ \A a \in awards[v] : a[2] \in Nat /\ a[2] <= now /\ DayOf(a) \in Nat /\ DayOf(a) <= daily[v].day
  <2>1. now \in Nat /\ Day \in Nat
    BY DaysInOrder DEF Day
  <2>2. \A a \in awards[v] : a[2] \in Nat /\ DayOf(a) \in Nat
    BY DaysInOrder DEF DayOf
  <2> QED
    BY <2>1, <2>2 DEF DailyCounts
<1>3. \A a \in After : a[2] <= now /\ DayOf(a) <= Day
  <2>1. DayOf(<<j, now>>) = Day /\ <<j, now>>[2] = now
    BY DEF DayOf, Day
  <2>2. ASSUME NEW a \in awards[v] PROVE a[2] <= now /\ DayOf(a) <= Day
    BY <1>2
  <2>3. now <= now /\ Day <= Day
    BY <1>2
  <2>4. ASSUME NEW a \in After PROVE a[2] <= now /\ DayOf(a) <= Day
    <3>1. CASE a \in awards[v]
      BY <2>2, <3>1
    <3>2. CASE a = <<j, now>>
      BY <2>1, <2>3, <3>2
    <3> QED
      BY <3>1, <3>2
  <2> QED
    BY <2>4
<1>4. Cardinality({a \in After : DayOf(a) = Day}) <= daily[v].total + 1
  <2> DEFINE S == AwardsOfDay(v, Day)
  <2>1. IsFiniteSet(S) /\ Cardinality(S) \in Nat
    <3>1. S \subseteq awards[v] /\ IsFiniteSet(awards[v])
      BY DEF AwardsOfDay, DailyCounts
    <3> HIDE DEF S
    <3> QED
      BY SMTT(60), <3>1, FS_Subset, FS_CardinalityType
  <2>2. Cardinality(S) <= daily[v].total
    <3>1. CASE daily[v].day = Day
      BY <3>1 DEF DailyCounts
    <3>2. CASE daily[v].day # Day
      <4>1. daily[v].day < Day
        <5>1. \A m, n \in Nat : m <= n /\ m # n => m < n
          OBVIOUS
        <5> QED
          BY <1>2, <3>2, <5>1
      <4>2. \A a \in awards[v] : DayOf(a) # Day
        BY <1>2, <4>1
      <4>3. S = {}
        BY <4>2 DEF AwardsOfDay
      <4> QED
        BY <1>2, <4>3, FS_EmptySet
    <3> QED
      BY <3>1, <3>2
  <2>3. {a \in After : DayOf(a) = Day} \subseteq S \cup {<<j, now>>}
    BY DEF AwardsOfDay
  <2>4. /\ Cardinality({a \in After : DayOf(a) = Day}) \in Nat
        /\ Cardinality({a \in After : DayOf(a) = Day}) <= Cardinality(S) + 1
    <3> HIDE DEF S, After
    <3> QED
      BY <2>1, <2>3, OneMore
  <2> HIDE DEF S, After
  <2> QED
    BY <1>2, <2>1, <2>2, <2>4
<1> QED
  BY <1>1, <1>3, <1>4

(* The counters are kept by every step: the clock only grows, and a total  *)
(* that starts again at zero does so on a day that has no awards yet.      *)
LEMMA DailyCountsStep ==
    ASSUME EngagementTypeOK, DailyCounts, [Next]_gameVars
    PROVE  DailyCounts'
<1> USE EngagementAssumption
<1>0. /\ \A v \in Viewers : /\ daily[v].day \in Nat /\ daily[v].total \in Nat
                            /\ \A a \in awards[v] : a[2] \in Nat /\ DayOf(a) \in Nat
      /\ now \in Nat /\ Day \in Nat
  BY DaysInOrder DEF EngagementTypeOK, DayOf, Day
<1>1. ASSUME NEW j \in Jobs, Count(j) PROVE DailyCounts'
  <2> DEFINE u == Author[j]
  <2>1. /\ awards' = awards /\ now' = now /\ u \in Viewers
        /\ daily' = daily \/ daily' = [daily EXCEPT ![u] = Today(u)]
    BY <1>1 DEF Count, Judge
  <2>2. CASE daily' = daily \/ Today(u) = daily[u]
    <3>1. daily' = daily
      BY <2>1, <2>2 DEF EngagementTypeOK
    <3> QED
      BY <2>1, <3>1 DEF DailyCounts, AwardsOfDay, DayOf, Day
  <2>3. CASE daily' = [daily EXCEPT ![u] = Today(u)] /\ Today(u) # daily[u]
    <3>1. Today(u) = [day |-> Day, total |-> 0] /\ daily[u].day # Day
      BY <2>3 DEF Today
    <3>2. daily[u].day <= Day /\ \A a \in awards[u] : DayOf(a) <= daily[u].day
      BY <2>1 DEF DailyCounts
    <3>3. \A k, m, n \in Nat : k <= m /\ m <= n /\ m # n => k <= n /\ k # n
      OBVIOUS
    <3>4. \A a \in awards[u] : DayOf(a) <= Day /\ DayOf(a) # Day
      BY <1>0, <2>1, <3>1, <3>2, <3>3
    <3>5. Cardinality(AwardsOfDay(u, Day)) = 0
      <4>1. AwardsOfDay(u, Day) = {}
        BY <3>4 DEF AwardsOfDay
      <4> QED
        BY <4>1, FS_EmptySet
    <3>6. /\ daily'[u] = [day |-> Day, total |-> 0]
          /\ \A v \in Viewers \ {u} : daily'[v] = daily[v]
      BY <2>1, <2>3, <3>1 DEF EngagementTypeOK
    <3>7. Day' = Day
      BY <2>1 DEF Day
    <3>8. ASSUME NEW v \in Viewers
          PROVE  /\ IsFiniteSet(awards[v])
                 /\ daily'[v].day <= Day
                 /\ \A a \in awards[v] : a[2] <= now /\ DayOf(a) <= daily'[v].day
                 /\ Cardinality({a \in awards[v] : DayOf(a) = daily'[v].day}) <= daily'[v].total
      <4>1. CASE v = u
        <5>1. daily'[v].day = Day /\ daily'[v].total = 0
          BY <3>6, <4>1
        <5>2. IsFiniteSet(awards[v]) /\ \A a \in awards[v] : a[2] <= now
          BY DEF DailyCounts
        <5>3. Day <= Day /\ 0 <= 0
          BY <1>0
        <5>4. Cardinality({a \in awards[v] : DayOf(a) = Day}) = 0
          BY <3>5, <4>1 DEF AwardsOfDay
        <5>5. \A a \in awards[v] : DayOf(a) <= Day
          BY <3>4, <4>1
        <5> HIDE DEF u
        <5> QED
          BY <5>1, <5>2, <5>3, <5>4, <5>5
      <4>2. CASE v # u
        BY <3>6, <4>2 DEF DailyCounts, AwardsOfDay
      <4> QED
        BY <4>1, <4>2
    <3> QED
      BY <2>1, <3>7, <3>8 DEF DailyCounts, AwardsOfDay, DayOf
  <2> QED
    BY <2>1, <2>2, <2>3
<1>2. ASSUME NEW j \in Jobs, Award(j) PROVE DailyCounts'
  <2> DEFINE u == Author[j]
             After == awards[u] \cup {<<j, now>>}
  <2>1. /\ now' = now /\ u \in Viewers
        /\ awards' = [awards EXCEPT ![u] = After]
        /\ daily' = [daily EXCEPT ![u] = [day |-> Day, total |-> daily[u].total + 1]]
    BY <1>2 DEF Award
  <2>2. /\ IsFiniteSet(After)
        /\ \A a \in After : a[2] <= now /\ DayOf(a) <= Day
        /\ Cardinality({a \in After : DayOf(a) = Day}) <= daily[u].total + 1
    BY <2>1, AwardCounts
  <2> HIDE DEF After
  <2>3. /\ daily'[u] = [day |-> Day, total |-> daily[u].total + 1] /\ awards'[u] = After
        /\ \A v \in Viewers \ {u} : daily'[v] = daily[v] /\ awards'[v] = awards[v]
    BY <2>1 DEF EngagementTypeOK
  <2>4. Day' = Day
    BY <2>1 DEF Day
  <2>5. ASSUME NEW v \in Viewers
        PROVE  /\ IsFiniteSet(awards'[v])
               /\ daily'[v].day <= Day
               /\ \A a \in awards'[v] : a[2] <= now /\ DayOf(a) <= daily'[v].day
               /\ Cardinality({a \in awards'[v] : DayOf(a) = daily'[v].day}) <= daily'[v].total
    <3>1. CASE v = u
      <4>1. /\ awards'[v] = After
            /\ daily'[v].day = Day /\ daily'[v].total = daily[u].total + 1
        BY <2>3, <3>1
      <4>2. Day <= Day
        BY <1>0
      <4> QED
        BY <2>2, <4>1, <4>2
    <3>2. CASE v # u
      BY ZenonT(60), <2>3, <3>2 DEF DailyCounts, AwardsOfDay
    <3> QED
      BY <3>1, <3>2
  <2> QED
    BY <2>1, <2>4, <2>5 DEF DailyCounts, AwardsOfDay, DayOf
<1>3. CASE TimePasses
  <2>1. now' = now + 1 /\ UNCHANGED <<awards, daily>>
    BY <1>3 DEF TimePasses, memory
  <2>2. Day' \in Nat /\ Day <= Day'
    BY <1>0, <2>1, DaysInOrder DEF Day
  <2>3. \A k, m, n \in Nat : k <= m /\ m <= n => k <= n
    OBVIOUS
  <2>4. \A v \in Viewers : daily[v].day <= Day' /\ \A a \in awards[v] : a[2] <= now + 1
    BY <1>0, <2>2, <2>3 DEF DailyCounts
  <2> QED
    BY <2>1, <2>4 DEF DailyCounts, AwardsOfDay, DayOf
<1>4. CASE UNCHANGED <<awards, daily, now>>
  BY <1>4 DEF DailyCounts, AwardsOfDay, DayOf, Day
<1> QED
  BY <1>1, <1>2, <1>3, <1>4 DEF Next, Step, Fail, gameVars, Ask, Ambiguous, StartGame, TurnDown,
                    InsertGame, CompleteGame, ReadProfile, OpenProfile, Show, Reward, Commit, memory

(* An award that is made where there is room for it keeps the pace.        *)
LEMMA AwardKeepsPace ==
    ASSUME EngagementTypeOK, RoomForAward, DailyCounts, PacedAwards,
           NEW j \in Jobs, at[j] = "award"
    PROVE  LET After == awards[Author[j]] \cup {<<j, now>>} IN
           /\ \A a, b \in After : a # b => a[2] + Cooldown <= b[2] \/ b[2] + Cooldown <= a[2]
           /\ \A t \in 0..MaxTime :
                Cardinality({a \in After : a[2] \in t..(t + BurstWindow - 1)}) <= BurstMax
           /\ \A d \in 0..MaxTime :
                Cardinality({a \in After : a[2] \div DayLength = d}) <= DailyMax
<1> DEFINE v == Author[j]
           new == <<j, now>>
           After == awards[v] \cup {new}
<1>1. /\ v \in Viewers /\ now \in Nat /\ new[2] = now
      /\ {Cooldown, BurstWindow, BurstMax, DailyMax} \subseteq Nat \ {0}
      /\ \A a \in awards[v] : a[2] \in Nat
  BY EngagementAssumption DEF EngagementTypeOK
<1>2. IsFiniteSet(awards[v])
  BY <1>1 DEF DailyCounts
<1>3. \A a, b \in After : a # b => a[2] + Cooldown <= b[2] \/ b[2] + Cooldown <= a[2]
  <2>1. \A a \in awards[v] : a[2] + Cooldown <= new[2]
    BY <1>1 DEF RoomForAward
  <2>2. \A a, b \in awards[v] : a # b => a[2] + Cooldown <= b[2] \/ b[2] + Cooldown <= a[2]
    BY <1>1 DEF PacedAwards
  <2> QED
    BY <2>1, <2>2
<1>4. ASSUME NEW t \in 0..MaxTime
      PROVE  Cardinality({a \in After : a[2] \in t..(t + BurstWindow - 1)}) <= BurstMax
  <2> DEFINE Within(A) == {a \in A : a[2] \in t..(t + BurstWindow - 1)}
             Recent == {a \in awards[v] : now < a[2] + BurstWindow}
  <2>1. CASE now \notin t..(t + BurstWindow - 1)
    <3>1. Within(After) = Within(awards[v])
      BY <1>1, <2>1
    <3> QED
      BY <1>1, <3>1 DEF PacedAwards
  <2>2. CASE now \in t..(t + BurstWindow - 1)
    <3>1. Within(After) \subseteq Recent \cup {new}
      BY <1>1, <2>2, EngagementAssumption
    <3>2. Cardinality(Recent) < BurstMax
      BY DEF RoomForAward
    <3>3. IsFiniteSet(Recent)
      <4>1. Recent \subseteq awards[v]
        OBVIOUS
      <4> HIDE DEF Recent
      <4> QED
        BY <1>2, <4>1, FS_Subset
    <3>4. /\ Cardinality(Within(After)) \in Nat /\ Cardinality(Recent) \in Nat
          /\ Cardinality(Within(After)) <= Cardinality(Recent) + 1
      <4> HIDE DEF Recent, Within, After
      <4> QED
        BY <3>1, <3>3, OneMore
    <3> HIDE DEF Recent
    <3>5. Cardinality(Within(After)) <= BurstMax
      <4> HIDE DEF Within
      <4> QED
        BY <1>1, <3>2, <3>4
    <3> QED
      BY <3>5
  <2> QED
    BY <2>1, <2>2
<1>5. ASSUME NEW d \in 0..MaxTime
      PROVE  Cardinality({a \in After : a[2] \div DayLength = d}) <= DailyMax
  <2> DEFINE OfDay(A) == {a \in A : a[2] \div DayLength = d}
  <2>1. CASE d # Day
    <3>1. OfDay(After) = OfDay(awards[v])
      BY <1>1, <2>1 DEF Day
    <3> QED
      BY <1>1, <3>1 DEF PacedAwards
  <2>2. CASE d = Day
    <3>1. Cardinality({a \in After : DayOf(a) = Day}) <= daily[v].total + 1
      BY <1>1, AwardCounts
    <3>2. daily[v].total < DailyMax /\ daily[v].total \in Nat
      BY <1>1 DEF RoomForAward, EngagementTypeOK
    <3>3. IsFiniteSet(After)
      BY <1>2, FS_AddElement
    <3>4. OfDay(After) = {a \in After : DayOf(a) = Day}
      BY <2>2 DEF DayOf
    <3>5. Cardinality(OfDay(After)) \in Nat
      <4>1. OfDay(After) \subseteq After
        OBVIOUS
      <4> HIDE DEF OfDay, After
      <4> QED
        BY <3>3, <4>1, FS_Subset, FS_CardinalityType
    <3>6. Cardinality(OfDay(After)) <= DailyMax
      <4> HIDE DEF OfDay, After
      <4> QED
        BY <1>1, <3>1, <3>2, <3>4, <3>5
    <3> QED
      BY <3>6
  <2> QED
    BY <2>1, <2>2
<1> QED
  BY <1>3, <1>4, <1>5

(* An award is the only step that could break the pace, and does not.      *)
LEMMA PacedStep ==
    ASSUME EngagementTypeOK, RoomForAward, DailyCounts, PacedAwards, [Next]_gameVars
    PROVE  PacedAwards'
<1>1. ASSUME NEW j \in Jobs, Award(j) PROVE PacedAwards'
  <2> DEFINE u == Author[j]
             After == awards[u] \cup {<<j, now>>}
  <2>1. awards' = [awards EXCEPT ![u] = After] /\ u \in Viewers /\ at[j] = "award"
    BY <1>1, EngagementAssumption DEF Award
  <2>2. /\ \A a, b \in After : a # b => a[2] + Cooldown <= b[2] \/ b[2] + Cooldown <= a[2]
        /\ \A t \in 0..MaxTime :
             Cardinality({a \in After : a[2] \in t..(t + BurstWindow - 1)}) <= BurstMax
        /\ \A d \in 0..MaxTime :
             Cardinality({a \in After : a[2] \div DayLength = d}) <= DailyMax
    BY <2>1, AwardKeepsPace
  <2> HIDE DEF After
  <2>3. awards'[u] = After /\ \A v \in Viewers \ {u} : awards'[v] = awards[v]
    BY <2>1 DEF EngagementTypeOK
  <2> SUFFICES ASSUME NEW v \in Viewers
               PROVE  /\ \A a, b \in awards'[v] : a # b => a[2] + Cooldown <= b[2] \/ b[2] + Cooldown <= a[2]
                      /\ \A t \in 0..MaxTime :
                           Cardinality({a \in awards'[v] : a[2] \in t..(t + BurstWindow - 1)}) <= BurstMax
                      /\ \A d \in 0..MaxTime :
                           Cardinality({a \in awards'[v] : a[2] \div DayLength = d}) <= DailyMax
    BY DEF PacedAwards
  <2>4. CASE v = u
    BY <2>2, <2>3, <2>4
  <2>5. CASE v # u
    BY <2>3, <2>5 DEF PacedAwards
  <2> QED
    BY <2>4, <2>5
<1>2. CASE UNCHANGED awards
  BY <1>2 DEF PacedAwards
<1> QED
  BY <1>1, <1>2 DEF Next, Step, Fail, TimePasses, gameVars, Ask, Ambiguous, StartGame, TurnDown,
                    InsertGame, CompleteGame, ReadProfile, OpenProfile, Show, Count, Reward, Commit, memory

(* Theorem: no message is given points too soon after another, too many in *)
(* a burst or too many in a day, though the guard is asked before the      *)
(* points are flushed and told after it.                                   *)
THEOREM AwardsKeepTheirPace == Spec => []PacedAwards
<1>1. Init => PacedInv
  <2> SUFFICES ASSUME Init PROVE PacedInv
    OBVIOUS
  <2>1. EngagementTypeOK
    BY EngagementTypeInit
  <2>2. AwardsHold /\ RoomForAward
    BY DEF Init, AwardsHold, RoomForAward
  <2>3. \A v \in Viewers : awards[v] = {} /\ daily[v] = [day |-> 0, total |-> 0]
    BY DEF Init, EngagementInit
  <2>4. now \in Nat /\ Day \in Nat
    BY <2>1, EngagementAssumption, DaysInOrder DEF EngagementTypeOK, Day
  <2>5. DailyCounts
    <3> SUFFICES ASSUME NEW v \in Viewers
                 PROVE  IsFiniteSet(awards[v]) /\ Cardinality(AwardsOfDay(v, daily[v].day)) <= 0
      BY <2>3, <2>4 DEF DailyCounts
    <3>1. AwardsOfDay(v, daily[v].day) = {}
      BY <2>3 DEF AwardsOfDay
    <3> QED
      BY <2>3, <3>1, FS_EmptySet
  <2>6. PacedAwards
    <3>1. BurstMax >= 0 /\ DailyMax >= 0 /\ Cardinality({}) = 0
      BY EngagementAssumption, FS_EmptySet
    <3>2. ASSUME NEW v \in Viewers, NEW t \in 0..MaxTime
          PROVE  /\ {a \in awards[v] : a[2] \in t..(t + BurstWindow - 1)} = {}
                 /\ {a \in awards[v] : a[2] \div DayLength = t} = {}
      BY <2>3
    <3> QED
      BY <2>3, <3>1, <3>2 DEF PacedAwards
  <2> QED
    BY <2>1, <2>2, <2>5, <2>6 DEF PacedInv
<1>2. PacedInv /\ [Next]_gameVars => PacedInv'
  BY EngagementTypeStep, AwardsHoldStep, RoomForAwardStep, DailyCountsStep, PacedStep DEF PacedInv
<1>3. PacedInv => PacedAwards
  BY DEF PacedInv
<1> QED
  BY <1>1, <1>2, <1>3, PTL DEF Spec

(* Theorem: a viewer is paid once for a game, and only for one that is     *)
(* over; and the viewer whom the row of a game names has been paid for it. *)
(* It says nothing of how many viewers are paid for a game.                *)
THEOREM WinnersArePaidOnce == Spec => []MintedOnce
<1>1. Init => PaidInv
  BY EngagementTypeInit, EngagementAssumption
     DEF Init, EngagementInit, PaidInv, WinnersHold, GamesAreNew, WinnerIsKnown, MintedOnce
<1>2. PaidInv /\ [Next]_gameVars => PaidInv'
  BY EngagementTypeStep, WinnersHoldStep, GamesAreNewStep, MintedStep DEF PaidInv
<1>3. PaidInv => MintedOnce
  BY DEF PaidInv
<1> QED
  BY <1>1, <1>2, <1>3, PTL DEF Spec

-----------------------------------------------------------------------------
(* Commands.                                                               *)

(* A request that is between its lookup and its end is about a row; one    *)
(* that adds has made none yet, and one that changes has a copy of it.     *)
KnowsItsRow ==
    \A r \in Requests :
        /\ Op[r] = "use" => stage[r] \in {"new", "over"}
        /\ stage[r] \in {"flush", "commit"} =>
            /\ loaded[r] \in Ids
            /\ Op[r] = "add" => loaded[r] = r
            /\ Op[r] \in {"edit", "perms"} => copy[r] # Nobody

(* A row comes from the request it is named for, which is over then; no    *)
(* other request is about it before.                                       *)
RowsAreMade ==
    /\ \A i \in Ids : rows[i] # Nobody => stage[i] = "over"
    /\ \A r \in Requests : loaded[r] # Nobody /\ loaded[r] # r => stage[loaded[r]] = "over"

(* A request that has flushed a change holds what it is about, and nothing *)
(* has made its statement fruitless since.                                 *)
WritersHold ==
    \A r \in Requests : stage[r] = "commit" /\ Changes(r) => writer[Wanted(r)] = r /\ ~Fruitless(r)

AnsweredIsOver == \A r \in replied : stage[r] = "over"

(* What a request has loaded is still what the row says, or another        *)
(* request that was answered has changed it.                               *)
Accounted(r) ==
    /\ Op[r] = "edit" =>
        \/ rows[loaded[r]].text = copy[r].text
        \/ \E q \in Answered("edit", loaded[r]) : rows[loaded[r]].text = Text[q]
    /\ Op[r] = "perms" =>
        \/ rows[loaded[r]].role = copy[r].role
        \/ \E q \in Answered("perms", loaded[r]) : rows[loaded[r]].role = MinRole[q]

CopyIsAccounted ==
    \A r \in Requests :
        stage[r] \in {"flush", "commit"} /\ rows[loaded[r]] # Nobody => Accounted(r)

CommandsInv ==
    /\ CommandsTypeOK
    /\ KnowsItsRow
    /\ RowsAreMade
    /\ WritersHold
    /\ AnsweredIsOver
    /\ CopyIsAccounted
    /\ NoChangeIsLost

-----------------------------------------------------------------------------
(* The end of a request: the others keep what they have and hold.          *)
LEMMA EndsAlone ==
    ASSUME CommandsTypeOK, NEW r \in Requests, End(r)
    PROVE  /\ stage'[r] = "over"
           /\ \A q \in Requests : stage'[q] \in {stage[q], "over"}
           /\ \A q \in Requests \ {r} : stage'[q] = stage[q] /\ copy'[q] = copy[q]
           /\ \A q \in Requests \ {r}, k \in Ids \cup Names : writer[k] = q => writer'[k] = q
           /\ stage' \in [Requests -> {"new", "flush", "commit", "over"}]
           /\ writer' \in [Ids \cup Names -> Requests \cup {Nobody}]
           /\ copy' \in [Requests -> Row \cup {Nobody}]
BY CommandsAssumption DEF End, CommandsTypeOK

(* At first every request is new and nobody holds a row or a name.         *)
LEMMA CommandsStart ==
    ASSUME CommandsInit, stage = [r \in Requests |-> "new"] PROVE CommandsInv
<1> USE CommandsAssumption DEF CommandsInit
<1>1. CommandsTypeOK
  BY DEF CommandsTypeOK
<1>2. KnowsItsRow /\ RowsAreMade /\ WritersHold /\ AnsweredIsOver /\ CopyIsAccounted /\ NoChangeIsLost
  BY DEF KnowsItsRow, RowsAreMade, WritersHold, AnsweredIsOver, CopyIsAccounted, NoChangeIsLost
<1> QED
  BY <1>1, <1>2 DEF CommandsInv

(* The type of the state is kept by every step.                            *)
LEMMA CommandsTypeStep ==
    ASSUME CommandsInv, [CommandNext]_commandVars
    PROVE  CommandsTypeOK'
<1> USE CommandsAssumption DEF CommandsInv, CommandsTypeOK
<1>1. ASSUME NEW r \in Requests, LookUp(r) PROVE CommandsTypeOK'
  <2>1. Name[r] \in Names
    BY DEF Names
  <2>2. PICK i \in Ids : loaded' = [loaded EXCEPT ![r] = i] /\ copy' = [copy EXCEPT ![r] = rows[i]]
    <3>1. CASE Op[r] = "add"
      BY <1>1, <3>1 DEF LookUp, Ids
    <3>2. CASE Op[r] # "add"
      <4>1. (CHOOSE i \in Found(Name[r]) : TRUE) \in Ids
        BY <1>1, <3>2 DEF LookUp, MayChange, Found
      <4> QED
        BY <1>1, <3>2, <4>1 DEF LookUp
    <3> QED
      BY <3>1, <3>2
  <2>3. loaded' \in [Requests -> Ids \cup {Nobody}] /\ copy' \in [Requests -> Row \cup {Nobody}]
    BY <2>2
  <2> QED
    BY <1>1, <2>3 DEF LookUp
<1>2. ASSUME NEW r \in Requests, TurnAway(r) \/ Break(r) PROVE CommandsTypeOK'
  BY <1>2, EndsAlone DEF TurnAway, Break
<1>3. ASSUME NEW r \in Requests, FlushNothing(r) PROVE CommandsTypeOK'
  BY <1>3 DEF FlushNothing
<1>4. ASSUME NEW r \in Requests, Flush(r) PROVE CommandsTypeOK'
  <2>1. Wanted(r) \in Ids \cup Names
    BY <1>4 DEF Flush, Wanted, Names, KnowsItsRow
  <2>2. CASE Fruitless(r)
    BY <1>4, <2>2, EndsAlone DEF Flush
  <2>3. CASE ~Fruitless(r)
    BY <1>4, <2>1, <2>3 DEF Flush
  <2> QED
    BY <2>2, <2>3
<1>5. ASSUME NEW r \in Requests, Accept(r) PROVE CommandsTypeOK'
  <2>1. rows' \in [Ids -> Row \cup {Nobody}]
    <3>1. CASE ~Changes(r)
      BY <1>5, <3>1 DEF Accept
    <3>2. CASE Changes(r)
      <4>1. loaded[r] \in Ids /\ rows' = [rows EXCEPT ![loaded[r]] = Changed(r, rows[loaded[r]])]
        BY <1>5, <3>2 DEF Accept, KnowsItsRow
      <4>2. Op[r] \in {"edit", "perms"} => rows[loaded[r]] \in Row
        BY <1>5, <3>2, <4>1 DEF Accept, WritersHold, Fruitless
      <4>3. Changed(r, rows[loaded[r]]) \in Row \cup {Nobody}
        BY <4>2 DEF Changed, Row, Names
      <4> QED
        BY <4>1, <4>3
    <3> QED
      BY <3>1, <3>2
  <2> QED
    BY <1>5, <2>1, EndsAlone DEF Accept
<1>6. ASSUME NEW r \in Requests, Use(r) PROVE CommandsTypeOK'
  <2>1. Sender[r] \in Senders /\ Target(r) \in Names \cup Builtins
    BY DEF Senders, Target, Names
  <2> QED
    BY <1>6, <2>1, EndsAlone DEF Use
<1>7. CASE CooldownEnds
  BY <1>7 DEF CooldownEnds
<1>8. CASE UNCHANGED commandVars
  BY <1>8 DEF commandVars
<1> QED
  BY <1>1, <1>2, <1>3, <1>4, <1>5, <1>6, <1>7, <1>8 DEF CommandNext

-----------------------------------------------------------------------------
(* What remains of the invariant when the type of the state is known.      *)
CommandsParts ==
    KnowsItsRow /\ RowsAreMade /\ WritersHold /\ AnsweredIsOver /\ CopyIsAccounted /\ NoChangeIsLost

(* A request that ends and has changed nothing.                            *)
LEMMA FruitlessEnd ==
    ASSUME CommandsInv, NEW r \in Requests, End(r), UNCHANGED <<rows, loaded>>,
           replied' = replied \/ (replied' = replied \cup {r} /\ Op[r] = "use")
    PROVE  CommandsParts'
<1> USE CommandsAssumption DEF CommandsInv, CommandsParts
<1>0. /\ stage'[r] = "over"
      /\ \A q \in Requests : stage'[q] \in {stage[q], "over"}
      /\ \A q \in Requests \ {r} : stage'[q] = stage[q] /\ copy'[q] = copy[q]
      /\ \A q \in Requests \ {r}, k \in Ids \cup Names : writer[k] = q => writer'[k] = q
  BY EndsAlone
<1>1. \A i \in Ids, op \in {"edit", "perms", "delete"} : Answered(op, i)' = Answered(op, i)
  BY DEF Answered
<1>2. KnowsItsRow'
  BY <1>0 DEF KnowsItsRow
<1>3. RowsAreMade'
  BY <1>0 DEF RowsAreMade, CommandsTypeOK, Ids
<1>4. WritersHold'
  <2> SUFFICES ASSUME NEW q \in Requests, stage'[q] = "commit", Changes(q)'
               PROVE  writer'[Wanted(q)'] = q /\ ~Fruitless(q)'
    BY DEF WritersHold
  <2>1. q # r /\ stage[q] = "commit" /\ Changes(q) /\ Wanted(q)' = Wanted(q) /\ Fruitless(q)' = Fruitless(q)
    BY <1>0 DEF Changes, Wanted, Fruitless, Found
  <2>2. Wanted(q) \in Ids \cup Names
    BY <2>1 DEF Wanted, Names, KnowsItsRow, Changes
  <2> QED
    BY <1>0, <2>1, <2>2 DEF WritersHold
<1>5. AnsweredIsOver'
  BY <1>0 DEF AnsweredIsOver, CommandsTypeOK
<1>6. CopyIsAccounted'
  <2> SUFFICES ASSUME NEW q \in Requests, stage'[q] \in {"flush", "commit"}, rows[loaded[q]] # Nobody
               PROVE  Accounted(q)'
    BY DEF CopyIsAccounted
  <2>1. q # r /\ stage[q] \in {"flush", "commit"} /\ loaded[q] \in Ids
    BY <1>0 DEF KnowsItsRow
  <2> QED
    BY <1>0, <1>1, <2>1 DEF CopyIsAccounted, Accounted
<1>7. NoChangeIsLost'
  BY <1>1 DEF NoChangeIsLost, Found
<1> QED
  BY <1>2, <1>3, <1>4, <1>5, <1>6, <1>7

(* A request that flushes and holds what it has changed.                   *)
LEMMA FlushedHolds ==
    ASSUME CommandsInv, NEW r \in Requests, FlushNothing(r) \/ (Flush(r) /\ ~Fruitless(r))
    PROVE  CommandsParts'
<1> USE CommandsAssumption DEF CommandsInv, CommandsParts
<1>0. /\ stage[r] = "flush" /\ stage' = [stage EXCEPT ![r] = "commit"]
      /\ UNCHANGED <<rows, loaded, copy, replied>>
      /\ \/ ~Changes(r) /\ writer' = writer
         \/ /\ Changes(r) /\ ~Fruitless(r) /\ writer[Wanted(r)] = Nobody
            /\ writer' = [writer EXCEPT ![Wanted(r)] = r]
  BY DEF FlushNothing, Flush
<1>1. \A i \in Ids, op \in {"edit", "perms", "delete"} : Answered(op, i)' = Answered(op, i)
  BY <1>0 DEF Answered
<1>2. KnowsItsRow'
  BY <1>0 DEF KnowsItsRow, CommandsTypeOK
<1>3. RowsAreMade'
  BY <1>0 DEF RowsAreMade, CommandsTypeOK
<1>4. WritersHold'
  <2> SUFFICES ASSUME NEW q \in Requests, stage'[q] = "commit", Changes(q)'
               PROVE  writer'[Wanted(q)'] = q /\ ~Fruitless(q)'
    BY DEF WritersHold
  <2>1. Changes(q) /\ Wanted(q)' = Wanted(q) /\ Fruitless(q)' = Fruitless(q)
    BY <1>0 DEF Changes, Wanted, Fruitless, Found
  <2>2. Wanted(q) \in Ids \cup Names
    BY <1>0, <2>1 DEF Wanted, Names, KnowsItsRow, Changes, CommandsTypeOK
  <2>3. CASE q = r
    BY <1>0, <2>1, <2>2, <2>3 DEF CommandsTypeOK
  <2>4. CASE q # r
    <3>1. stage[q] = "commit" /\ writer[Wanted(q)] = q /\ ~Fruitless(q) /\ q # Nobody
      BY <1>0, <2>1, <2>4 DEF WritersHold, CommandsTypeOK
    <3> QED
      BY <1>0, <2>1, <2>2, <3>1 DEF CommandsTypeOK
  <2> QED
    BY <2>3, <2>4
<1>5. AnsweredIsOver'
  BY <1>0 DEF AnsweredIsOver, CommandsTypeOK
<1>6. CopyIsAccounted'
  <2> SUFFICES ASSUME NEW q \in Requests, stage'[q] \in {"flush", "commit"}, rows[loaded[q]] # Nobody
               PROVE  Accounted(q)'
    BY <1>0 DEF CopyIsAccounted
  <2>1. stage[q] \in {"flush", "commit"} /\ loaded[q] \in Ids
    BY <1>0 DEF CommandsTypeOK, KnowsItsRow
  <2> QED
    BY <1>0, <1>1, <2>1 DEF CopyIsAccounted, Accounted
<1>7. NoChangeIsLost'
  BY <1>0, <1>1 DEF NoChangeIsLost, Found
<1> QED
  BY <1>2, <1>3, <1>4, <1>5, <1>6, <1>7

(* A request that has found what it is about.                              *)
LEMMA LookedUp ==
    ASSUME CommandsInv, CommandsTypeOK', NEW r \in Requests, LookUp(r)
    PROVE  CommandsParts'
<1> USE CommandsAssumption DEF CommandsInv, CommandsParts
<1>0. /\ stage[r] = "new" /\ stage' = [stage EXCEPT ![r] = "flush"]
      /\ UNCHANGED <<rows, writer, replied>>
      /\ r \notin replied
  BY DEF LookUp, AnsweredIsOver
<1>1. PICK i \in Ids : /\ loaded' = [loaded EXCEPT ![r] = i]
                       /\ copy' = [copy EXCEPT ![r] = rows[i]]
                       /\ IF Op[r] = "add" THEN i = r ELSE rows[i] # Nobody
  <2>1. CASE Op[r] = "add"
    BY <2>1 DEF LookUp, Ids
  <2>2. CASE Op[r] # "add"
    <3>1. (CHOOSE i \in Found(Name[r]) : TRUE) \in Found(Name[r])
      BY <2>2 DEF LookUp, MayChange
    <3> QED
      BY <2>2, <3>1 DEF LookUp, Found
  <2> QED
    BY <2>1, <2>2
<1>2. \A k \in Ids, op \in {"edit", "perms", "delete"} : Answered(op, k)' = Answered(op, k)
  BY <1>0, <1>1 DEF Answered, CommandsTypeOK
<1>3. /\ \A q \in Requests \ {r} : loaded'[q] = loaded[q] /\ copy'[q] = copy[q] /\ stage'[q] = stage[q]
      /\ loaded'[r] = i /\ copy'[r] = rows[i] /\ stage'[r] = "flush"
  BY <1>0, <1>1 DEF CommandsTypeOK
<1>4. KnowsItsRow'
  <2>1. Op[r] # "use"
    BY DEF LookUp
  <2>2. ASSUME NEW q \in Requests
        PROVE  /\ Op[q] = "use" => stage'[q] \in {"new", "over"}
               /\ stage'[q] \in {"flush", "commit"} =>
                   /\ loaded'[q] \in Ids
                   /\ Op[q] = "add" => loaded'[q] = q
                   /\ Op[q] \in {"edit", "perms"} => copy'[q] # Nobody
    <3>1. CASE q = r
      BY <1>1, <1>3, <2>1, <3>1
    <3>2. CASE q # r
      BY <1>3, <3>2 DEF KnowsItsRow
    <3> QED
      BY <3>1, <3>2
  <2> QED
    BY <2>2 DEF KnowsItsRow
<1>5. RowsAreMade'
  <2>1. \A k \in Requests : stage[k] = "over" => stage'[k] = "over"
    BY <1>0, <1>3
  <2>2. \A k \in Ids : k \in Requests /\ k # Nobody
    BY DEF Ids
  <2> QED
    BY <1>0, <1>1, <1>3, <2>1, <2>2 DEF RowsAreMade, CommandsTypeOK
<1>6. WritersHold'
  <2> SUFFICES ASSUME NEW q \in Requests, stage'[q] = "commit", Changes(q)'
               PROVE  writer'[Wanted(q)'] = q /\ ~Fruitless(q)'
    BY DEF WritersHold
  <2>1. q # r
    BY <1>3
  <2> QED
    BY <1>0, <1>3, <2>1 DEF WritersHold, Changes, Wanted, Fruitless, Found
<1>7. AnsweredIsOver'
  BY <1>0 DEF AnsweredIsOver, CommandsTypeOK
<1>8. CopyIsAccounted'
  <2> SUFFICES ASSUME NEW q \in Requests, stage'[q] \in {"flush", "commit"}, rows[loaded'[q]] # Nobody
               PROVE  Accounted(q)'
    BY <1>0 DEF CopyIsAccounted
  <2>1. CASE q = r
    BY <1>0, <1>1, <1>3, <2>1 DEF Accounted
  <2>2. CASE q # r
    <3>1. stage[q] \in {"flush", "commit"} /\ loaded[q] \in Ids
      BY <1>3, <2>2 DEF KnowsItsRow
    <3> QED
      BY <1>0, <1>2, <1>3, <2>2, <3>1 DEF CopyIsAccounted, Accounted
  <2> QED
    BY <2>1, <2>2
<1>9. NoChangeIsLost'
  BY <1>0, <1>2 DEF NoChangeIsLost, Found
<1> QED
  BY <1>4, <1>5, <1>6, <1>7, <1>8, <1>9

-----------------------------------------------------------------------------
(* What a commit makes of the rows: nothing, or the change of the one row  *)
(* that the request is about.                                              *)
LEMMA Commits ==
    ASSUME CommandsInv, NEW r \in Requests, Accept(r)
    PROVE  /\ loaded[r] \in Ids
           /\ \A i \in Ids \ {loaded[r]} : rows'[i] = rows[i]
           /\ ~Changes(r) => rows' = rows
           /\ Op[r] = "add" => /\ loaded[r] = r /\ rows[r] = Nobody /\ Found(Name[r]) = {}
                               /\ rows'[r] = [name |-> Name[r], text |-> Text[r], role |-> MinRole[r]]
           /\ Op[r] = "delete" => rows'[loaded[r]] = Nobody
           /\ Op[r] \in {"edit", "perms"} /\ rows'[loaded[r]] # Nobody => rows[loaded[r]] # Nobody
           /\ Op[r] \in {"edit", "perms"} /\ Changes(r) => rows[loaded[r]] \in Row
           /\ Op[r] = "edit" /\ Changes(r) => rows'[loaded[r]] = [rows[loaded[r]] EXCEPT !.text = Text[r]]
           /\ Op[r] = "perms" /\ Changes(r) => rows'[loaded[r]] = [rows[loaded[r]] EXCEPT !.role = MinRole[r]]
<1> USE CommandsAssumption DEF CommandsInv
<1>1. stage[r] = "commit" /\ loaded[r] \in Ids /\ Op[r] # "use"
  BY DEF Accept, KnowsItsRow
<1>2. Changes(r) => rows' = [rows EXCEPT ![loaded[r]] = Changed(r, rows[loaded[r]])]
  BY DEF Accept
<1>3. ~Changes(r) => rows' = rows
  BY DEF Accept
<1>4. Changes(r) => ~Fruitless(r)
  BY <1>1 DEF WritersHold
<1>5. Op[r] = "add" => loaded[r] = r /\ rows[r] = Nobody
  BY <1>1 DEF KnowsItsRow, RowsAreMade
<1>6. Op[r] \in {"add", "delete"} => Changes(r)
  BY DEF Changes
<1>7. Op[r] \in {"edit", "perms"} /\ Changes(r) => rows[loaded[r]] \in Row
  BY <1>1, <1>4 DEF Fruitless, CommandsTypeOK
<1> QED
  BY <1>1, <1>2, <1>3, <1>4, <1>5, <1>6, <1>7 DEF Changed, Fruitless, CommandsTypeOK

(* A request that commits: its own change is in the row it made or copied, *)
(* and no other request has made or changed that row in the meantime,      *)
(* since it held the row.                                                  *)
LEMMA Accepted ==
    ASSUME CommandsInv, NEW r \in Requests, Accept(r)
    PROVE  CommandsParts'
<1> USE CommandsAssumption DEF CommandsInv, CommandsParts
<1>0. /\ stage'[r] = "over" /\ stage[r] = "commit"
      /\ \A q \in Requests : stage'[q] \in {stage[q], "over"}
      /\ \A q \in Requests \ {r} : stage'[q] = stage[q] /\ copy'[q] = copy[q]
      /\ \A q \in Requests \ {r}, k \in Ids \cup Names : writer[k] = q => writer'[k] = q
      /\ loaded' = loaded /\ replied' = replied \cup {r}
  BY EndsAlone DEF Accept
<1> DEFINE i == loaded[r]
           After(n) == {j \in Ids : rows'[j] # Nobody /\ rows'[j].name = n}
<1>1. /\ i \in Ids
      /\ \A k \in Ids \ {i} : rows'[k] = rows[k]
      /\ ~Changes(r) => rows' = rows
      /\ Op[r] = "add" => /\ i = r /\ rows[r] = Nobody /\ Found(Name[r]) = {}
                          /\ rows'[r] = [name |-> Name[r], text |-> Text[r], role |-> MinRole[r]]
      /\ Op[r] = "delete" => rows'[i] = Nobody
      /\ Op[r] \in {"edit", "perms"} /\ rows'[i] # Nobody => rows[i] # Nobody
      /\ Op[r] \in {"edit", "perms"} /\ Changes(r) => rows[i] \in Row
      /\ Op[r] = "edit" /\ Changes(r) => rows'[i] = [rows[i] EXCEPT !.text = Text[r]]
      /\ Op[r] = "perms" /\ Changes(r) => rows'[i] = [rows[i] EXCEPT !.role = MinRole[r]]
  BY Commits
<1>2. Op[r] \in {"add", "delete", "edit", "perms"}
  BY <1>0 DEF KnowsItsRow
<1>3. \A q \in Requests \ {r} : Op[r] = "add" => loaded[q] # i
  <2>1. Op[r] = "add" => i = r /\ stage[i] # "over" /\ i # Nobody
    BY <1>0, <1>1
  <2> QED
    BY <2>1 DEF RowsAreMade
<1>4. /\ Op[r] = "edit" /\ rows'[i] # Nobody =>
           rows[i] # Nobody /\ rows'[i].name = rows[i].name /\ rows'[i].role = rows[i].role
      /\ Op[r] = "edit" /\ Changes(r) => rows'[i].text = Text[r]
      /\ Op[r] = "perms" /\ rows'[i] # Nobody =>
           rows[i] # Nobody /\ rows'[i].name = rows[i].name /\ rows'[i].text = rows[i].text
      /\ Op[r] = "perms" /\ Changes(r) => rows'[i].role = MinRole[r]
  BY <1>1 DEF Row
<1>5. \A q \in Requests \ {r} :
         stage[q] = "commit" /\ Changes(q) /\ Changes(r) => Wanted(q) # Wanted(r)
  BY <1>0 DEF WritersHold
<1>6. \A k \in Ids, op \in {"edit", "perms", "delete"} :
         Answered(op, k)' = IF k = i /\ Op[r] = op THEN Answered(op, k) \cup {r} ELSE Answered(op, k)
  BY <1>0 DEF Answered
<1>7. KnowsItsRow'
  BY <1>0 DEF KnowsItsRow
<1>8. RowsAreMade'
  <2>1. \A k \in Ids : k \in Requests
    BY DEF Ids
  <2>2. \A k \in Ids : rows'[k] # Nobody => stage'[k] = "over"
    BY <1>0, <1>1, <1>2, <1>4, <2>1 DEF RowsAreMade
  <2>3. \A q \in Requests : loaded'[q] # Nobody /\ loaded'[q] # q => stage'[loaded'[q]] = "over"
    BY <1>0, <2>1 DEF RowsAreMade, CommandsTypeOK
  <2> QED
    BY <2>2, <2>3 DEF RowsAreMade
<1>9. WritersHold'
  <2> SUFFICES ASSUME NEW q \in Requests, stage'[q] = "commit", Changes(q)'
               PROVE  writer'[Wanted(q)'] = q /\ ~Fruitless(q)'
    BY DEF WritersHold
  <2>1. q # r /\ stage[q] = "commit" /\ Changes(q) /\ Wanted(q)' = Wanted(q)
    BY <1>0 DEF Changes, Wanted
  <2>2. Wanted(q) \in Ids \cup Names /\ writer[Wanted(q)] = q /\ ~Fruitless(q)
    BY <2>1 DEF Wanted, Names, KnowsItsRow, Changes, WritersHold
  <2>3. Changes(r) => Wanted(q) # Wanted(r)
    BY <1>5, <2>1
  <2>4. Op[q] = "add" => Found(Name[q])' = {}
    <3> SUFFICES ASSUME Op[q] = "add", NEW k \in Ids, rows'[k] # Nobody, rows'[k].name = Name[q]
                 PROVE  FALSE
      BY DEF Found
    <3>1. Found(Name[q]) = {}
      BY <2>2 DEF Fruitless
    <3>2. k = i
      BY <1>1, <3>1 DEF Found
    <3>3. Op[r] # "add"
      BY <1>1, <2>3, <3>2 DEF Changes, Wanted
    <3> QED
      BY <1>1, <1>2, <1>4, <3>1, <3>2, <3>3 DEF Found
  <2>5. Op[q] \in {"edit", "perms"} => rows'[loaded[q]] # Nobody
    <3> SUFFICES ASSUME Op[q] \in {"edit", "perms"} PROVE rows'[loaded[q]] # Nobody
      OBVIOUS
    <3>1. rows[loaded[q]] # Nobody /\ loaded[q] \in Ids
      BY <2>1, <2>2 DEF Fruitless, KnowsItsRow
    <3>2. loaded[q] = i => Op[r] # "add" /\ ~Changes(r)
      BY <1>3, <2>1, <2>3 DEF Wanted
    <3> QED
      BY <1>1, <3>1, <3>2
  <2> QED
    BY <1>0, <2>1, <2>2, <2>4, <2>5 DEF Fruitless
<1>10. AnsweredIsOver'
  BY <1>0 DEF AnsweredIsOver, CommandsTypeOK
<1>11. CopyIsAccounted'
  <2> SUFFICES ASSUME NEW q \in Requests, stage'[q] \in {"flush", "commit"}, rows'[loaded'[q]] # Nobody
               PROVE  Accounted(q)'
    BY DEF CopyIsAccounted
  <2>1. q # r /\ stage[q] \in {"flush", "commit"} /\ loaded[q] \in Ids
    BY <1>0 DEF KnowsItsRow
  <2>2. CASE loaded[q] # i \/ ~Changes(r)
    <3>1. rows'[loaded[q]] = rows[loaded[q]]
      BY <1>1, <2>1, <2>2
    <3> QED
      BY <1>0, <1>6, <2>1, <3>1 DEF CopyIsAccounted, Accounted
  <2>3. CASE loaded[q] = i /\ Changes(r)
    <3>1. Op[r] \in {"edit", "perms"}
      BY <1>0, <1>1, <1>2, <1>3, <2>1, <2>3
    <3>2. rows[i] # Nobody /\ Accounted(q)
      BY <1>0, <1>4, <2>1, <2>3, <3>1 DEF CopyIsAccounted
    <3>3. CASE Op[r] = "edit"
      BY <1>0, <1>4, <1>6, <2>1, <2>3, <3>2, <3>3 DEF Accounted
    <3>4. CASE Op[r] = "perms"
      BY <1>0, <1>4, <1>6, <2>1, <2>3, <3>2, <3>4 DEF Accounted
    <3> QED
      BY <3>1, <3>3, <3>4
  <2> QED
    BY <2>2, <2>3
<1>12. NoChangeIsLost'
  <2> SUFFICES ASSUME NEW k \in Ids, rows'[k] # Nobody
               PROVE  /\ Answered("delete", k)' = {}
                      /\ Answered("edit", k)' # {} => \E q \in Answered("edit", k)' : rows'[k].text = Text[q]
                      /\ Answered("perms", k)' # {} => \E q \in Answered("perms", k)' : rows'[k].role = MinRole[q]
                      /\ After(rows'[k].name) = {k}
    BY DEF NoChangeIsLost, Found
  <2>1. CASE k # i
    <3>1. rows'[k] = rows[k]
      BY <1>1, <2>1
    <3>2. After(rows'[k].name) = {k}
      <4> SUFFICES ASSUME NEW l \in Ids, rows'[l] # Nobody, rows'[l].name = rows[k].name, l # k
                   PROVE  FALSE
        BY <3>1 DEF Found
      <4>1. Found(rows[k].name) = {k}
        BY <3>1 DEF NoChangeIsLost
      <4>2. l = i
        BY <1>1, <4>1 DEF Found
      <4>3. Op[r] # "add"
        BY <1>1, <4>1, <4>2
      <4> QED
        BY <1>1, <1>2, <1>4, <4>1, <4>2, <4>3 DEF Found
    <3> QED
      BY <1>6, <2>1, <3>1, <3>2 DEF NoChangeIsLost
  <2>2. CASE k = i /\ Op[r] = "add"
    <3>1. \A op \in {"edit", "perms", "delete"} : Answered(op, i) = {}
      BY <1>3, <2>2 DEF Answered, CommandsTypeOK
    <3>2. After(Name[r]) = {i}
      BY <1>1, <2>2 DEF Found
    <3> QED
      BY <1>1, <1>6, <2>2, <3>1, <3>2
  <2>3. CASE k = i /\ Op[r] \in {"edit", "perms"}
    <3>1. rows[i] # Nobody /\ rows'[i].name = rows[i].name
      BY <1>4, <2>3
    <3>2. After(rows'[i].name) = {i}
      BY <1>1, <2>3, <3>1 DEF Found, NoChangeIsLost
    <3>3. Answered("delete", i)' = {}
      <4>1. Answered("delete", i) = {}
        BY <1>1, <3>1 DEF NoChangeIsLost
      <4>2. Answered("delete", i)' = Answered("delete", i)
        BY <1>0, <2>3 DEF Answered
      <4> QED
        BY <4>1, <4>2
    <3>4. Accounted(r) /\ r \in Answered(Op[r], i)'
      BY <1>0, <1>1, <3>1 DEF CopyIsAccounted, Answered
    <3>5. CASE Changes(r)
      BY <1>1, <1>4, <1>6, <2>3, <3>1, <3>2, <3>3, <3>4, <3>5 DEF NoChangeIsLost
    <3>6. CASE ~Changes(r)
      <4>1. rows' = rows
        BY <1>1, <3>6
      <4>2. /\ Op[r] = "edit" => copy[r].text = Text[r]
            /\ Op[r] = "perms" => copy[r].role = MinRole[r]
        BY <3>6 DEF Changes
      <4>3. \A op \in {"edit", "perms"} : Answered(op, i) \subseteq Answered(op, i)'
        BY <1>0 DEF Answered
      <4>4. Op[r] = "edit" => \E q \in Answered("edit", i)' : rows'[i].text = Text[q]
        BY <3>4, <4>1, <4>2, <4>3 DEF Accounted
      <4>5. Op[r] = "perms" => \E q \in Answered("perms", i)' : rows'[i].role = MinRole[q]
        BY <3>4, <4>1, <4>2, <4>3 DEF Accounted
      <4> QED
        <5>1. Op[r] = "edit" => Answered("perms", i)' = Answered("perms", i)
          BY <1>0 DEF Answered
        <5>2. Op[r] = "perms" => Answered("edit", i)' = Answered("edit", i)
          BY <1>0 DEF Answered
        <5>3. Answered("edit", i) # {} => \E q \in Answered("edit", i) : rows[i].text = Text[q]
          BY <1>1, <3>1 DEF NoChangeIsLost
        <5>4. Answered("perms", i) # {} => \E q \in Answered("perms", i) : rows[i].role = MinRole[q]
          BY <1>1, <3>1 DEF NoChangeIsLost
        <5> QED
          BY <1>0, <2>3, <3>2, <3>3, <4>1, <4>4, <4>5, <5>1, <5>2, <5>3, <5>4
    <3> QED
      BY <3>5, <3>6
  <2> QED
    BY <1>1, <1>2, <2>1, <2>2, <2>3
<1> QED
  BY <1>7, <1>8, <1>9, <1>10, <1>11, <1>12

(* Theorem: a change of a command that was accepted is there until a later *)
(* one was accepted, for any requests, names and texts, however their      *)
(* transactions overlap.                                                   *)
THEOREM ChangesStand == CommandsSpec => []NoChangeIsLost
<1>1. CommandsInit /\ stage = [r \in Requests |-> "new"] => CommandsInv
  BY CommandsStart
<1>2. CommandsInv /\ [CommandNext]_commandVars => CommandsInv'
  <2> SUFFICES ASSUME CommandsInv, [CommandNext]_commandVars PROVE CommandsTypeOK' /\ CommandsParts'
    BY DEF CommandsInv, CommandsParts
  <2>1. CommandsTypeOK'
    BY CommandsTypeStep
  <2>2. ASSUME NEW r \in Requests, TurnAway(r) \/ Break(r) \/ Use(r) PROVE CommandsParts'
    BY <2>2, FruitlessEnd DEF TurnAway, Break, Use
  <2>3. ASSUME NEW r \in Requests, LookUp(r) PROVE CommandsParts'
    BY <2>1, <2>3, LookedUp
  <2>4. ASSUME NEW r \in Requests, Flush(r) \/ FlushNothing(r) PROVE CommandsParts'
    BY <2>4, FlushedHolds, FruitlessEnd DEF Flush
  <2>5. ASSUME NEW r \in Requests, Accept(r) PROVE CommandsParts'
    BY <2>5, Accepted
  <2>6. CASE CooldownEnds \/ UNCHANGED commandVars
    <3>1. UNCHANGED <<rows, writer, stage, loaded, copy, replied>>
      BY <2>6 DEF CooldownEnds, commandVars
    <3>2. KnowsItsRow' /\ RowsAreMade' /\ AnsweredIsOver' /\ NoChangeIsLost'
      BY <3>1 DEF CommandsInv, KnowsItsRow, RowsAreMade, AnsweredIsOver, NoChangeIsLost, Answered, Found
    <3>3. WritersHold'
      BY <3>1 DEF CommandsInv, WritersHold, Fruitless, Changes, Wanted, Found
    <3>4. CopyIsAccounted'
      BY <3>1 DEF CommandsInv, CopyIsAccounted, Accounted, Answered
    <3> QED
      BY <2>1, <3>2, <3>3, <3>4 DEF CommandsParts
  <2> QED
    BY <2>1, <2>2, <2>3, <2>4, <2>5, <2>6 DEF CommandNext
<1>3. CommandsInv => NoChangeIsLost
  BY DEF CommandsInv
<1> QED
  BY <1>1, <1>2, <1>3, PTL DEF CommandsSpec
=============================================================================
