-------------------------- MODULE Messages_proofs ---------------------------
(***************************************************************************)
(* Theorems about messages on their way: Chat, for any processes,          *)
(* handlers, readers and size of the queue, and LiveUpdates, for any       *)
(* clients, events and sizes of the buffers.                               *)
(***************************************************************************)
EXTENDS Chat, LiveUpdates, SequenceTheorems, TLAPS

-----------------------------------------------------------------------------
(* Chat.  Where one process has handlers, a message has one way to them: a *)
(* consumer that will dispatch it or publish it to them, an event on the   *)
(* wire, or a task.                                                        *)
OneHandler == \A p, q \in Handlers : p = q

Holds(p, m) ==
    /\ hand[p].message = m
    /\ \/ hand[p].stage = "new" /\ (shared \/ p \in Handlers)
       \/ hand[p].stage = "publish" /\ shared /\ p \notin Handlers
Sent(p, m) == p \notin Handlers /\ \E h \in Handlers : <<p, m>> \in wire[h]
Tasked(m) == \E h \in Handlers : <<h, m>> \in tasks

UnderWay(m) == Tasked(m) \/ \E p \in Procs : Holds(p, m) \/ Sent(p, m)

(* How often it may have been handled before, and who has it on record.    *)
Before == IF shared THEN 0 ELSE restarts
Record(m) == \A p \in (IF shared THEN Procs ELSE Handlers) : m \in known[p]

OneWay(m) ==
    /\ \A p, q \in Procs :
        /\ Holds(p, m) => ~Sent(q, m) /\ ~Tasked(m)
        /\ Sent(p, m) => ~Tasked(m)
        /\ p # q => ~(Holds(p, m) /\ Holds(q, m)) /\ ~(Sent(p, m) /\ Sent(q, m))
    /\ UnderWay(m) => Record(m) /\ handled[m] <= Before
    /\ handled[m] > Before => Record(m)
    /\ handled[m] <= Before + 1

TasksOfHandlers == tasks \subseteq Handlers \X Messages

OneRecord == shared => \A p, q \in Procs : known[p] = known[q]
NoWire == ~shared => \A p \in Procs : wire[p] = {}

OneWayInv == ChatTypeOK /\ TasksOfHandlers /\ OneRecord /\ NoWire /\ \A m \in Messages : OneWay(m)

(* Where every reader has its home in a process with handlers, only such   *)
(* processes have messages at all.                                         *)
HomesHandle == \A r \in Readers : Home[r] \in Handlers

OnlyHandlersConsume == \A p \in Procs \ Handlers : queue[p] = <<>> /\ hand[p] = Idle

MarkedInv == ChatTypeOK /\ OnlyHandlersConsume /\ MarkedIsHandled


-----------------------------------------------------------------------------
(* What a page adds to a queue is messages, no more than there is room for.*)
LEMMA PutFits ==
    ASSUME NEW q \in Seq(Messages), Len(q) <= QueueMax, NEW from \in 0..Last, NEW to \in 0..Last
    PROVE  /\ Put(q, Numbers(from, to)) \in Seq(Messages)
           /\ Len(Put(q, Numbers(from, to))) <= QueueMax
<1> DEFINE s == Numbers(from, to)
           room == QueueMax - Len(q)
           n == IF Len(s) < room THEN Len(s) ELSE room
<1>1. Last \in Nat /\ QueueMax \in Nat
  BY ChatAssumption
<1>2. CASE from > to
  <2>1. s = <<>>
    BY <1>1, <1>2 DEF Numbers
  <2> QED
    BY <1>1, <2>1 DEF Put
<1>3. CASE from <= to
  <2>1. s \in Seq(Messages) /\ Len(s) = to - from
    BY <1>1, <1>3 DEF Numbers, Messages
  <2>2. n \in 0..Len(s) /\ n <= room /\ room \in Nat
    BY <1>1, <2>1
  <2>3. SubSeq(s, 1, n) \in Seq(Messages) /\ Len(SubSeq(s, 1, n)) = n
    BY <2>1, <2>2
  <2> QED
    BY <1>1, <2>2, <2>3 DEF Put
<1> QED
  BY <1>1, <1>2, <1>3

(* A consumer goes on with the message it has.                             *)
LEMMA Goes ==
    ASSUME ChatTypeOK, NEW p \in Procs, hand[p].stage # "idle", NEW s \in {"new", "publish"},
           hand' = [hand EXCEPT ![p].stage = s]
    PROVE  /\ hand[p].message \in Messages
           /\ hand' = [hand EXCEPT ![p] = [stage |-> s, message |-> hand[p].message]]
           /\ hand' \in [Procs -> {Idle} \cup [stage : {"dedupe", "new", "publish"}, message : Messages]]
<1>1. hand \in [Procs -> {Idle} \cup [stage : {"dedupe", "new", "publish"}, message : Messages]]
  BY DEF ChatTypeOK
<1>2. hand[p] \in [stage : {"dedupe", "new", "publish"}, message : Messages]
  BY <1>1 DEF Idle
<1>3. [hand[p] EXCEPT !.stage = s] = [stage |-> s, message |-> hand[p].message]
  BY <1>2
<1>4. hand' = [hand EXCEPT ![p] = [hand[p] EXCEPT !.stage = s]]
  OBVIOUS
<1>5. [stage |-> s, message |-> hand[p].message] \in [stage : {"dedupe", "new", "publish"}, message : Messages]
  BY <1>2
<1> HIDE DEF Idle
<1>6. hand[p].message \in Messages
  BY <1>2
<1>7. hand' = [hand EXCEPT ![p] = [stage |-> s, message |-> hand[p].message]]
  BY <1>3, <1>4
<1>8. hand' \in [Procs -> {Idle} \cup [stage : {"dedupe", "new", "publish"}, message : Messages]]
  BY <1>1, <1>5, <1>7
<1> QED
  BY <1>6, <1>7, <1>8

(* The type of the state is kept by every step.                            *)
LEMMA ChatTypeStep ==
    ASSUME ChatTypeOK, [ChatNext]_vars
    PROVE  ChatTypeOK'
<1> USE ChatAssumption DEF ChatTypeOK, Idle
<1>1. CASE Post
  BY <1>1 DEF Post
<1>2. ASSUME NEW r \in Readers, Page(r) PROVE ChatTypeOK'
  <2>1. PICK start \in 0..Last :
          /\ token' = [token EXCEPT ![r] = posted]
          /\ queue' = [queue EXCEPT ![Home[r]] = Put(@, Numbers(start, posted))]
          /\ UNCHANGED <<shared, posted, hand, known, tuned, wire, tasks, handled, lost, restarts>>
    <3>1. 0..posted \subseteq 0..Last /\ (token[r] # None => token[r] \in 0..Last)
      OBVIOUS
    <3> QED
      BY <1>2, <3>1 DEF Page
  <2>2. Home[r] \in Procs /\ posted \in 0..Last
    OBVIOUS
  <2>3. /\ Put(queue[Home[r]], Numbers(start, posted)) \in Seq(Messages)
        /\ Len(Put(queue[Home[r]], Numbers(start, posted))) <= QueueMax
    BY <2>2, PutFits
  <2> QED
    BY <2>1, <2>2, <2>3
<1>3. ASSUME NEW r \in Readers, Rejoin(r) PROVE ChatTypeOK'
  BY <1>3 DEF Rejoin
<1>4. ASSUME NEW p \in Procs, Get(p) PROVE ChatTypeOK'
  <2>1. /\ Head(queue[p]) \in Messages /\ Tail(queue[p]) \in Seq(Messages)
        /\ Len(Tail(queue[p])) <= QueueMax
    BY <1>4 DEF Get
  <2> QED
    BY <1>4, <2>1 DEF Get
<1>5. ASSUME NEW p \in Procs, Duplicate(p) PROVE ChatTypeOK'
  BY <1>5 DEF Duplicate
<1>6. ASSUME NEW p \in Procs, Mark(p) PROVE ChatTypeOK'
  <2>1. /\ hand[p].message \in Messages
        /\ hand' = [hand EXCEPT ![p] = [stage |-> "new", message |-> hand[p].message]]
    BY <1>6, Goes DEF Mark
  <2>3. hand' \in [Procs -> {Idle} \cup [stage : {"dedupe", "new", "publish"}, message : Messages]]
    BY <1>6, Goes DEF Mark
  <2>2. known' \in [Procs -> SUBSET Messages]
    BY <1>6, <2>1 DEF Mark, Remember
  <2> QED
    BY <1>6, <2>2, <2>3 DEF Mark
<1>7. ASSUME NEW p \in Procs, DispatchLocal(p) PROVE ChatTypeOK'
  <2>1. /\ hand[p].message \in Messages
        /\ hand' = [hand EXCEPT ![p] = [stage |-> "publish", message |-> hand[p].message]]
    BY <1>7, Goes DEF DispatchLocal
  <2>3. hand' \in [Procs -> {Idle} \cup [stage : {"dedupe", "new", "publish"}, message : Messages]]
    BY <1>7, Goes DEF DispatchLocal
  <2>2. tasks' \in SUBSET (Procs \X Messages)
    BY <1>7, <2>1 DEF DispatchLocal, Dispatch
  <2> QED
    BY <1>7, <2>2, <2>3 DEF DispatchLocal
<1>8. ASSUME NEW p \in Procs, Publish(p) PROVE ChatTypeOK'
  <2>1. hand[p].message \in Messages
    BY <1>8 DEF Publish
  <2>2. wire' \in [Procs -> SUBSET (Procs \X Messages)]
    BY <1>8, <2>1 DEF Publish
  <2> QED
    BY <1>8, <2>2 DEF Publish
<1>9. ASSUME NEW p \in Procs, ConsumerFails(p) PROVE ChatTypeOK'
  <2>1. hand[p].message \in Messages
    BY <1>9 DEF ConsumerFails
  <2> QED
    BY <1>9, <2>1 DEF ConsumerFails
<1>10. ASSUME NEW p \in Procs, Tune(p) PROVE ChatTypeOK'
  BY <1>10 DEF Tune
<1>11. ASSUME NEW p \in Procs, LoseConnection(p) PROVE ChatTypeOK'
  BY <1>11 DEF LoseConnection
<1>12. ASSUME NEW p \in Procs, Receive(p) PROVE ChatTypeOK'
  BY <1>12 DEF Receive, Dispatch
<1>13. ASSUME NEW p \in Procs, Handle(p) PROVE ChatTypeOK'
  BY <1>13 DEF Handle
<1>14. ASSUME NEW p \in Procs, Restart(p) PROVE ChatTypeOK'
  BY <1>14 DEF Restart
<1>15. CASE UNCHANGED vars
  BY <1>15 DEF vars
<1> QED
  BY <1>1, <1>2, <1>3, <1>4, <1>5, <1>6, <1>7, <1>8, <1>9, <1>10, <1>11, <1>12, <1>13, <1>14, <1>15
  DEF ChatNext, Consume

-----------------------------------------------------------------------------
(* At first no message is on record anywhere.                              *)
LEMMA MarkedInit == ASSUME ChatInit PROVE MarkedInv
<1> USE ChatAssumption DEF ChatInit
<1>1. ChatTypeOK
  BY DEF ChatTypeOK
<1>2. OnlyHandlersConsume /\ MarkedIsHandled
  BY DEF OnlyHandlersConsume, MarkedIsHandled
<1> QED
  BY <1>1, <1>2 DEF MarkedInv

(* A process without handlers is given no messages, if no reader has its   *)
(* home there.                                                             *)
LEMMA OnlyHandlersStep ==
    ASSUME HomesHandle, ChatTypeOK, OnlyHandlersConsume, [ChatNext]_vars
    PROVE  OnlyHandlersConsume'
<1> USE ChatAssumption DEF OnlyHandlersConsume, ChatTypeOK, HomesHandle
<1>1. CASE Post
  BY <1>1 DEF Post
<1>2. ASSUME NEW r \in Readers, Page(r) \/ Rejoin(r) PROVE OnlyHandlersConsume'
  BY <1>2 DEF Page, Rejoin
<1>3. ASSUME NEW p \in Procs, Consume(p) PROVE OnlyHandlersConsume'
  <2>1. p \in Handlers
    BY <1>3 DEF Consume, Get, Duplicate, Mark, DispatchLocal, Publish, ConsumerFails, Idle
  <2> QED
    BY <1>3, <2>1 DEF Consume, Get, Duplicate, Mark, DispatchLocal, Publish, ConsumerFails
<1>4. ASSUME NEW p \in Procs, Tune(p) \/ LoseConnection(p) \/ Receive(p) \/ Handle(p)
      PROVE  OnlyHandlersConsume'
  BY <1>4 DEF Tune, LoseConnection, Receive, Handle
<1>5. ASSUME NEW p \in Procs, Restart(p) PROVE OnlyHandlersConsume'
  BY <1>5 DEF Restart
<1>6. CASE UNCHANGED vars
  BY <1>6 DEF vars
<1> QED
  BY <1>1, <1>2, <1>3, <1>4, <1>5, <1>6 DEF ChatNext

(* A message that is on record with a process that handles it stays on its *)
(* way, from hand to hand, until it is handled or lost.                    *)
LEMMA MarkedStep ==
    ASSUME MarkedInv, [ChatNext]_vars
    PROVE  MarkedIsHandled'
<1> USE ChatAssumption DEF MarkedInv, MarkedIsHandled, OnItsWay
<1> SUFFICES ASSUME NEW h \in Handlers, NEW m \in known'[h]
             PROVE  handled'[m] > 0 \/ m \in lost' \/ OnItsWay(m)'
  OBVIOUS
<1>1. CASE Post
  BY <1>1 DEF Post
<1>2. ASSUME NEW r \in Readers, Page(r) \/ Rejoin(r) PROVE handled'[m] > 0 \/ m \in lost' \/ OnItsWay(m)'
  BY <1>2 DEF Page, Rejoin
<1>3. ASSUME NEW p \in Procs, Get(p) \/ Duplicate(p) PROVE handled'[m] > 0 \/ m \in lost' \/ OnItsWay(m)'
  <2>1. \A q \in Procs : hand[q] = [stage |-> "new", message |-> m] => hand'[q] = hand[q]
    BY <1>3 DEF Get, Duplicate, Idle, ChatTypeOK
  <2> QED
    BY <1>3, <2>1 DEF Get, Duplicate
<1>4. ASSUME NEW p \in Procs, Mark(p) PROVE handled'[m] > 0 \/ m \in lost' \/ OnItsWay(m)'
  <2>1. hand' = [hand EXCEPT ![p] = [stage |-> "new", message |-> hand[p].message]]
    BY <1>4, Goes DEF Mark
  <2>2. CASE m \in known[h]
    <3>1. \A q \in Procs : hand[q] = [stage |-> "new", message |-> m] => hand'[q] = hand[q]
      BY <1>4, <2>1 DEF Mark, ChatTypeOK
    <3> QED
      BY <1>4, <2>2, <3>1 DEF Mark
  <2>3. CASE m \notin known[h]
    <3>1. m = hand[p].message
      BY <1>4, <2>3 DEF Mark, Remember
    <3>2. hand'[p] = [stage |-> "new", message |-> m]
      BY <2>1, <3>1 DEF ChatTypeOK
    <3> QED
      BY <3>2
  <2> QED
    BY <2>2, <2>3
<1>5. ASSUME NEW p \in Procs, DispatchLocal(p) PROVE handled'[m] > 0 \/ m \in lost' \/ OnItsWay(m)'
  <2>1. p \in Handlers
    BY <1>5 DEF DispatchLocal, OnlyHandlersConsume, Idle
  <2>2. tasks' = tasks \cup {<<p, hand[p].message>>}
    BY <1>5, <2>1 DEF DispatchLocal, Dispatch
  <2>3. m \in known[h] /\ (handled[m] > 0 \/ m \in lost \/ OnItsWay(m))
    BY <1>5 DEF DispatchLocal
  <2>4. \A q \in Procs : hand[q] = [stage |-> "new", message |-> m] =>
           hand'[q] = hand[q] \/ (q = p /\ hand[p].message = m)
    BY <1>5 DEF DispatchLocal, ChatTypeOK
  <2> QED
    BY <1>5, <2>1, <2>2, <2>3, <2>4 DEF DispatchLocal
<1>6. ASSUME NEW p \in Procs, Publish(p) PROVE handled'[m] > 0 \/ m \in lost' \/ OnItsWay(m)'
  <2>1. \A q \in Procs : hand[q] = [stage |-> "new", message |-> m] => hand'[q] = hand[q]
    BY <1>6 DEF Publish, ChatTypeOK
  <2> QED
    BY <1>6, <2>1 DEF Publish
<1>7. ASSUME NEW p \in Procs, ConsumerFails(p) PROVE handled'[m] > 0 \/ m \in lost' \/ OnItsWay(m)'
  <2>1. \A q \in Procs : hand[q] = [stage |-> "new", message |-> m] =>
           hand'[q] = hand[q] \/ m \in lost'
    BY <1>7 DEF ConsumerFails, ChatTypeOK
  <2> QED
    BY <1>7, <2>1 DEF ConsumerFails
<1>8. ASSUME NEW p \in Procs, Tune(p) \/ LoseConnection(p) \/ Receive(p)
      PROVE  handled'[m] > 0 \/ m \in lost' \/ OnItsWay(m)'
  BY <1>8 DEF Tune, LoseConnection, Receive, Dispatch
<1>9. ASSUME NEW p \in Procs, Handle(p) PROVE handled'[m] > 0 \/ m \in lost' \/ OnItsWay(m)'
  <2>1. PICK n \in Messages : /\ tasks' = tasks \ {<<p, n>>}
                              /\ handled' = [handled EXCEPT ![n] = @ + 1]
                              /\ UNCHANGED <<hand, known, lost>>
    BY <1>9 DEF Handle
  <2>2. m \in Messages
    BY <2>1 DEF ChatTypeOK
  <2>3. handled[m] \in Nat /\ handled[n] \in Nat
    BY <2>2 DEF ChatTypeOK
  <2>4. CASE m = n
    BY <2>1, <2>2, <2>3, <2>4 DEF ChatTypeOK
  <2>5. CASE m # n
    <3>1. handled'[m] = handled[m] /\ \A q \in Handlers : <<q, m>> \in tasks => <<q, m>> \in tasks'
      BY <2>1, <2>2, <2>5 DEF ChatTypeOK
    <3> QED
      BY <2>1, <3>1
  <2> QED
    BY <2>4, <2>5
<1>10. ASSUME NEW p \in Procs, Restart(p) PROVE handled'[m] > 0 \/ m \in lost' \/ OnItsWay(m)'
  <2>1. m \in known[h] /\ m \in Messages
    BY <1>10 DEF Restart, ChatTypeOK
  <2>2. \A q \in Procs : hand[q] = [stage |-> "new", message |-> m] =>
           hand'[q] = hand[q] \/ m \in lost'
    BY <1>10, <2>1 DEF Restart, ChatTypeOK
  <2>3. \A q \in Handlers : <<q, m>> \in tasks => <<q, m>> \in tasks' \/ m \in lost'
    BY <1>10, <2>1 DEF Restart
  <2> QED
    BY <1>10, <2>1, <2>2, <2>3 DEF Restart
<1>11. CASE UNCHANGED vars
  BY <1>11 DEF vars
<1> QED
  BY <1>1, <1>2, <1>3, <1>4, <1>5, <1>6, <1>7, <1>8, <1>9, <1>10, <1>11 DEF ChatNext, Consume

(* Theorem: where every stream is read by a process with handlers, a       *)
(* message is not put on record and then forgotten, for any processes,     *)
(* readers, sizes of the queue and number of restarts.                     *)
THEOREM MarkedMessagesAreHandled ==
    ASSUME HomesHandle
    PROVE  ChatSpec => []MarkedIsHandled
<1>1. ChatInit => MarkedInv
  BY MarkedInit
<1>2. MarkedInv /\ [ChatNext]_vars => MarkedInv'
  BY ChatTypeStep, OnlyHandlersStep, MarkedStep DEF MarkedInv
<1>3. MarkedInv => MarkedIsHandled
  BY DEF MarkedInv
<1> QED
  BY <1>1, <1>2, <1>3, PTL DEF ChatSpec

-----------------------------------------------------------------------------
(* At first nothing is under way.                                          *)
LEMMA OneWayInit == ASSUME ChatInit PROVE OneWayInv
<1> USE ChatAssumption DEF ChatInit
<1>1. ChatTypeOK
  BY DEF ChatTypeOK
<1>2. OneRecord /\ NoWire /\ TasksOfHandlers
  BY DEF OneRecord, NoWire, TasksOfHandlers
<1>3. ASSUME NEW m \in Messages PROVE OneWay(m)
  <2>1. ~UnderWay(m)
    BY <1>1 DEF UnderWay, Holds, Sent, Tasked, Idle
  <2>2. handled[m] = 0 /\ Before = 0
    BY DEF Before
  <2> QED
    BY <2>1, <2>2 DEF OneWay, UnderWay
<1> QED
  BY <1>1, <1>2, <1>3 DEF OneWayInv

(* A step that opens no way to the handlers and runs none of them changes  *)
(* nothing about a message.                                                *)
LEMMA NoNewWay ==
    ASSUME NEW m \in Messages, OneWay(m), Before' = Before, handled'[m] = handled[m],
           Record(m) => Record(m)', Tasked(m)' => Tasked(m),
           \A p \in Procs : (Holds(p, m)' => Holds(p, m)) /\ (Sent(p, m)' => Sent(p, m))
    PROVE  OneWay(m)'
BY DEF OneWay, UnderWay

(* The processes that share Redis share the record, the others have no     *)
(* wire.                                                                   *)
LEMMA RecordStep ==
    ASSUME OneWayInv, [ChatNext]_vars
    PROVE  OneRecord' /\ NoWire' /\ TasksOfHandlers'
<1> USE ChatAssumption DEF OneWayInv, OneRecord, NoWire, TasksOfHandlers, ChatTypeOK
<1>1. CASE Post \/ \E r \in Readers : Page(r) \/ Rejoin(r)
  BY <1>1 DEF Post, Page, Rejoin
<1>2. ASSUME NEW p \in Procs, Consume(p) PROVE OneRecord' /\ NoWire' /\ TasksOfHandlers'
  <2>1. CASE Get(p) \/ Duplicate(p) \/ ConsumerFails(p) \/ Publish(p)
    BY <2>1 DEF Get, Duplicate, Publish, ConsumerFails
  <2>2. CASE Mark(p)
    BY <2>2 DEF Mark, Remember
  <2>3. CASE DispatchLocal(p)
    <3>1. hand[p].message \in Messages
      BY <2>3, Goes DEF DispatchLocal
    <3> QED
      BY <2>3, <3>1 DEF DispatchLocal, Dispatch
  <2> QED
    BY <1>2, <2>1, <2>2, <2>3 DEF Consume
<1>3. ASSUME NEW p \in Procs, Tune(p) \/ LoseConnection(p) \/ Receive(p) \/ Handle(p)
      PROVE  OneRecord' /\ NoWire' /\ TasksOfHandlers'
  <2>1. CASE Tune(p) \/ LoseConnection(p) \/ Handle(p)
    <3>1. UNCHANGED <<shared, known>> /\ tasks' \subseteq tasks
      BY <2>1 DEF Tune, LoseConnection, Handle
    <3>2. wire' = wire \/ wire' = [wire EXCEPT ![p] = {}]
      BY <2>1 DEF Tune, LoseConnection, Handle
    <3> QED
      BY <3>1, <3>2
  <2>2. CASE Receive(p)
    <3>1. \A e \in wire[p] : e[2] \in Messages
      OBVIOUS
    <3>2. TasksOfHandlers'
      BY <2>2, <3>1 DEF Receive, Dispatch
    <3> QED
      <4>1. wire[p] # {} /\ UNCHANGED <<shared, known>>
        BY <2>2 DEF Receive
      <4> QED
        BY <3>2, <4>1
  <2> QED
    BY <1>3, <2>1, <2>2
<1>4. ASSUME NEW p \in Procs, Restart(p) PROVE OneRecord' /\ NoWire' /\ TasksOfHandlers'
  BY <1>4 DEF Restart
<1>5. CASE UNCHANGED vars
  BY <1>5 DEF vars
<1> QED
  BY <1>1, <1>2, <1>3, <1>4, <1>5 DEF ChatNext

(* Every step moves a message along the one way it is on. A new way is     *)
(* opened by who puts it on record, which nobody had done.                 *)
LEMMA OneWayStep ==
    ASSUME OneHandler, OneWayInv, [ChatNext]_vars, NEW m \in Messages
    PROVE  OneWay(m)'
<1> USE ChatAssumption DEF OneWayInv
<1>0. OneWay(m) /\ handled[m] \in Nat /\ Before \in Nat /\ ChatTypeOK
  BY DEF ChatTypeOK, Before
<1>1. CASE Post \/ \E r \in Readers : Page(r) \/ Rejoin(r)
  BY <1>0, <1>1, NoNewWay DEF Post, Page, Rejoin, Before, Record, Tasked, Holds, Sent
<1>2. ASSUME NEW p \in Procs, Get(p) \/ Duplicate(p) \/ ConsumerFails(p) PROVE OneWay(m)'
  <2>1. \A q \in Procs : Holds(q, m)' => Holds(q, m)
    BY <1>0, <1>2 DEF Get, Duplicate, ConsumerFails, Holds, Idle, ChatTypeOK
  <2> QED
    <3>1. UNCHANGED <<shared, known, wire, tasks, handled, restarts>>
      BY <1>2 DEF Get, Duplicate, ConsumerFails
    <3> QED
      BY <1>0, <2>1, <3>1, NoNewWay DEF Before, Record, Tasked, Sent
<1>3. ASSUME NEW p \in Procs, Mark(p) PROVE OneWay(m)'
  <2> DEFINE n == hand[p].message
  <2>1. /\ n \in Messages /\ n \notin known[p] /\ hand[p].stage = "dedupe"
        /\ hand' = [hand EXCEPT ![p] = [stage |-> "new", message |-> n]]
    BY <1>0, <1>3, Goes DEF Mark
  <2>2. /\ Before' = Before /\ handled' = handled
        /\ Tasked(m)' <=> Tasked(m)
        /\ \A q \in Procs : Sent(q, m)' <=> Sent(q, m)
    BY <1>3 DEF Mark, Before, Tasked, Sent
  <2>3. \A q \in Procs \ {p} : Holds(q, m)' <=> Holds(q, m)
    BY <1>0, <1>3, <2>1 DEF Mark, Holds, ChatTypeOK
  <2>4. Holds(p, m)' <=> n = m /\ (shared \/ p \in Handlers)
    BY <1>0, <1>3, <2>1 DEF Mark, Holds, ChatTypeOK
  <2>5. Record(m) => Record(m)'
    BY <1>0, <1>3 DEF Mark, Remember, Record, ChatTypeOK
  <2>6. CASE n = m /\ (shared \/ p \in Handlers)
    <3>1. ~Record(m)
      BY <2>1, <2>6 DEF Record
    <3>2. Record(m)'
      BY <1>0, <1>3, <2>1, <2>6 DEF Mark, Remember, Record, ChatTypeOK, OneHandler
    <3>3. ~UnderWay(m) /\ handled[m] <= Before
      BY <1>0, <3>1 DEF OneWay
    <3> QED
      BY <1>0, <2>2, <2>3, <2>4, <3>2, <3>3 DEF OneWay, UnderWay
  <2>7. CASE ~(n = m /\ (shared \/ p \in Handlers))
    BY <1>0, <2>2, <2>3, <2>4, <2>5, <2>7, NoNewWay
  <2> QED
    BY <2>6, <2>7
<1>4. ASSUME NEW p \in Procs, DispatchLocal(p) PROVE OneWay(m)'
  <2> DEFINE n == hand[p].message
  <2>1. /\ n \in Messages /\ hand[p].stage = "new"
        /\ hand' = [hand EXCEPT ![p] = [stage |-> "publish", message |-> n]]
    BY <1>0, <1>4, Goes DEF DispatchLocal
  <2>2. /\ Before' = Before /\ handled' = handled /\ Record(m)' = Record(m)
        /\ \A q \in Procs : Sent(q, m)' <=> Sent(q, m)
    BY <1>4 DEF DispatchLocal, Before, Record, Sent
  <2>3. \A q \in Procs \ {p} : Holds(q, m)' <=> Holds(q, m)
    BY <1>0, <1>4, <2>1 DEF DispatchLocal, Holds, ChatTypeOK
  <2>4. Holds(p, m)' <=> n = m /\ shared /\ p \notin Handlers
    BY <1>0, <1>4, <2>1 DEF DispatchLocal, Holds, ChatTypeOK
  <2>5. Holds(p, m) <=> n = m /\ (shared \/ p \in Handlers)
    BY <2>1 DEF Holds
  <2>6. Tasked(m)' <=> Tasked(m) \/ (n = m /\ p \in Handlers)
    BY <1>4 DEF DispatchLocal, Dispatch, Tasked
  <2>7. CASE n = m /\ p \in Handlers
    BY <1>0, <2>2, <2>3, <2>4, <2>5, <2>6, <2>7 DEF OneWay, UnderWay
  <2>8. CASE ~(n = m /\ p \in Handlers)
    BY <1>0, <2>2, <2>3, <2>4, <2>5, <2>6, <2>8, NoNewWay
  <2> QED
    BY <2>7, <2>8
<1>5. ASSUME NEW p \in Procs, Publish(p) PROVE OneWay(m)'
  <2> DEFINE n == hand[p].message
  <2>1. /\ Before' = Before /\ handled' = handled /\ Record(m)' = Record(m)
        /\ Tasked(m)' <=> Tasked(m)
    BY <1>5 DEF Publish, Before, Record, Tasked
  <2>2. \A q \in Procs \ {p} : (Holds(q, m)' <=> Holds(q, m)) /\ (Sent(q, m)' <=> Sent(q, m))
    BY <1>0, <1>5 DEF Publish, Holds, Sent, ChatTypeOK
  <2>3. ~Holds(p, m)'
    BY <1>0, <1>5 DEF Publish, Holds, Idle, ChatTypeOK
  <2>4. Sent(p, m)' => Sent(p, m) \/ Holds(p, m)
    BY <1>0, <1>5 DEF Publish, Holds, Sent, ChatTypeOK
  <2> QED
    BY <1>0, <2>1, <2>2, <2>3, <2>4 DEF OneWay, UnderWay
<1>6. ASSUME NEW p \in Procs, Tune(p) \/ LoseConnection(p) PROVE OneWay(m)'
  <2>1. \A q \in Procs : Sent(q, m)' => Sent(q, m)
    BY <1>0, <1>6 DEF Tune, LoseConnection, Sent, ChatTypeOK
  <2> QED
    BY <1>0, <1>6, <2>1, NoNewWay DEF Tune, LoseConnection, Before, Record, Tasked, Holds
<1>7. ASSUME NEW p \in Procs, Receive(p) PROVE OneWay(m)'
  <2>1. PICK e \in wire[p] :
          /\ wire' = [wire EXCEPT ![p] = @ \ {e}]
          /\ IF e[1] = p THEN UNCHANGED tasks ELSE Dispatch(p, e[2])
          /\ UNCHANGED <<shared, posted, token, queue, hand, known, tuned, handled, lost, restarts>>
    BY <1>7 DEF Receive
  <2>2. e[1] \in Procs /\ e[2] \in Messages /\ e = <<e[1], e[2]>>
    BY <1>0 DEF ChatTypeOK
  <2>3. /\ Before' = Before /\ handled' = handled /\ Record(m)' = Record(m)
        /\ \A q \in Procs : Holds(q, m)' <=> Holds(q, m)
    BY <2>1 DEF Before, Record, Holds
  <2>4. \A q \in Procs : Sent(q, m)' => Sent(q, m)
    BY <1>0, <2>1 DEF Sent, ChatTypeOK
  <2>5. CASE e[2] = m /\ e[1] # p /\ p \in Handlers
    <3>1. Sent(e[1], m) /\ ~Sent(e[1], m)'
      BY ZenonT(60), <1>0, <2>1, <2>2, <2>5 DEF Sent, OneHandler, ChatTypeOK
    <3> QED
      BY <1>0, <2>2, <2>3, <2>4, <3>1 DEF OneWay, UnderWay
  <2>6. CASE ~(e[2] = m /\ e[1] # p /\ p \in Handlers)
    <3>1. Tasked(m)' => Tasked(m)
      BY <2>1, <2>6 DEF Tasked, Dispatch
    <3> QED
      BY <1>0, <2>3, <2>4, <3>1, NoNewWay
  <2> QED
    BY <2>5, <2>6
<1>8. ASSUME NEW p \in Procs, Handle(p) PROVE OneWay(m)'
  <2>1. PICK n \in Messages : /\ <<p, n>> \in tasks
                              /\ tasks' = tasks \ {<<p, n>>}
                              /\ handled' = [handled EXCEPT ![n] = @ + 1]
                              /\ UNCHANGED <<shared, hand, known, wire, restarts>>
    BY <1>8 DEF Handle
  <2>2. /\ Before' = Before /\ Record(m)' = Record(m)
        /\ \A q \in Procs : (Holds(q, m)' <=> Holds(q, m)) /\ (Sent(q, m)' <=> Sent(q, m))
    BY <2>1 DEF Before, Record, Holds, Sent
  <2>3. Tasked(m)' => Tasked(m)
    BY <2>1 DEF Tasked
  <2>4. CASE n = m
    <3>1. p \in Handlers /\ Tasked(m) /\ ~Tasked(m)'
      BY <1>0, <2>1, <2>4 DEF Tasked, OneHandler, TasksOfHandlers
    <3>2. handled'[m] = handled[m] + 1
      BY <1>0, <2>1, <2>4 DEF ChatTypeOK
    <3> QED
      BY <1>0, <2>2, <3>1, <3>2 DEF OneWay, UnderWay
  <2>5. CASE n # m
    BY <1>0, <2>1, <2>2, <2>3, <2>5, NoNewWay DEF ChatTypeOK
  <2> QED
    BY <2>4, <2>5
<1>9. ASSUME NEW p \in Procs, Restart(p) PROVE OneWay(m)'
  <2>1. /\ Tasked(m)' => Tasked(m)
        /\ \A q \in Procs : (Holds(q, m)' => Holds(q, m)) /\ (Sent(q, m)' => Sent(q, m))
        /\ handled' = handled
    BY <1>0, <1>9 DEF Restart, Tasked, Holds, Sent, Idle, ChatTypeOK
  <2>2. CASE shared \/ p \notin Handlers
    <3>1. Record(m) => Record(m)'
      BY <1>0, <1>9, <2>2 DEF Restart, Record, ChatTypeOK
    <3>2. Before' >= Before /\ Before' \in Nat
      BY <1>0, <1>9 DEF Restart, Before, ChatTypeOK
    <3> QED
      BY <1>0, <2>1, <3>1, <3>2 DEF OneWay, UnderWay
  <2>3. CASE ~shared /\ p \in Handlers
    <3>1. \A q \in Handlers : q = p
      BY <2>3 DEF OneHandler
    <3>2. ~Tasked(m)'
      BY <1>9, <3>1 DEF Restart, Tasked
    <3>3. \A q \in Procs : ~Holds(q, m)' /\ ~Sent(q, m)'
      BY <1>0, <1>9, <2>3, <3>1 DEF Restart, Holds, Sent, Idle, ChatTypeOK
    <3>4. Before' = Before + 1
      BY <1>9, <2>3 DEF Restart, Before
    <3> QED
      BY <1>0, <2>1, <3>2, <3>3, <3>4 DEF OneWay, UnderWay
  <2> QED
    BY <2>2, <2>3
<1>10. CASE UNCHANGED vars
  BY <1>0, <1>10, NoNewWay DEF vars, Before, Record, Tasked, Holds, Sent
<1> QED
  BY <1>1, <1>2, <1>3, <1>4, <1>5, <1>6, <1>7, <1>8, <1>9, <1>10 DEF ChatNext, Consume

(* Theorem: with the handlers in one process no message is handled twice,  *)
(* whoever reads it and however often it is read, but for a process        *)
(* without Redis, which forgets when it restarts.                          *)
THEOREM MessagesAreHandledOnce ==
    ASSUME OneHandler
    PROVE  ChatSpec => []HandledOnce
<1>1. ChatInit => OneWayInv
  BY OneWayInit
<1>2. OneWayInv /\ [ChatNext]_vars => OneWayInv'
  BY ChatTypeStep, RecordStep, OneWayStep DEF OneWayInv
<1>3. OneWayInv => HandledOnce
  BY ChatAssumption DEF OneWayInv, OneWay, HandledOnce, Before, ChatTypeOK
<1> QED
  BY <1>1, <1>2, <1>3, PTL DEF ChatSpec

-----------------------------------------------------------------------------
(* Where the one process with handlers is home to every reader, a message  *)
(* is under way only there, and the events on the wire come from there.    *)
WireFromHandlers == \A p \in Procs : wire[p] \subseteq Handlers \X Messages

DeliveryInv == OneWayInv /\ OnlyHandlersConsume /\ WireFromHandlers

(* What comes over the wire was published by a process with handlers.      *)
LEMMA WireStep ==
    ASSUME ChatTypeOK, OnlyHandlersConsume, WireFromHandlers, [ChatNext]_vars
    PROVE  WireFromHandlers'
<1> USE ChatAssumption DEF ChatTypeOK, WireFromHandlers
<1>1. CASE Post \/ \E r \in Readers : Page(r) \/ Rejoin(r)
  BY <1>1 DEF Post, Page, Rejoin
<1>2. ASSUME NEW p \in Procs, Publish(p) PROVE WireFromHandlers'
  <2>1. p \in Handlers /\ hand[p].message \in Messages
    BY <1>2 DEF Publish, OnlyHandlersConsume, Idle
  <2> QED
    BY <1>2, <2>1 DEF Publish
<1>3. ASSUME NEW p \in Procs, Consume(p), ~Publish(p) PROVE WireFromHandlers'
  BY <1>3 DEF Consume, Get, Duplicate, Mark, DispatchLocal, ConsumerFails
<1>4. ASSUME NEW p \in Procs, Tune(p) \/ LoseConnection(p) \/ Receive(p) \/ Handle(p) \/ Restart(p)
      PROVE  WireFromHandlers'
  <2>1. \A q \in Procs : wire'[q] \subseteq wire[q]
    <3>1. CASE Receive(p)
      BY <3>1 DEF Receive
    <3>2. CASE Tune(p) \/ LoseConnection(p) \/ Handle(p) \/ Restart(p)
      BY <3>2 DEF Tune, LoseConnection, Handle, Restart
    <3> QED
      BY <1>4, <3>1, <3>2
  <2> QED
    BY <2>1
<1>5. CASE UNCHANGED vars
  BY <1>5 DEF vars
<1> QED
  BY <1>1, <1>2, <1>3, <1>4, <1>5 DEF ChatNext

(* A message is under way in the hand of a handler's consumer or in one of *)
(* its tasks, not in both, and is then on record and not yet handled.      *)
LEMMA UnderWayIsKnown ==
    ASSUME OneHandler, DeliveryInv, NEW m \in Messages, OnItsWay(m)
    PROVE  /\ \A p \in Handlers : m \in known[p]
           /\ \A p, q \in Procs : hand[p] = [stage |-> "new", message |-> m] => <<q, m>> \notin tasks
           /\ \A p \in Procs : hand[p] = [stage |-> "new", message |-> m] => p \in Handlers
<1>1. OneWay(m) /\ ChatTypeOK /\ TasksOfHandlers /\ OnlyHandlersConsume
  BY DEF DeliveryInv, OneWayInv
<1>2. ASSUME NEW p \in Procs, hand[p] = [stage |-> "new", message |-> m]
      PROVE  p \in Handlers /\ Holds(p, m)
  BY <1>1, <1>2 DEF OnlyHandlersConsume, Idle, Holds
<1>3. ASSUME NEW q \in Procs, <<q, m>> \in tasks PROVE Tasked(m)
  BY <1>1, <1>3 DEF TasksOfHandlers, Tasked
<1>4. UnderWay(m)
  BY <1>2 DEF OnItsWay, UnderWay, Tasked
<1>5. \A p \in Handlers : m \in known[p]
  BY <1>1, <1>4, ChatAssumption DEF OneWay, Record
<1> QED
  BY <1>1, <1>2, <1>3, <1>5 DEF OneWay

(* A step that leaves every message where it was is none for those who     *)
(* wrote them.                                                             *)
LEMMA NothingForTheWriters ==
    ASSUME UNCHANGED <<shared, handled, lost>>,
           \A m \in Messages : OnItsWay(m)' <=> OnItsWay(m),
           \A p \in Handlers : known'[p] = known[p]
    PROVE  UNCHANGED Way!deliveryVars
<1>1. \A m \in Messages : StatusOf(m)' = StatusOf(m)
  BY DEF StatusOf
<1>2. Status' = Status
  BY <1>1 DEF Status
<1> QED
  BY <1>2 DEF Way!deliveryVars

(* The writers notice no more than the message that a step is about.       *)
LEMMA OneMoves ==
    ASSUME NEW n \in Messages, NEW s, StatusOf(n)' = s,
           \A m \in Messages \ {n} :
               /\ OnItsWay(m)' <=> OnItsWay(m)
               /\ \A h \in Handlers : m \in known'[h] <=> m \in known[h]
    PROVE  /\ Status' = [Status EXCEPT ![n] = s]
           /\ Status' = [m \in Messages |-> IF m \in {n} THEN s ELSE Status[m]]
<1>1. \A m \in Messages \ {n} : StatusOf(m)' = StatusOf(m)
  BY DEF StatusOf
<1>2. /\ Status' = [m \in Messages |-> StatusOf(m)'] /\ Status = [m \in Messages |-> StatusOf(m)]
  BY DEF Status
<1> QED
  BY <1>1, <1>2

(* Every step is one of Delivery's, or none.  The record and the way of a  *)
(* message change together: it is on record when it sets out, and remains  *)
(* so when it is handled or cut off.                                       *)
LEMMA ChatStepDelivers ==
    ASSUME OneHandler, DeliveryInv, [ChatNext]_vars
    PROVE  [Way!DeliveryNext]_(Way!deliveryVars)
<1> USE ChatAssumption
<1>0. /\ ChatTypeOK /\ TasksOfHandlers /\ OnlyHandlersConsume /\ WireFromHandlers
      /\ hand \in [Procs -> {Idle} \cup [stage : {"dedupe", "new", "publish"}, message : Messages]]
      /\ Handlers \subseteq Procs
  BY DEF DeliveryInv, OneWayInv, ChatTypeOK
<1>1. CASE Post \/ \E r \in Readers : Page(r) \/ Rejoin(r)
  BY <1>1, NothingForTheWriters DEF Post, Page, Rejoin, OnItsWay
<1>2. ASSUME NEW p \in Procs, Get(p) \/ Duplicate(p) \/ Publish(p) PROVE UNCHANGED Way!deliveryVars
  <2>1. \A q \in Procs, m \in Messages :
           hand'[q] = [stage |-> "new", message |-> m] <=> hand[q] = [stage |-> "new", message |-> m]
    BY <1>0, <1>2 DEF Get, Duplicate, Publish, Idle
  <2> QED
    BY <1>2, <2>1, NothingForTheWriters DEF Get, Duplicate, Publish, OnItsWay
<1>3. ASSUME NEW p \in Procs, Mark(p) PROVE Way!DeliveryNext
  <2>0. PICK n \in Messages : n = hand[p].message
    BY <1>0, <1>3, Goes DEF Mark
  <2>1. /\ n = hand[p].message /\ n \notin known[p]
        /\ hand' = [hand EXCEPT ![p] = [stage |-> "new", message |-> n]]
        /\ hand[p].stage = "dedupe"
        /\ UNCHANGED <<shared, tasks, handled, lost>>
    BY <1>0, <1>3, <2>0, Goes DEF Mark
  <2>2. p \in Handlers
    BY <1>0, <2>1 DEF OnlyHandlersConsume, Idle
  <2>3. ~OnItsWay(n)
    BY <2>1, <2>2, UnderWayIsKnown
  <2>4. Status[n] = "new"
    BY <2>1, <2>2, <2>3 DEF Status, StatusOf, OneHandler
  <2>5. OnItsWay(n)'
    BY <1>0, <2>1 DEF OnItsWay
  <2>6. ASSUME NEW m \in Messages \ {n} PROVE OnItsWay(m)' <=> OnItsWay(m)
    <3>1. \A q \in Procs : q # p => hand'[q] = hand[q]
      BY <1>0, <2>1
    <3>2. hand[p].message = n /\ hand'[p] = [stage |-> "new", message |-> n]
      BY <1>0, <2>1
    <3>3. hand[p] # [stage |-> "new", message |-> m] /\ hand'[p] # [stage |-> "new", message |-> m]
      <4>1. [stage |-> "new", message |-> n] # [stage |-> "new", message |-> m]
        BY <1>0
      <4>2. [stage |-> "new", message |-> m].message = m /\ m # n
        OBVIOUS
      <4> QED
        BY <3>2, <4>1, <4>2
    <3>4. \A q \in Procs :
           hand'[q] = [stage |-> "new", message |-> m] <=> hand[q] = [stage |-> "new", message |-> m]
      BY <3>1, <3>3
    <3> QED
      BY <2>1, <3>4 DEF OnItsWay
  <2>7. \A m \in Messages \ {n} : \A h \in Handlers : m \in known'[h] <=> m \in known[h]
    BY <1>0, <1>3, <2>0 DEF Mark, Remember
  <2>8. Status' = [Status EXCEPT ![n] = "underway"]
    <3>1. StatusOf(n)' = "underway"
      BY <2>5 DEF StatusOf
    <3> QED
      BY <2>1, <2>6, <2>7, <3>1, OneMoves
  <2>9. Way!Take(n)
    BY <2>1, <2>4, <2>8 DEF Way!Take
  <2> QED
    BY <2>1, <2>9 DEF Way!DeliveryNext
<1>4. ASSUME NEW p \in Procs, DispatchLocal(p) PROVE UNCHANGED Way!deliveryVars
  <2>0. PICK n \in Messages : n = hand[p].message
    BY <1>0, <1>4, Goes DEF DispatchLocal
  <2>1. /\ n = hand[p].message
        /\ hand' = [hand EXCEPT ![p] = [stage |-> "publish", message |-> n]]
        /\ hand[p].stage = "new"
        /\ UNCHANGED <<shared, known, handled, lost>>
    BY <1>0, <1>4, <2>0, Goes DEF DispatchLocal
  <2>2. p \in Handlers
    BY <1>0, <2>1 DEF OnlyHandlersConsume, Idle
  <2>3. tasks' = tasks \cup {<<p, n>>}
    BY <1>4, <2>1, <2>2 DEF DispatchLocal, Dispatch
  <2>4. hand[p] = [stage |-> "new", message |-> n]
    BY <1>0, <2>1 DEF Idle
  <2>5. OnItsWay(n) /\ OnItsWay(n)'
    BY <1>0, <2>2, <2>3, <2>4 DEF OnItsWay
  <2>6. ASSUME NEW m \in Messages \ {n} PROVE OnItsWay(m)' <=> OnItsWay(m)
    <3>1. \A q \in Procs :
             hand'[q] = [stage |-> "new", message |-> m] <=> hand[q] = [stage |-> "new", message |-> m]
      <4>1. \A q \in Procs : q # p => hand'[q] = hand[q]
        BY <1>0, <2>1
      <4>2. hand'[p].stage = "publish" /\ hand[p].message = n
        BY <1>0, <2>1
      <4> QED
        BY <2>4, <4>1, <4>2
    <3>2. \A h \in Handlers : <<h, m>> \in tasks' <=> <<h, m>> \in tasks
      BY <2>3
    <3> QED
      BY <3>1, <3>2 DEF OnItsWay
  <2> QED
    BY <2>1, <2>5, <2>6, NothingForTheWriters
<1>5. ASSUME NEW p \in Procs, ConsumerFails(p) PROVE [Way!DeliveryNext]_(Way!deliveryVars)
  <2>1. hand' = [hand EXCEPT ![p] = Idle] /\ UNCHANGED <<shared, known, tasks, handled>>
    BY <1>5 DEF ConsumerFails
  <2>2. CASE hand[p].stage # "new"
    <3>1. \A q \in Procs, m \in Messages :
             hand'[q] = [stage |-> "new", message |-> m] <=> hand[q] = [stage |-> "new", message |-> m]
      BY <1>0, <2>1, <2>2 DEF Idle
    <3> QED
      BY <1>5, <2>1, <2>2, <3>1, NothingForTheWriters DEF ConsumerFails, OnItsWay
  <2>3. CASE hand[p].stage = "new"
    <3>0. PICK n \in Messages : n = hand[p].message
      BY <1>0, <2>3 DEF Idle
    <3>1. hand[p] = [stage |-> "new", message |-> n] /\ lost' = lost \cup {n}
      BY <1>0, <1>5, <2>3, <3>0 DEF ConsumerFails, Idle
    <3>2. OnItsWay(n)
      BY <3>1 DEF OnItsWay
    <3>3. /\ p \in Handlers /\ \A h \in Handlers : n \in known[h] /\ <<h, n>> \notin tasks
      BY <1>0, <3>1, <3>2, UnderWayIsKnown
    <3>4. \A q \in Procs : q # p => hand[q] = Idle
      BY <1>0, <3>3 DEF OneHandler, OnlyHandlersConsume
    <3>5. ~OnItsWay(n)'
      <4>1. \A q \in Procs : hand'[q] = Idle
        BY <1>0, <2>1, <3>4
      <4>2. Idle # [stage |-> "new", message |-> n]
        BY DEF Idle
      <4> QED
        BY <2>1, <3>3, <4>1, <4>2 DEF OnItsWay
    <3>6. ASSUME NEW m \in Messages \ {n} PROVE OnItsWay(m)' <=> OnItsWay(m)
      <4>1. \A q \in Procs : q # p => hand'[q] = hand[q]
        BY <1>0, <2>1
      <4>2. hand[p].message = n /\ hand'[p] = Idle
        BY <1>0, <2>1, <3>1
      <4>3. hand[p] # [stage |-> "new", message |-> m] /\ hand'[p] # [stage |-> "new", message |-> m]
        <5>1. Idle # [stage |-> "new", message |-> m]
          BY <1>0 DEF Idle
        <5>2. [stage |-> "new", message |-> m].message = m /\ m # n
          OBVIOUS
        <5> QED
          BY <4>2, <5>1, <5>2
      <4>4. \A q \in Procs :
             hand'[q] = [stage |-> "new", message |-> m] <=> hand[q] = [stage |-> "new", message |-> m]
        BY <4>1, <4>3
      <4> QED
        BY <2>1, <4>4 DEF OnItsWay
    <3>7. Status[n] = "underway"
      BY <3>1, <3>2 DEF Status, StatusOf
    <3>8. Status' = [m \in Messages |-> IF m \in {n} THEN "over" ELSE Status[m]]
      <4>1. StatusOf(n)' = "over"
        BY <2>1, <3>3, <3>5 DEF StatusOf
      <4> QED
        BY <2>1, <3>1, <3>6, <4>1, OneMoves
    <3>9. Way!Lose({n})
      BY <2>1, <3>1, <3>7, <3>8 DEF Way!Lose, Way!UnderWay
    <3> QED
      BY <3>1, <3>9 DEF Way!DeliveryNext
  <2> QED
    BY <2>2, <2>3
<1>6. ASSUME NEW p \in Procs, Tune(p) \/ LoseConnection(p) PROVE UNCHANGED Way!deliveryVars
  BY <1>6, NothingForTheWriters DEF Tune, LoseConnection, OnItsWay
<1>7. ASSUME NEW p \in Procs, Receive(p) PROVE UNCHANGED Way!deliveryVars
  <2>1. tasks' = tasks /\ UNCHANGED <<shared, hand, known, handled, lost>>
    BY <1>0, <1>7 DEF Receive, Dispatch, WireFromHandlers, OneHandler
  <2> QED
    BY <2>1, NothingForTheWriters DEF OnItsWay
<1>8. ASSUME NEW p \in Procs, Handle(p) PROVE Way!DeliveryNext
  <2>1. PICK n \in Messages : /\ <<p, n>> \in tasks
                              /\ tasks' = tasks \ {<<p, n>>}
                              /\ handled' = [handled EXCEPT ![n] = @ + 1]
                              /\ UNCHANGED <<shared, hand, known, lost>>
    BY <1>8 DEF Handle
  <2>2. p \in Handlers /\ \A h \in Handlers : h = p
    BY <1>0, <2>1 DEF TasksOfHandlers, OneHandler
  <2>3. OnItsWay(n)
    BY <2>1, <2>2 DEF OnItsWay
  <2>4. /\ \A h \in Handlers : n \in known[h]
        /\ \A q \in Procs : hand[q] # [stage |-> "new", message |-> n]
    BY <2>1, <2>3, UnderWayIsKnown
  <2>5. ~OnItsWay(n)'
    BY <2>1, <2>2, <2>4 DEF OnItsWay
  <2>6. ASSUME NEW m \in Messages \ {n} PROVE OnItsWay(m)' <=> OnItsWay(m)
    <3>1. \A h \in Handlers : <<h, m>> \in tasks' <=> <<h, m>> \in tasks
      BY <2>1
    <3> QED
      BY <2>1, <3>1 DEF OnItsWay
  <2>7. Status[n] = "underway"
    BY <2>3 DEF Status, StatusOf
  <2>8. Status' = [Status EXCEPT ![n] = "over"]
    <3>1. StatusOf(n)' = "over"
      BY <2>1, <2>2, <2>4, <2>5 DEF StatusOf
    <3> QED
      BY <2>1, <2>6, <3>1, OneMoves
  <2>9. Way!Finish(n)
    BY <2>1, <2>7, <2>8 DEF Way!Finish
  <2> QED
    BY <2>9 DEF Way!DeliveryNext
<1>9. ASSUME NEW p \in Procs, Restart(p) PROVE [Way!DeliveryNext]_(Way!deliveryVars)
  <2>1. /\ hand' = [hand EXCEPT ![p] = Idle] /\ tasks' = {t \in tasks : t[1] # p}
        /\ known' = IF shared THEN known ELSE [known EXCEPT ![p] = {}]
        /\ lost' = lost \cup {m \in Messages : <<p, m>> \in tasks \/ hand[p] = [stage |-> "new", message |-> m]}
        /\ UNCHANGED <<shared, handled>>
    BY <1>9 DEF Restart
  <2>2. CASE p \notin Handlers
    <3>1. hand[p] = Idle /\ \A m \in Messages : <<p, m>> \notin tasks
      BY <1>0, <2>2 DEF OnlyHandlersConsume, TasksOfHandlers
    <3>2. hand' = hand /\ lost' = lost
      BY <1>0, <2>1, <3>1 DEF Idle
    <3>3. \A h \in Handlers, m \in Messages : <<h, m>> \in tasks' <=> <<h, m>> \in tasks
      BY <2>1, <2>2
    <3>4. \A h \in Handlers : known'[h] = known[h]
      BY <1>0, <2>1, <2>2
    <3> QED
      BY <2>1, <3>2, <3>3, <3>4, NothingForTheWriters DEF OnItsWay
  <2>3. CASE p \in Handlers
    <3> DEFINE S == {m \in Messages : <<p, m>> \in tasks \/ hand[p] = [stage |-> "new", message |-> m]}
    <3>1. \A h \in Handlers : h = p
      BY <2>3 DEF OneHandler
    <3>2. \A q \in Procs : q # p => hand[q] = Idle
      BY <1>0, <3>1 DEF OnlyHandlersConsume
    <3>3. \A m \in Messages : m \in S <=> OnItsWay(m)
      <4>1. \A m \in Messages : Idle # [stage |-> "new", message |-> m]
        BY DEF Idle
      <4> QED
        BY <1>0, <2>3, <3>1, <3>2, <4>1 DEF OnItsWay
    <3>4. \A m \in Messages : ~OnItsWay(m)'
      <4>1. \A q \in Procs : hand'[q] = Idle
        BY <1>0, <2>1, <3>2
      <4>2. \A m \in Messages : Idle # [stage |-> "new", message |-> m]
        BY DEF Idle
      <4>3. \A m \in Messages : <<p, m>> \notin tasks'
        BY <2>1
      <4> QED
        BY <3>1, <4>1, <4>2, <4>3 DEF OnItsWay
    <3>5. S = Way!UnderWay
      BY <3>3 DEF Way!UnderWay, Status, StatusOf
    <3>6. CASE shared
      <4>1. \A m \in S : \A h \in Handlers : m \in known'[h]
        BY <2>1, <3>3, <3>6, UnderWayIsKnown
      <4>2. \A m \in Messages \ S : StatusOf(m)' = StatusOf(m)
        BY <2>1, <3>3, <3>4, <3>6 DEF StatusOf
      <4>3. Status' = [m \in Messages |-> IF m \in S THEN "over" ELSE Status[m]]
        BY <2>3, <3>4, <4>1, <4>2 DEF Status, StatusOf
      <4> HIDE DEF S
      <4>4. S \in SUBSET Messages
        BY DEF S
      <4>5. Way!Lose(S)
        BY <2>1, <3>5, <4>3 DEF Way!Lose, S
      <4> QED
        BY <4>4, <4>5 DEF Way!DeliveryNext
    <3>7. CASE ~shared
      <4>1. \A h \in Handlers : known'[h] = {}
        BY <1>0, <2>1, <3>1, <3>7 DEF ChatTypeOK
      <4>2. Status' = [m \in Messages |-> "new"]
        BY <3>4, <4>1 DEF Status, StatusOf
      <4> HIDE DEF S
      <4>3. lost' = lost \cup S
        BY <2>1 DEF S
      <4> QED
        BY <2>1, <3>5, <3>7, <4>2, <4>3 DEF Way!Forget, Way!DeliveryNext
    <3> QED
      BY <3>6, <3>7
  <2> QED
    BY <2>2, <2>3
<1>10. CASE UNCHANGED vars
  BY <1>10, NothingForTheWriters DEF vars, OnItsWay
<1> QED
  BY <1>1, <1>2, <1>3, <1>4, <1>5, <1>6, <1>7, <1>8, <1>9, <1>10 DEF ChatNext, Consume

(* Theorem: where one process handles what it reads, the way of a message, *)
(* with its readers, its consumer, Redis, the listeners and the restarts,  *)
(* implements Delivery: a message is taken once, and is then handled, once,*)
(* or known to be lost.                                                    *)
THEOREM ChatDelivers ==
    ASSUME OneHandler, HomesHandle
    PROVE  ChatSpec => DeliversOnce
<1>1. ChatInit => DeliveryInv
  BY OneWayInit, MarkedInit DEF DeliveryInv, MarkedInv, ChatInit, WireFromHandlers
<1>2. DeliveryInv /\ [ChatNext]_vars => DeliveryInv'
  <2> SUFFICES ASSUME DeliveryInv, [ChatNext]_vars PROVE DeliveryInv'
    OBVIOUS
  <2>1. OneWayInv'
    BY ChatTypeStep, RecordStep, OneWayStep DEF OneWayInv, DeliveryInv
  <2>2. OnlyHandlersConsume' /\ WireFromHandlers'
    BY OnlyHandlersStep, WireStep DEF OneWayInv, DeliveryInv
  <2> QED
    BY <2>1, <2>2 DEF DeliveryInv
<1>3. ChatInit => Way!DeliveryInit
  <2> SUFFICES ASSUME ChatInit PROVE Way!DeliveryInit
    OBVIOUS
  <2>1. \A m \in Messages : StatusOf(m) = "new"
    BY ChatAssumption DEF ChatInit, StatusOf, OnItsWay, Idle
  <2> QED
    BY <2>1 DEF ChatInit, Way!DeliveryInit, Status
<1>4. DeliveryInv /\ [ChatNext]_vars => [Way!DeliveryNext]_(Way!deliveryVars)
  BY ChatStepDelivers
<1> QED
  BY <1>1, <1>2, <1>3, <1>4, PTL DEF ChatSpec, DeliversOnce, Way!DeliverySpec

-----------------------------------------------------------------------------
(* Live updates.                                                           *)

(* A buffer holds the latest events, each the next of the one before.      *)
UpToNow(s) == \A i \in 1..Len(s) : s[i] + Len(s) = emitted + i
QueueIsRecent(c) ==
    /\ UpToNow(feed[c])
    /\ c \notin registered => feed[c] = <<>>
    /\ visit[c] # "away" => c \in registered

(* A connection begins with the last event the client was sent, or with a  *)
(* greeting, which is none.                                                *)
NamesTheLast(c) ==
    /\ newest[c] \in {last[c], Greeting}
    /\ visit[c] = "greeted" => named[c] \in {last[c], Greeting}

(* What is replayed follows the last event that was sent; what is in the   *)
(* queue was replayed or comes after that event.                           *)
ReplayFollows(c) ==
    /\ visit[c] # "replaying" => missed[c] = <<>>
    /\ visit[c] \in {"away", "greeted"} => replayed[c] = {}
    /\ missed[c] # <<>> => last[c] # 0
    /\ \A i \in 1..Len(missed[c]) : missed[c][i] = last[c] + i
    /\ last[c] + Len(missed[c]) <= emitted
    /\ \A e \in replayed[c] : e <= last[c]
    /\ visit[c] # "away" => \A i \in 1..Len(feed[c]) : feed[c][i] \in replayed[c] \/ feed[c][i] > last[c]

(* Replay and queue meet or overlap.                                       *)
QueueReachesBack(c) ==
    visit[c] \in {"replaying", "live"} /\ c \notin lossy /\ last[c] # 0 =>
        emitted <= last[c] + Len(missed[c]) + Len(feed[c])

ClientInv(c) ==
    /\ QueueIsRecent(c)
    /\ NamesTheLast(c)
    /\ ReplayFollows(c)
    /\ QueueReachesBack(c)

FeedInv ==
    /\ LiveUpdatesTypeOK
    /\ UpToNow(replay)
    /\ \A c \in Clients : ClientInv(c)

-----------------------------------------------------------------------------
(* A buffer that takes the next event still holds the latest ones.         *)
LEMMA PushedIsRecent ==
    ASSUME NEW s \in Seq(1..Events), NEW max \in Nat \ {0}, Len(s) <= max, UpToNow(s),
           emitted \in 0..Events, emitted < Events
    PROVE  LET p == Push(s, emitted + 1, max) IN
           /\ p \in Seq(1..Events)
           /\ Len(p) = IF Len(s) < max THEN Len(s) + 1 ELSE Len(s)
           /\ \A i \in 1..Len(p) : p[i] + Len(p) = emitted + 1 + i
           /\ \A i \in 1..Len(p) : p[i] = emitted + 1 \/ \E k \in 1..Len(s) : p[i] = s[k]
<1> USE LiveUpdatesAssumption
<1>0. emitted + 1 \in 1..Events /\ Len(s) \in Nat
  OBVIOUS
<1>1. CASE Len(s) < max
  <2> DEFINE p == Append(s, emitted + 1)
  <2>1. Push(s, emitted + 1, max) = p
    BY <1>1 DEF Push
  <2>2. p \in Seq(1..Events) /\ Len(p) = Len(s) + 1
    BY <1>0
  <2>3. \A i \in 1..Len(s) : p[i] = s[i]
    OBVIOUS
  <2>4. p[Len(s) + 1] = emitted + 1
    OBVIOUS
  <2>5. \A i \in 1..Len(p) : i \in 1..Len(s) \/ i = Len(s) + 1
    BY <1>0, <2>2
  <2> HIDE DEF p
  <2>6. ASSUME NEW i \in 1..Len(p) PROVE p[i] + Len(p) = emitted + 1 + i
    <3>1. CASE i \in 1..Len(s)
      <4>1. s[i] \in 1..Events /\ s[i] + Len(s) = emitted + i
        BY <3>1 DEF UpToNow
      <4>2. \A a, n, m, k \in Nat : a + n = m + k => a + (n + 1) = m + 1 + k
        OBVIOUS
      <4>3. s[i] \in Nat /\ i \in Nat /\ emitted \in Nat
        BY <3>1, <4>1
      <4>4. s[i] + (Len(s) + 1) = emitted + 1 + i
        <5> DEFINE a == s[i]
                   n == Len(s)
        <5>1. a \in Nat /\ n \in Nat /\ a + n = emitted + i
          BY <1>0, <4>1, <4>3
        <5> HIDE DEF a, n
        <5>2. a + (n + 1) = emitted + 1 + i
          BY <4>2, <4>3, <5>1
        <5> QED
          BY <5>2 DEF a, n
      <4>5. p[i] = s[i] /\ Len(p) = Len(s) + 1
        BY <2>2, <2>3, <3>1
      <4> QED
        BY <4>4, <4>5
    <3>2. CASE i = Len(s) + 1
      BY <1>0, <2>2, <2>4, <3>2
    <3> QED
      BY <2>5, <3>1, <3>2
  <2> QED
    BY <1>1, <2>1, <2>2, <2>3, <2>4, <2>5, <2>6
<1>2. CASE ~(Len(s) < max)
  <2> DEFINE t == Tail(s)
             p == Append(t, emitted + 1)
  <2>1. Push(s, emitted + 1, max) = p
    BY <1>2 DEF Push
  <2>2. t \in Seq(1..Events) /\ Len(t) + 1 = Len(s) /\ Len(t) \in Nat
    BY <1>0, <1>2
  <2>3. \A i \in 1..Len(t) : t[i] = s[i + 1] /\ i + 1 \in 1..Len(s)
    BY <1>0, <1>2
  <2> HIDE DEF t
  <2>4. p \in Seq(1..Events) /\ Len(p) = Len(s)
    BY <1>0, <2>2
  <2>5. \A i \in 1..Len(t) : p[i] = t[i]
    BY <2>2
  <2>6. p[Len(s)] = emitted + 1
    BY <2>2
  <2>7. \A i \in 1..Len(p) : i \in 1..Len(t) \/ i = Len(s)
    BY <1>0, <2>2, <2>4
  <2> HIDE DEF p
  <2>8. \A i \in 1..Len(p) : p[i] + Len(p) = emitted + 1 + i
    <3>1. \A i \in 1..Len(t) : s[i + 1] + Len(s) = emitted + 1 + i
      BY <1>0, <2>2, <2>3 DEF UpToNow
    <3> QED
      BY <1>0, <2>2, <2>3, <2>4, <2>5, <2>6, <2>7, <3>1
  <2> QED
    BY ZenonT(60), <1>2, <2>1, <2>3, <2>4, <2>5, <2>6, <2>7, <2>8
<1> QED
  BY <1>1, <1>2

(* What follows the event a client names is all that has come since.       *)
LEMMA AllThatFollows ==
    ASSUME LiveUpdatesTypeOK, UpToNow(replay), NEW e \in 0..Events, Known(e)
    PROVE  /\ After(e) \in Seq(1..Events) /\ e # 0
           /\ e + Len(After(e)) = emitted
           /\ \A i \in 1..Len(After(e)) : After(e)[i] = e + i
<1> DEFINE i == CHOOSE j \in DOMAIN replay : replay[j] = e
           n == Len(replay)
<1>1. replay \in Seq(1..Events) /\ emitted \in Nat /\ Events \in Nat
  BY LiveUpdatesAssumption DEF LiveUpdatesTypeOK
<1>2. n \in Nat /\ DOMAIN replay = 1..n /\ \A k \in 1..n : replay[k] \in 1..Events
  BY <1>1
<1>3. i \in 1..n /\ replay[i] = e
  BY <1>2 DEF Known
<1>4. After(e) = SubSeq(replay, i + 1, n)
  BY DEF After
<1> HIDE DEF i
<1>5. e # 0 /\ e \in Nat /\ i \in Nat /\ e + n = emitted + i
  BY <1>1, <1>2, <1>3 DEF UpToNow
<1>6. After(e) \in Seq(1..Events) /\ Len(After(e)) = n - i
      /\ \A k \in 1..(n - i) : After(e)[k] = replay[i + k]
  <2> HIDE DEF n
  <2>0. i + 1 \in 1..(n + 1) /\ n \in Nat /\ i + 1 \in Nat
    BY <1>2, <1>3, <1>5
  <2>1. /\ SubSeq(replay, i + 1, n) \in Seq(1..Events)
        /\ Len(SubSeq(replay, i + 1, n)) = IF i + 1 <= n THEN n - (i + 1) + 1 ELSE 0
        /\ \A k \in 1..(n - (i + 1) + 1) : SubSeq(replay, i + 1, n)[k] = replay[(i + 1) + k - 1]
    BY SMTT(60), <1>1, <2>0, SubSeqProperties DEF n
  <2>2. n - (i + 1) + 1 = n - i /\ \A k \in 1..(n - i) : (i + 1) + k - 1 = i + k
    BY <2>0, <1>5
  <2>3. (IF i + 1 <= n THEN n - (i + 1) + 1 ELSE 0) = n - i
    BY <2>0, <1>3, <1>5
  <2> QED
    BY <1>4, <2>1, <2>2, <2>3
<1>7. ASSUME NEW k \in 1..(n - i) PROVE After(e)[k] = e + k
  <2> HIDE DEF n
  <2>1. k \in Nat /\ i + k \in 1..n
    BY <1>2, <1>3, <1>5
  <2>2. replay[i + k] + n = emitted + (i + k)
    BY <2>1 DEF UpToNow, n
  <2>3. replay[i + k] \in 1..Events
    BY <1>2, <2>1
  <2>4. \A a, b, c, d, f, g \in Nat : a + b = c + d /\ f + b = c + (d + g) => f = a + g
    OBVIOUS
  <2>5. replay[i + k] \in Nat
    BY <1>1, <2>3
  <2>6. replay[i + k] = e + k
    BY SMTT(60), <1>1, <1>2, <1>5, <2>1, <2>2, <2>4, <2>5
  <2> QED
    BY <1>6, <2>6
<1>8. e + Len(After(e)) = emitted
  <2> HIDE DEF n
  <2> QED
    BY <1>1, <1>2, <1>5, <1>6
<1> QED
  BY <1>5, <1>6, <1>7, <1>8

(* A queue and what is missed lose their first event.                      *)
LEMMA WithoutTheFirst ==
    ASSUME NEW s \in Seq(1..Events), s # <<>>
    PROVE  /\ Head(s) = s[1] /\ Head(s) \in 1..Events /\ 1 \in 1..Len(s)
           /\ Tail(s) \in Seq(1..Events) /\ Len(Tail(s)) + 1 = Len(s) /\ Len(Tail(s)) \in Nat
           /\ \A i \in 1..Len(Tail(s)) : Tail(s)[i] = s[i + 1] /\ i + 1 \in 1..Len(s)
<1>1. Len(s) \in Nat /\ Len(s) # 0
  OBVIOUS
<1>2. Head(s) = s[1] /\ Head(s) \in 1..Events /\ 1 \in 1..Len(s)
  <2>1. 1 \in 1..Len(s)
    BY <1>1
  <2>2. Head(s) = s[1]
    OBVIOUS
  <2> QED
    BY <2>1, <2>2, HeadTailProperties
<1>3. Tail(s) \in Seq(1..Events) /\ Len(Tail(s)) = Len(s) - 1
  BY HeadTailProperties
<1>4. \A i \in 1..Len(Tail(s)) : Tail(s)[i] = s[i + 1]
  BY HeadTailProperties
<1>5. \A i \in 1..(Len(s) - 1) : i + 1 \in 1..Len(s)
  BY <1>1
<1> QED
  BY <1>1, <1>2, <1>3, <1>4, <1>5

(* A client's step leaves the others alone.                                *)
LEMMA OthersAreLeftAlone ==
    ASSUME LiveUpdatesTypeOK, NEW c \in Clients, NEW d \in Clients \ {c},
           Connect(c) \/ Replay(c) \/ SendMissed(c) \/ GoLive(c) \/ Send(c) \/ Disconnect(c)
    PROVE  /\ emitted' = emitted /\ (d \in registered' <=> d \in registered)
           /\ (d \in lossy' <=> d \in lossy)
           /\ feed'[d] = feed[d] /\ visit'[d] = visit[d] /\ missed'[d] = missed[d]
           /\ replayed'[d] = replayed[d] /\ last'[d] = last[d]
           /\ newest'[d] = newest[d] /\ named'[d] = named[d]
<1> USE DEF LiveUpdatesTypeOK
<1>1. CASE Connect(c)
  BY <1>1 DEF Connect
<1>2. CASE Replay(c)
  BY <1>2 DEF Replay
<1>3. CASE SendMissed(c)
  BY <1>3 DEF SendMissed
<1>4. CASE GoLive(c)
  BY <1>4 DEF GoLive
<1>5. CASE Send(c)
  BY <1>5 DEF Send
<1>6. CASE Disconnect(c)
  BY <1>6 DEF Disconnect
<1> QED
  BY <1>1, <1>2, <1>3, <1>4, <1>5, <1>6

(* The type of the state is kept by every step.                            *)
LEMMA LiveUpdatesTypeStep ==
    ASSUME LiveUpdatesTypeOK, UpToNow(replay), \A c \in Clients : UpToNow(feed[c]) /\ NamesTheLast(c),
           [LiveUpdatesNext]_feedVars
    PROVE  LiveUpdatesTypeOK'
<1> USE LiveUpdatesAssumption DEF LiveUpdatesTypeOK
<1>1. CASE Emit
  <2>1. replay' \in Seq(1..Events) /\ Len(replay') <= ReplayMax
    BY <1>1, PushedIsRecent DEF Emit
  <2>2. \A c \in Clients : Push(feed[c], emitted + 1, BufferMax) \in Seq(1..Events)
                           /\ Len(Push(feed[c], emitted + 1, BufferMax)) <= BufferMax
    <3> SUFFICES ASSUME NEW c \in Clients
                 PROVE  /\ Push(feed[c], emitted + 1, BufferMax) \in Seq(1..Events)
                        /\ Len(Push(feed[c], emitted + 1, BufferMax)) <= BufferMax
      OBVIOUS
    <3> DEFINE p == Push(feed[c], emitted + 1, BufferMax)
    <3>1. p \in Seq(1..Events) /\ Len(p) = IF Len(feed[c]) < BufferMax THEN Len(feed[c]) + 1 ELSE Len(feed[c])
      BY <1>1, PushedIsRecent DEF Emit
    <3>2. Len(feed[c]) \in Nat /\ Len(feed[c]) <= BufferMax /\ BufferMax \in Nat
      OBVIOUS
    <3> HIDE DEF p
    <3>3. Len(p) <= BufferMax
      BY <3>1, <3>2
    <3> QED
      BY <3>1, <3>3 DEF p
  <2>3. feed' = [c \in Clients |-> IF c \in registered THEN Push(feed[c], emitted + 1, BufferMax) ELSE feed[c]]
    BY <1>1 DEF Emit
  <2>4. feed' \in [Clients -> Seq(1..Events)] /\ \A c \in Clients : Len(feed'[c]) <= BufferMax
    BY <2>2, <2>3
  <2>5. emitted' \in 0..Events /\ lossy' \in SUBSET Clients
    BY <1>1 DEF Emit
  <2> QED
    BY <1>1, <2>1, <2>4, <2>5 DEF Emit
<1>2. ASSUME NEW c \in Clients, Connect(c) PROVE LiveUpdatesTypeOK'
  <2>1. visits' \in [Clients -> 0..MaxVisits]
    BY <1>2 DEF Connect
  <2>2. Greeting \in 0..Greeting
    BY DEF Greeting
  <2>3. feed' \in [Clients -> Seq(1..Events)] /\ \A d \in Clients : Len(feed'[d]) <= BufferMax
    BY <1>2 DEF Connect
  <2> QED
    BY <1>2, <2>1, <2>2, <2>3 DEF Connect
<1>3. ASSUME NEW c \in Clients, Replay(c) PROVE LiveUpdatesTypeOK'
  <2>1. Known(named[c]) => named[c] \in 0..Events
    BY DEF Known
  <2>2. missed' \in [Clients -> Seq(1..Events)]
    <3>1. CASE Known(named[c])
      <4>1. After(named[c]) \in Seq(1..Events)
        BY <2>1, <3>1, AllThatFollows
      <4>2. missed' = [missed EXCEPT ![c] = After(named[c])]
        BY <1>3, <3>1 DEF Replay
      <4> QED
        BY <4>1, <4>2
    <3>2. CASE ~Known(named[c])
      BY <1>3, <3>2 DEF Replay
    <3> QED
      BY <3>1, <3>2
  <2> QED
    BY <1>3, <2>2 DEF Replay
<1>4. ASSUME NEW c \in Clients, SendMissed(c) PROVE LiveUpdatesTypeOK'
  <2>1. Head(missed[c]) \in 1..Events /\ Tail(missed[c]) \in Seq(1..Events)
    BY <1>4, WithoutTheFirst DEF SendMissed
  <2>2. Head(missed[c]) \in 0..Events /\ Head(missed[c]) \in 0..Greeting
    BY SMTT(60), <2>1 DEF Greeting
  <2>3. /\ last' \in [Clients -> 0..Events] /\ newest' \in [Clients -> 0..Greeting]
        /\ missed' \in [Clients -> Seq(1..Events)]
        /\ replayed' \in [Clients -> SUBSET (1..Events)]
    BY <1>4, <2>1, <2>2 DEF SendMissed
  <2> QED
    BY <1>4, <2>3 DEF SendMissed
<1>5. ASSUME NEW c \in Clients, GoLive(c) PROVE LiveUpdatesTypeOK'
  BY <1>5 DEF GoLive
<1>6. ASSUME NEW c \in Clients, Send(c) PROVE LiveUpdatesTypeOK'
  <2>1. /\ Head(feed[c]) \in 1..Events /\ Tail(feed[c]) \in Seq(1..Events)
        /\ Len(Tail(feed[c])) + 1 = Len(feed[c]) /\ Len(Tail(feed[c])) \in Nat
    BY <1>6, WithoutTheFirst DEF Send
  <2>2. Head(feed[c]) \in 0..Events /\ Head(feed[c]) \in 0..Greeting
    BY <2>1 DEF Greeting
  <2>3. Len(Tail(feed[c])) <= BufferMax
    BY <2>1
  <2>4. feed' \in [Clients -> Seq(1..Events)] /\ \A d \in Clients : Len(feed'[d]) <= BufferMax
    BY <1>6, <2>1, <2>3 DEF Send
  <2>5. /\ last' \in [Clients -> 0..Events] /\ newest' \in [Clients -> 0..Greeting]
        /\ replayed' \in [Clients -> SUBSET (1..Events)]
    BY <1>6, <2>1, <2>2 DEF Send
  <2> QED
    BY <1>6, <2>4, <2>5 DEF Send
<1>7. ASSUME NEW c \in Clients, Disconnect(c) PROVE LiveUpdatesTypeOK'
  <2>1. feed' \in [Clients -> Seq(1..Events)] /\ \A d \in Clients : Len(feed'[d]) <= BufferMax
    BY <1>7 DEF Disconnect
  <2> QED
    BY SMTT(60), <1>7, <2>1 DEF Disconnect
<1>8. CASE UNCHANGED feedVars
  BY <1>8 DEF feedVars
<1> QED
  BY <1>1, <1>2, <1>3, <1>4, <1>5, <1>6, <1>7, <1>8 DEF LiveUpdatesNext

(* An event goes to the end of the queue of who is registered.             *)
LEMMA EmitStep ==
    ASSUME FeedInv, Emit, NEW c \in Clients
    PROVE  ClientInv(c)'
<1> USE LiveUpdatesAssumption
<1> DEFINE p == Push(feed[c], emitted + 1, BufferMax)
<1>1. /\ emitted' = emitted + 1
      /\ UNCHANGED <<registered, visit, missed, replayed, last, newest, named>>
      /\ feed'[c] = IF c \in registered THEN p ELSE feed[c]
      /\ c \in registered /\ Len(feed[c]) = BufferMax => c \in lossy'
      /\ c \in lossy => c \in lossy'
  BY DEF FeedInv, LiveUpdatesTypeOK, Emit
<1>2. /\ emitted \in Nat /\ last[c] \in Nat /\ Len(missed[c]) \in Nat /\ Len(feed[c]) \in Nat
      /\ Len(feed[c]) <= BufferMax /\ last[c] + Len(missed[c]) <= emitted
      /\ ClientInv(c)
  BY SMTT(60) DEF FeedInv, LiveUpdatesTypeOK, ClientInv, ReplayFollows
<1>3. /\ p \in Seq(1..Events)
      /\ Len(p) = IF Len(feed[c]) < BufferMax THEN Len(feed[c]) + 1 ELSE Len(feed[c])
      /\ \A i \in 1..Len(p) : p[i] + Len(p) = emitted + 1 + i
      /\ \A i \in 1..Len(p) : p[i] = emitted + 1 \/ \E k \in 1..Len(feed[c]) : p[i] = feed[c][k]
  <2>1. feed[c] \in Seq(1..Events) /\ UpToNow(feed[c]) /\ emitted \in 0..Events /\ emitted < Events
    BY DEF FeedInv, LiveUpdatesTypeOK, ClientInv, QueueIsRecent, Emit
  <2> QED
    BY <1>2, <2>1, PushedIsRecent
<1> HIDE DEF p
<1>4. QueueIsRecent(c)'
  <2>1. CASE c \in registered
    BY <1>1, <1>3, <2>1 DEF QueueIsRecent, UpToNow
  <2>2. CASE c \notin registered
    BY <1>1, <1>2, <2>2 DEF ClientInv, QueueIsRecent, UpToNow
  <2> QED
    BY <2>1, <2>2
<1>5. NamesTheLast(c)'
  BY <1>1, <1>2 DEF ClientInv, NamesTheLast
<1>6. ReplayFollows(c)'
  <2>1. last[c] + Len(missed[c]) <= emitted + 1 /\ last[c] < emitted + 1
    BY <1>2
  <2>2. ASSUME visit[c] # "away", NEW i \in 1..Len(feed'[c])
        PROVE  feed'[c][i] \in replayed[c] \/ feed'[c][i] > last[c]
    <3>1. feed'[c] = p
      BY <1>1, <1>2, <2>2 DEF ClientInv, QueueIsRecent
    <3>2. p[i] = emitted + 1 \/ \E k \in 1..Len(feed[c]) : p[i] = feed[c][k]
      BY <1>3, <2>2, <3>1
    <3> QED
      BY <1>2, <2>1, <2>2, <3>1, <3>2 DEF ClientInv, ReplayFollows
  <2> QED
    BY <1>1, <1>2, <2>1, <2>2 DEF ClientInv, ReplayFollows
<1>7. QueueReachesBack(c)'
  <2> SUFFICES ASSUME visit[c] \in {"replaying", "live"}, c \notin lossy', last[c] # 0
               PROVE  emitted + 1 <= last[c] + Len(missed[c]) + Len(feed'[c])
    BY <1>1 DEF QueueReachesBack
  <2>1. c \in registered /\ Len(feed'[c]) = Len(feed[c]) + 1
    BY <1>1, <1>2, <1>3 DEF ClientInv, QueueIsRecent
  <2>2. emitted <= last[c] + Len(missed[c]) + Len(feed[c])
    BY <1>1, <1>2 DEF ClientInv, QueueReachesBack
  <2> QED
    BY SMTT(60), <1>2, <2>1, <2>2
<1> QED
  BY <1>4, <1>5, <1>6, <1>7 DEF ClientInv

(* What a client is sent of the replay is the next event.                  *)
LEMMA SendMissedStep ==
    ASSUME FeedInv, NEW c \in Clients, SendMissed(c)
    PROVE  ClientInv(c)'
<1> DEFINE m == missed[c]
           e == Head(m)
           t == Tail(m)
<1>1. /\ m \in Seq(1..Events) /\ m # <<>> /\ visit[c] = "replaying"
      /\ UNCHANGED <<emitted, registered, visit, named, lossy, feed>>
      /\ last'[c] = e /\ newest'[c] = e /\ replayed'[c] = replayed[c] \cup {e} /\ missed'[c] = t
      /\ last[c] \in Nat /\ emitted \in Nat /\ Len(m) \in Nat /\ Len(feed[c]) \in Nat
      /\ replayed[c] \subseteq 1..Events /\ feed[c] \in Seq(1..Events)
  BY DEF FeedInv, LiveUpdatesTypeOK, SendMissed
<1>2. /\ e = m[1] /\ e \in 1..Events /\ 1 \in 1..Len(m)
      /\ t \in Seq(1..Events) /\ Len(t) + 1 = Len(m) /\ Len(t) \in Nat
      /\ \A i \in 1..Len(t) : t[i] = m[i + 1] /\ i + 1 \in 1..Len(m)
  BY <1>1, WithoutTheFirst
<1>3. ClientInv(c) /\ last[c] # 0
  BY <1>1 DEF FeedInv, ClientInv, ReplayFollows
<1>4. e = last[c] + 1 /\ e # 0 /\ e \in Nat
  <2>1. m[1] = last[c] + 1
    BY <1>2, <1>3 DEF ClientInv, ReplayFollows
  <2> HIDE DEF m, e, t
  <2> QED
    BY <1>1, <1>2, <2>1
<1>5. \A i \in 1..Len(t) : t[i] = e + i
  <2> SUFFICES ASSUME NEW i \in 1..Len(t) PROVE t[i] = e + i
    OBVIOUS
  <2>1. m[i + 1] = last[c] + (i + 1)
    BY <1>2, <1>3 DEF ClientInv, ReplayFollows
  <2>2. i \in Nat
    BY <1>2
  <2>3. \A a, k \in Nat : a + (k + 1) = (a + 1) + k
    OBVIOUS
  <2>4. last[c] + (i + 1) = e + i
    <3> HIDE DEF e, m, t
    <3>1. last[c] \in Nat /\ i \in Nat /\ e = last[c] + 1
      BY <1>1, <1>4, <2>2
    <3>2. last[c] + (i + 1) = (last[c] + 1) + i
      BY <2>3, <3>1
    <3> QED
      BY <3>1, <3>2
  <2> QED
    BY <1>2, <2>1, <2>4
<1> HIDE DEF m, e, t
<1>6. e + Len(t) <= emitted /\ last[c] + Len(m) = e + Len(t)
  <2>1. last[c] + Len(m) <= emitted
    BY <1>3 DEF ClientInv, ReplayFollows, m
  <2>2. \A a, k \in Nat : (a + 1) + k = a + (k + 1)
    OBVIOUS
  <2>3. last[c] + Len(m) = e + Len(t)
    BY ZenonT(60), <1>1, <1>2, <1>4, <2>2
  <2> QED
    BY <2>1, <2>3
<1>7. ReplayFollows(c)'
  <2>1. \A x \in replayed[c] \cup {e} : x <= e
    <3>1. \A x \in replayed[c] : x <= last[c] /\ x \in Nat
      BY <1>1, <1>3 DEF ClientInv, ReplayFollows
    <3> QED
      BY <1>1, <1>4, <3>1
  <2>2. \A i \in 1..Len(feed[c]) : feed[c][i] \in replayed[c] \cup {e} \/ feed[c][i] > e
    <3> SUFFICES ASSUME NEW i \in 1..Len(feed[c]), feed[c][i] \notin replayed[c], feed[c][i] # e
                 PROVE  feed[c][i] > e
      OBVIOUS
    <3>1. feed[c][i] > last[c]
      BY <1>1, <1>3 DEF ClientInv, ReplayFollows
    <3>2. feed[c][i] \in Nat
      <4> DEFINE f == feed[c]
      <4>0. f \in Seq(1..Events) /\ i \in 1..Len(f)
        BY <1>1
      <4> HIDE DEF f
      <4>1. f[i] \in 1..Events
        BY <4>0, ElementOfSeq
      <4> QED
        BY <4>1, LiveUpdatesAssumption DEF f
    <3>3. \A x, y \in Nat : x > y /\ x # y + 1 => x > y + 1
      OBVIOUS
    <3> QED
      BY <1>1, <1>4, <3>1, <3>2, <3>3
  <2> QED
    BY <1>1, <1>4, <1>5, <1>6, <2>1, <2>2 DEF ReplayFollows
<1>8. QueueReachesBack(c)'
  BY <1>1, <1>3, <1>6 DEF ClientInv, QueueReachesBack, m
<1> QED
  BY <1>1, <1>3, <1>7, <1>8 DEF ClientInv, QueueIsRecent, UpToNow, NamesTheLast

(* Of the queue a client is sent the events that were not replayed to it.  *)
LEMMA SendStep ==
    ASSUME FeedInv, NEW c \in Clients, Send(c)
    PROVE  ClientInv(c)'
<1> USE LiveUpdatesAssumption
<1> DEFINE f == feed[c]
           e == Head(f)
           t == Tail(f)
           l == last[c]
<1>1. /\ f \in Seq(1..Events) /\ f # <<>> /\ visit[c] = "live"
      /\ UNCHANGED <<emitted, registered, visit, missed, named, lossy>>
      /\ feed'[c] = t /\ replayed'[c] = replayed[c] \ {e}
      /\ e \in replayed[c] => last'[c] = l /\ newest'[c] = newest[c]
      /\ e \notin replayed[c] => last'[c] = e /\ newest'[c] = e
      /\ l \in Nat /\ emitted \in Nat /\ Len(f) \in Nat
      /\ replayed[c] \subseteq 1..Events
  BY SMTT(60) DEF FeedInv, LiveUpdatesTypeOK, Send
<1>2. /\ e = f[1] /\ e \in 1..Events /\ 1 \in 1..Len(f)
      /\ t \in Seq(1..Events) /\ Len(t) + 1 = Len(f) /\ Len(t) \in Nat
      /\ \A i \in 1..Len(t) : t[i] = f[i + 1] /\ i + 1 \in 1..Len(f)
  BY <1>1, WithoutTheFirst
<1>3. ClientInv(c) /\ missed[c] = <<>> /\ Len(missed[c]) = 0
  BY <1>1 DEF FeedInv, ClientInv, ReplayFollows
<1>4. e \in Nat /\ e + Len(f) = emitted + 1 /\ e <= emitted
  <2>1. f[1] + Len(f) = emitted + 1
    BY <1>2, <1>3 DEF ClientInv, QueueIsRecent, UpToNow
  <2>2. e \in Nat /\ e + Len(f) = emitted + 1 /\ 1 <= Len(f)
    BY <1>1, <1>2, <2>1
  <2> HIDE DEF e, f
  <2> QED
    BY <1>1, <2>2
<1>5. \A i \in 1..Len(t) : t[i] + Len(t) = emitted + i /\ t[i] \in Nat /\ t[i] > e
  <2> SUFFICES ASSUME NEW i \in 1..Len(t)
               PROVE  t[i] + Len(t) = emitted + i /\ t[i] \in Nat /\ t[i] > e
    OBVIOUS
  <2>1. f[i + 1] + Len(f) = emitted + (i + 1)
    BY <1>2, <1>3 DEF ClientInv, QueueIsRecent, UpToNow
  <2>2. t[i] = f[i + 1] /\ t[i] \in 1..Events /\ i \in Nat /\ i >= 1
    <3>1. t \in Seq(1..Events) /\ i \in 1..Len(t) /\ Len(t) \in Nat
      BY <1>2
    <3> HIDE DEF t
    <3>2. t[i] \in 1..Events /\ i \in Nat /\ i >= 1
      BY <3>1
    <3> QED
      BY <1>2, <3>2
  <2> DEFINE x == t[i]
  <2>3. x \in Nat /\ x + Len(f) = emitted + (i + 1)
    BY <2>1, <2>2
  <2> HIDE DEF x, f, t, e
  <2>a. \A a, b, k, n \in Nat : a + (n + 1) = b + (k + 1) => a + n = b + k
    OBVIOUS
  <2>b. \A a, b, g, k, n \in Nat : a + n = b + (k + 1) /\ g + n = b + 1 /\ k >= 1 => a > g
    OBVIOUS
  <2>c. x + (Len(t) + 1) = emitted + (i + 1)
    BY <1>2, <2>3
  <2>d. x + Len(t) = emitted + i
    <3> DEFINE n == Len(t)
    <3>1. x \in Nat /\ n \in Nat /\ emitted \in Nat /\ i \in Nat /\ x + (n + 1) = emitted + (i + 1)
      BY <1>1, <1>2, <2>2, <2>3, <2>c
    <3> HIDE DEF n
    <3> QED
      BY <2>a, <3>1 DEF n
  <2>e. x > e
    BY <1>1, <1>4, <2>2, <2>3, <2>b
  <2>4. x + Len(t) = emitted + i /\ x > e
    BY <2>d, <2>e
  <2> QED
    BY <2>3, <2>4 DEF x
<1>6. /\ \A i \in 1..Len(t) : t[i] \in replayed[c] \/ t[i] > l
      /\ e \in replayed[c] \/ e > l
      /\ \A x \in replayed[c] : x <= l
  BY ZenonT(60), <1>1, <1>2, <1>3 DEF ClientInv, ReplayFollows
<1> HIDE DEF f, e, t
<1>7. QueueIsRecent(c)'
  BY <1>1, <1>3, <1>5 DEF ClientInv, QueueIsRecent, UpToNow
<1>8. NamesTheLast(c)'
  BY <1>1, <1>3 DEF ClientInv, NamesTheLast
<1>9. CASE e \in replayed[c]
  <2>1. last'[c] = l
    BY <1>1, <1>9
  <2>2. \A i \in 1..Len(t) : t[i] # e
    BY <1>4, <1>5
  <2>3. ReplayFollows(c)'
    <3>1. \A i \in 1..Len(t) : t[i] \in replayed[c] \ {e} \/ t[i] > l
      BY <1>6, <2>2
    <3>2. \A x \in replayed[c] \ {e} : x <= l
      BY <1>6
    <3> QED
      BY <1>1, <1>3, <2>1, <3>1, <3>2 DEF ClientInv, ReplayFollows
  <2>4. QueueReachesBack(c)'
    <3>1. e <= l
      BY <1>6, <1>9
    <3>2. emitted <= l + 0 + Len(t)
      BY <1>1, <1>2, <1>4, <3>1
    <3> QED
      BY <1>1, <1>3, <2>1, <3>2 DEF QueueReachesBack
  <2> QED
    BY <1>7, <1>8, <2>3, <2>4 DEF ClientInv
<1>10. CASE e \notin replayed[c]
  <2>1. last'[c] = e /\ e > l /\ replayed'[c] = replayed[c]
    BY <1>1, <1>6, <1>10
  <2>2. ReplayFollows(c)'
    <3>1. \A x \in replayed[c] : x <= e
      BY <1>1, <1>4, <1>6, <2>1
    <3>2. \A i \in 1..Len(t) : t[i] > e
      BY <1>5
    <3>3. e + 0 <= emitted
      BY <1>4
    <3> QED
      BY <1>1, <1>3, <2>1, <3>1, <3>2, <3>3 DEF ReplayFollows
  <2>3. QueueReachesBack(c)'
    <3>1. emitted <= e + 0 + Len(t)
      BY <1>1, <1>2, <1>4
    <3> QED
      BY <1>1, <1>3, <2>1, <3>1 DEF QueueReachesBack
  <2> QED
    BY <1>7, <1>8, <2>2, <2>3 DEF ClientInv
<1> QED
  BY <1>9, <1>10

(* The replay of a client is all that has come since the event it names.   *)
LEMMA ReplayStep ==
    ASSUME FeedInv, NEW c \in Clients, Replay(c)
    PROVE  ClientInv(c)'
<1> USE LiveUpdatesAssumption
<1> DEFINE n == named[c]
           l == last[c]
<1>1. /\ visit[c] = "greeted" /\ visit'[c] = "replaying"
      /\ UNCHANGED <<emitted, registered, feed, replayed, last, newest, named>>
      /\ missed'[c] = IF Known(n) THEN After(n) ELSE <<>>
      /\ n # 0 /\ ~Known(n) => c \in lossy'
      /\ l \in Nat /\ l \in 0..Events /\ emitted \in Nat /\ Len(feed[c]) \in Nat
  BY DEF FeedInv, LiveUpdatesTypeOK, Replay
<1>2. ClientInv(c) /\ missed[c] = <<>> /\ replayed[c] = {} /\ n \in {l, Greeting} /\ l <= emitted
  <2>1. ClientInv(c) /\ missed[c] = <<>> /\ replayed[c] = {} /\ n \in {l, Greeting} /\ l + Len(missed[c]) <= emitted
    BY <1>1 DEF FeedInv, ClientInv, ReplayFollows, NamesTheLast
  <2> QED
    BY <1>1, <2>1
<1>3. Known(n) => n = l
  <2>1. ASSUME Known(n) PROVE n \in 1..Events
    BY <2>1, ElementOfSeq DEF Known, FeedInv, LiveUpdatesTypeOK
  <2>2. Greeting \notin 1..Events
    BY DEF Greeting
  <2> QED
    BY <1>2, <2>1, <2>2
<1>4. CASE Known(n)
  <2>1. n = l /\ l # 0 /\ missed'[c] = After(l) /\ l + Len(After(l)) = emitted
        /\ Len(After(l)) \in Nat
        /\ \A i \in 1..Len(After(l)) : After(l)[i] = l + i
    BY <1>1, <1>3, <1>4, AllThatFollows DEF FeedInv
  <2>2. l + Len(After(l)) <= emitted /\ emitted <= l + Len(After(l)) + Len(feed[c])
    BY <1>1, <2>1
  <2>3. \A i \in 1..Len(feed[c]) : feed[c][i] \in replayed[c] \/ feed[c][i] > l
    BY <1>1, <1>2 DEF ClientInv, ReplayFollows
  <2>4. ReplayFollows(c)'
    BY <1>1, <1>2, <2>1, <2>2, <2>3 DEF ReplayFollows
  <2>5. QueueReachesBack(c)'
    BY <1>1, <2>1, <2>2 DEF QueueReachesBack
  <2> QED
    BY <1>1, <1>2, <2>4, <2>5 DEF ClientInv, QueueIsRecent, UpToNow, NamesTheLast
<1>5. CASE ~Known(n)
  <2>1. missed'[c] = <<>> /\ Len(missed'[c]) = 0 /\ l + 0 <= emitted
    BY <1>1, <1>2, <1>5
  <2>2. \A i \in 1..Len(feed[c]) : feed[c][i] \in replayed[c] \/ feed[c][i] > l
    BY <1>1, <1>2 DEF ClientInv, ReplayFollows
  <2>3. ReplayFollows(c)'
    BY <1>1, <1>2, <2>1, <2>2 DEF ReplayFollows
  <2>4. c \in lossy' \/ last'[c] = 0
    BY <1>1, <1>2, <1>5 DEF Greeting
  <2> QED
    BY <1>1, <1>2, <2>3, <2>4 DEF ClientInv, QueueIsRecent, UpToNow, NamesTheLast, QueueReachesBack
<1> QED
  BY <1>4, <1>5

(* A connection begins and ends with nothing to replay.                    *)
LEMMA VisitStep ==
    ASSUME FeedInv, NEW c \in Clients, Connect(c) \/ GoLive(c) \/ Disconnect(c)
    PROVE  ClientInv(c)'
<1>1. /\ UNCHANGED <<emitted, last, lossy>> /\ last[c] \in Nat /\ emitted \in Nat
      /\ ClientInv(c)
  BY DEF FeedInv, LiveUpdatesTypeOK, Connect, GoLive, Disconnect
<1>2. last[c] + 0 <= emitted
  BY <1>1 DEF ClientInv, ReplayFollows
<1>3. CASE Connect(c)
  <2>1. /\ visit[c] = "away" /\ visit'[c] = "greeted" /\ c \in registered' /\ feed'[c] = <<>>
        /\ named'[c] = newest[c] /\ newest'[c] = Greeting
        /\ missed' = missed /\ replayed' = replayed
    BY <1>3 DEF FeedInv, LiveUpdatesTypeOK, Connect
  <2>2. QueueIsRecent(c)' /\ NamesTheLast(c)' /\ QueueReachesBack(c)'
    BY <1>1, <2>1 DEF ClientInv, QueueIsRecent, UpToNow, NamesTheLast, QueueReachesBack
  <2>3. ReplayFollows(c)'
    BY <1>1, <2>1 DEF ClientInv, ReplayFollows
  <2> QED
    BY <2>2, <2>3 DEF ClientInv
<1>4. CASE GoLive(c)
  <2>1. /\ visit[c] = "replaying" /\ visit'[c] = "live" /\ missed[c] = <<>>
        /\ UNCHANGED <<registered, feed, named, newest, missed, replayed>>
    BY <1>4 DEF FeedInv, LiveUpdatesTypeOK, GoLive
  <2> QED
    BY <1>1, <2>1 DEF ClientInv, QueueIsRecent, UpToNow, NamesTheLast, QueueReachesBack, ReplayFollows
<1>5. CASE Disconnect(c)
  <2>1. /\ visit'[c] = "away" /\ missed'[c] = <<>> /\ replayed'[c] = {}
        /\ \/ c \notin registered' /\ feed'[c] = <<>>
           \/ registered' = registered /\ feed' = feed
        /\ UNCHANGED <<named, newest>>
    BY <1>5 DEF FeedInv, LiveUpdatesTypeOK, Disconnect
  <2>2. QueueIsRecent(c)' /\ NamesTheLast(c)' /\ QueueReachesBack(c)'
    BY <1>1, <2>1 DEF ClientInv, QueueIsRecent, UpToNow, NamesTheLast, QueueReachesBack
  <2>3. ReplayFollows(c)'
    BY <1>1, <1>2, <2>1 DEF ReplayFollows
  <2> QED
    BY <2>2, <2>3 DEF ClientInv
<1> QED
  BY <1>3, <1>4, <1>5

(* The invariant is kept by every step.                                    *)
LEMMA FeedStep ==
    ASSUME FeedInv, [LiveUpdatesNext]_feedVars
    PROVE  FeedInv'
<1>1. LiveUpdatesTypeOK'
  BY LiveUpdatesTypeStep DEF FeedInv, ClientInv, QueueIsRecent
<1>2. UpToNow(replay)'
  <2>1. CASE Emit
    <3>1. /\ replay' = Push(replay, emitted + 1, ReplayMax) /\ emitted' = emitted + 1
          /\ replay \in Seq(1..Events) /\ Len(replay) <= ReplayMax /\ UpToNow(replay)
          /\ emitted \in 0..Events /\ emitted < Events
      BY <2>1 DEF Emit, FeedInv, LiveUpdatesTypeOK
    <3> QED
      BY <3>1, PushedIsRecent, LiveUpdatesAssumption DEF UpToNow
  <2>2. CASE UNCHANGED <<replay, emitted>>
    BY <2>2 DEF FeedInv, UpToNow
  <2> QED
    BY <2>1, <2>2 DEF LiveUpdatesNext, Connect, Replay, SendMissed, GoLive, Send, Disconnect, feedVars
<1>3. ASSUME NEW d \in Clients PROVE ClientInv(d)'
  <2>1. CASE Emit
    BY <2>1, EmitStep
  <2>2. ASSUME NEW c \in Clients,
               Connect(c) \/ Replay(c) \/ SendMissed(c) \/ GoLive(c) \/ Send(c) \/ Disconnect(c)
        PROVE  ClientInv(d)'
    <3>1. CASE d = c
      BY <2>2, <3>1, SendMissedStep, SendStep, ReplayStep, VisitStep
    <3>2. CASE d # c
      <4>1. LiveUpdatesTypeOK /\ ClientInv(d)
        BY DEF FeedInv
      <4>2. /\ emitted' = emitted /\ (d \in registered' <=> d \in registered)
            /\ (d \in lossy' <=> d \in lossy)
            /\ feed'[d] = feed[d] /\ visit'[d] = visit[d] /\ missed'[d] = missed[d]
            /\ replayed'[d] = replayed[d] /\ last'[d] = last[d]
            /\ newest'[d] = newest[d] /\ named'[d] = named[d]
        BY <2>2, <3>2, <4>1, OthersAreLeftAlone
      <4>3. QueueIsRecent(d)' /\ NamesTheLast(d)'
        BY <4>1, <4>2 DEF ClientInv, QueueIsRecent, UpToNow, NamesTheLast
      <4>4. ReplayFollows(d)' /\ QueueReachesBack(d)'
        BY <4>1, <4>2 DEF ClientInv, ReplayFollows, QueueReachesBack
      <4> QED
        BY <4>3, <4>4 DEF ClientInv
    <3> QED
      BY <3>1, <3>2
  <2>3. CASE UNCHANGED feedVars
    BY <2>3 DEF feedVars, FeedInv, ClientInv, QueueIsRecent, UpToNow, NamesTheLast, ReplayFollows, QueueReachesBack
  <2> QED
    BY <2>1, <2>2, <2>3 DEF LiveUpdatesNext
<1> QED
  BY <1>1, <1>2, <1>3 DEF FeedInv

(* What the invariant says of what is still to be sent.                    *)
LEMMA NothingIsMissing ==
    ASSUME FeedInv
    PROVE  FeedHasNoGap
<1> USE LiveUpdatesAssumption
<1> SUFFICES ASSUME NEW c \in Clients, visit[c] \in {"replaying", "live"}
             PROVE  /\ \A i \in DOMAIN missed[c] :
                        /\ missed[c][i] > last[c]
                        /\ \A k \in DOMAIN missed[c] : k < i => missed[c][k] < missed[c][i]
                    /\ \A i \in Fresh(c) :
                        /\ feed[c][i] > last[c]
                        /\ \A k \in DOMAIN missed[c] : missed[c][k] < feed[c][i]
                        /\ \A k \in Fresh(c) : k < i => feed[c][k] < feed[c][i]
                    /\ last[c] # 0 /\ c \notin lossy => Coming(c) = (last[c] + 1)..emitted
  BY DEF FeedHasNoGap
<1> DEFINE f == feed[c]
           m == missed[c]
           l == last[c]
<1>1. /\ f \in Seq(1..Events) /\ m \in Seq(1..Events) /\ l \in Nat /\ emitted \in Nat
      /\ Len(f) \in Nat /\ Len(m) \in Nat /\ DOMAIN f = 1..Len(f) /\ DOMAIN m = 1..Len(m)
      /\ ClientInv(c)
  BY DEF FeedInv, LiveUpdatesTypeOK
<1>2. /\ \A i \in DOMAIN m : m[i] = l + i /\ i \in Nat /\ i >= 1
      /\ l + Len(m) <= emitted
  BY <1>1 DEF ClientInv, ReplayFollows
<1>3. \A i \in DOMAIN f : f[i] \in Nat /\ f[i] + Len(f) = emitted + i /\ i \in Nat /\ i >= 1
                          /\ (f[i] \in replayed[c] \/ f[i] > l)
  <2> SUFFICES ASSUME NEW i \in DOMAIN f
               PROVE  f[i] \in Nat /\ f[i] + Len(f) = emitted + i /\ i \in Nat /\ i >= 1
                      /\ (f[i] \in replayed[c] \/ f[i] > l)
    OBVIOUS
  <2>1. f[i] \in 1..Events /\ i \in 1..Len(f)
    BY <1>1, ElementOfSeq
  <2>2. f[i] \in Nat /\ i \in Nat /\ i >= 1
    BY <1>1, <2>1
  <2>3. f[i] + Len(f) = emitted + i /\ (f[i] \in replayed[c] \/ f[i] > l)
    BY <1>1, <2>1 DEF ClientInv, QueueIsRecent, UpToNow, ReplayFollows
  <2> QED
    BY <2>2, <2>3
<1>4. Range(m) = (l + 1)..(l + Len(m))
  <2>1. \A x \in Range(m) : x \in (l + 1)..(l + Len(m))
    BY SMTT(60), <1>1, <1>2 DEF Range
  <2>2. ASSUME NEW x \in (l + 1)..(l + Len(m)) PROVE x \in Range(m)
    <3>1. x - l \in DOMAIN m /\ x = l + (x - l)
      BY <1>1, <2>2
    <3> QED
      BY <1>2, <3>1 DEF Range
  <2> QED
    BY <2>1, <2>2
<1>5. Fresh(c) = {i \in DOMAIN f : f[i] \notin replayed[c] \cup Range(m)}
  BY DEF Fresh
<1>6. \A x \in replayed[c] : x <= l /\ x \in Nat
  BY <1>1 DEF ClientInv, ReplayFollows, FeedInv, LiveUpdatesTypeOK
<1> HIDE DEF f, m
<1>7. \A i \in Fresh(c) : i \in DOMAIN f /\ f[i] > l + Len(m)
  BY SMTT(60), <1>1, <1>3, <1>4, <1>5
<1>8. \A i \in DOMAIN m : m[i] > l /\ \A k \in DOMAIN m : k < i => m[k] < m[i]
  BY <1>1, <1>2
<1>9. ASSUME NEW i \in Fresh(c)
      PROVE  /\ f[i] > l
             /\ \A k \in DOMAIN m : m[k] < f[i]
             /\ \A k \in Fresh(c) : k < i => f[k] < f[i]
  <2>1. i \in DOMAIN f /\ f[i] > l + Len(m) /\ f[i] \in Nat
    BY <1>3, <1>7
  <2>2. f[i] > l
    BY <1>1, <2>1
  <2>3. \A k \in DOMAIN m : m[k] < f[i]
    BY SMTT(60), <1>1, <1>2, <2>1
  <2>4. ASSUME NEW k \in Fresh(c), k < i PROVE f[k] < f[i]
    <3>1. \A a, b, n, e, j, h \in Nat : a + n = e + j /\ b + n = e + h /\ j < h => a < b
      OBVIOUS
    <3>2. k \in DOMAIN f
      BY <1>7
    <3> QED
      BY <1>1, <1>3, <2>1, <2>4, <3>1, <3>2
  <2> QED
    BY <2>2, <2>3, <2>4
<1>10. ASSUME l # 0, c \notin lossy PROVE Coming(c) = (l + 1)..emitted
  <2>1. emitted <= l + Len(m) + Len(f)
    BY <1>1, <1>10 DEF ClientInv, QueueReachesBack, f, m
  <2>2. Coming(c) = Range(m) \cup {f[i] : i \in Fresh(c)}
    BY DEF Coming, f, m
  <2>3. ASSUME NEW i \in Fresh(c) PROVE f[i] \in (l + 1)..emitted
    <3>1. \A a, n, e, j \in Nat : a + n = e + j /\ j <= n => a <= e
      OBVIOUS
    <3>2. i \in DOMAIN f /\ f[i] \in Nat /\ i \in Nat /\ i <= Len(f) /\ f[i] + Len(f) = emitted + i
      BY <1>1, <1>3, <1>7
    <3>3. f[i] <= emitted /\ f[i] > l
      BY <1>1, <1>9, <3>1, <3>2
    <3> QED
      BY <1>1, <3>2, <3>3
  <2>4. ASSUME NEW x \in (l + 1)..emitted, x \notin Range(m)
        PROVE  \E i \in Fresh(c) : x = f[i]
    <3> DEFINE n == Len(f)
               i == x + n - emitted
    <3>1. x \in Nat /\ x > l + Len(m) /\ x <= emitted
      BY <1>1, <1>4, <2>4
    <3>2. i \in 1..n /\ i \in Nat /\ x + n = emitted + i
      BY SMTT(60), <1>1, <2>1, <3>1
    <3> HIDE DEF i
    <3>3. f[i] + n = emitted + i /\ f[i] \in Nat /\ i \in DOMAIN f
      BY <1>1, <1>3, <3>2
    <3>4. \A a, b, k, e \in Nat : a + k = e /\ b + k = e => a = b
      OBVIOUS
    <3>5. f[i] = x
      <4> HIDE DEF n
      <4>1. n \in Nat /\ emitted + i \in Nat
        BY <1>1, <3>2 DEF n
      <4> QED
        BY <3>1, <3>2, <3>3, <3>4, <4>1
    <3>6. x \notin replayed[c]
      BY <1>1, <1>6, <3>1
    <3> QED
      BY <1>5, <2>4, <3>3, <3>5, <3>6
  <2>5. Range(m) \subseteq (l + 1)..emitted
    BY <1>1, <1>2, <1>4
  <2> QED
    BY <2>2, <2>3, <2>4, <2>5
<1> QED
  BY <1>8, <1>9, <1>10 DEF f, m

(* Theorem: however often a client comes back, what it is sent is in       *)
(* order, each event once, and complete if no buffer was too small.        *)
THEOREM FeedIsComplete == LiveUpdatesSpec => []FeedHasNoGap
<1>1. LiveUpdatesInit => FeedInv
  <2> SUFFICES ASSUME LiveUpdatesInit PROVE FeedInv
    OBVIOUS
  <2>1. LiveUpdatesTypeOK
    BY LiveUpdatesAssumption DEF LiveUpdatesInit, LiveUpdatesTypeOK, Greeting
  <2>2. UpToNow(replay)
    BY DEF LiveUpdatesInit, UpToNow
  <2>3. ASSUME NEW c \in Clients PROVE ClientInv(c)
    BY DEF LiveUpdatesInit, ClientInv, QueueIsRecent, UpToNow, NamesTheLast, ReplayFollows, QueueReachesBack
  <2> QED
    BY <2>1, <2>2, <2>3 DEF FeedInv
<1>2. FeedInv /\ [LiveUpdatesNext]_feedVars => FeedInv'
  BY FeedStep
<1>3. FeedInv => FeedHasNoGap
  BY NothingIsMissing
<1> QED
  BY <1>1, <1>2, <1>3, PTL DEF LiveUpdatesSpec
=============================================================================
