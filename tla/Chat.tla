-------------------------------- MODULE Chat --------------------------------
(***************************************************************************)
(* The way of a chat message: a transport reads the pages of a live chat   *)
(* (app/youtube/chat/list_transport.py, stream_transport.py), the stream   *)
(* worker puts the messages into the queue of its process, the consumer of *)
(* CentralChatOrchestrator drops duplicates and publishes an event, and    *)
(* EventBus (app/events/bus.py) starts a task for every handler, in this   *)
(* process and, over Redis, in the others.                                 *)
(*                                                                         *)
(* Messages are numbered as they are posted.  Redis is one store for all,  *)
(* or a store in the memory of each process that has no channels.          *)
(***************************************************************************)
EXTENDS Naturals, Sequences, FiniteSets, Functions

CONSTANTS
    Last,           \* the number of messages
    Procs,
    Listeners,      \* processes that subscribe to the channels of Redis
    Handlers,       \* processes whose intelligence coordinator is subscribed
    Readers,        \* stream workers on the live chat
    Home,           \* the process of a reader
    QueueMax,
    MaxRestarts,
    None

ASSUME ChatAssumption ==
    /\ Last \in Nat /\ QueueMax \in Nat \ {0} /\ MaxRestarts \in Nat
    /\ Listeners \subseteq Procs /\ Handlers \subseteq Procs
    /\ Home \in [Readers -> Procs]
    /\ None \notin 0..Last

Messages == 1..Last

VARIABLES
    shared,     \* whether there is a Redis server
    posted,     \* how many messages there are in the chat
    token,      \* the last message of the page a reader has read; None before the first
    queue,      \* of a process
    hand,       \* what its consumer is at
    known,      \* ids its deduplicator would find
    tuned,      \* whether its listener is subscribed
    wire,       \* events on the way to it, with their sender
    tasks,      \* handlers that were started
    handled,    \* history: how often a message was handled
    lost,       \* history: messages marked as known whose processing was cut off
    restarts

vars == <<shared, posted, token, queue, hand, known, tuned, wire, tasks, handled, lost, restarts>>

Idle == [stage |-> "idle", message |-> None]

ChatTypeOK ==
    /\ shared \in BOOLEAN
    /\ posted \in 0..Last
    /\ token \in [Readers -> 0..Last \cup {None}]
    /\ queue \in [Procs -> Seq(Messages)] /\ \A p \in Procs : Len(queue[p]) <= QueueMax
    /\ hand \in [Procs -> {Idle} \cup [stage : {"dedupe", "new", "publish"}, message : Messages]]
    /\ known \in [Procs -> SUBSET Messages]
    /\ tuned \in [Procs -> BOOLEAN]
    /\ wire \in [Procs -> SUBSET (Procs \X Messages)]
    /\ tasks \in SUBSET (Procs \X Messages)
    /\ handled \in [Messages -> Nat]
    /\ lost \in SUBSET Messages
    /\ restarts \in 0..MaxRestarts

ChatInit ==
    /\ shared \in BOOLEAN
    /\ posted = 0
    /\ token = [r \in Readers |-> None]
    /\ queue = [p \in Procs |-> <<>>]
    /\ hand = [p \in Procs |-> Idle]
    /\ known = [p \in Procs |-> {}]
    /\ tuned = [p \in Procs |-> FALSE]
    /\ wire = [p \in Procs |-> {}]
    /\ tasks = {}
    /\ handled = [m \in Messages |-> 0]
    /\ lost = {}
    /\ restarts = 0

-----------------------------------------------------------------------------
Post ==
    /\ posted < Last
    /\ posted' = posted + 1
    /\ UNCHANGED <<shared, token, queue, hand, known, tuned, wire, tasks, handled, lost, restarts>>

(* put_nowait for one message after the other: what finds the queue full   *)
(* is dropped.                                                             *)
Put(q, s) ==
    LET room == QueueMax - Len(q) IN
    q \o SubSeq(s, 1, IF Len(s) < room THEN Len(s) ELSE room)

Numbers(from, to) == [i \in 1..(to - from) |-> from + i]

(* A page, and the batch that the worker makes of it: no await lies        *)
(* between the token and the queue.  Without a token YouTube begins with   *)
(* recent messages, however far back that is.                              *)
Page(r) ==
    \E start \in IF token[r] = None THEN 0..posted ELSE {token[r]} :
        /\ token[r] = None \/ start < posted
        /\ token' = [token EXCEPT ![r] = posted]
        /\ queue' = [queue EXCEPT ![Home[r]] = Put(@, Numbers(start, posted))]
        /\ UNCHANGED <<shared, posted, hand, known, tuned, wire, tasks, handled, lost, restarts>>

(* The worker of a stream is started again and has no token.               *)
Rejoin(r) ==
    /\ token[r] # None
    /\ token' = [token EXCEPT ![r] = None]
    /\ UNCHANGED <<shared, posted, queue, hand, known, tuned, wire, tasks, handled, lost, restarts>>

-----------------------------------------------------------------------------
(* The consumer of a process takes one message at a time.                  *)
Get(p) ==
    /\ hand[p] = Idle /\ queue[p] # <<>>
    /\ hand' = [hand EXCEPT ![p] = [stage |-> "dedupe", message |-> Head(queue[p])]]
    /\ queue' = [queue EXCEPT ![p] = Tail(@)]
    /\ UNCHANGED <<shared, posted, token, known, tuned, wire, tasks, handled, lost, restarts>>

(* SET NX with a time to live of 1800 s, longer than a run of this model.  *)
Remember(p, m) ==
    known' = [q \in Procs |-> IF shared \/ q = p THEN known[q] \cup {m} ELSE known[q]]

Dispatch(p, m) == tasks' = IF p \in Handlers THEN tasks \cup {<<p, m>>} ELSE tasks

Duplicate(p) ==
    /\ hand[p].stage = "dedupe" /\ hand[p].message \in known[p]
    /\ hand' = [hand EXCEPT ![p] = Idle]
    /\ UNCHANGED <<shared, posted, token, queue, known, tuned, wire, tasks, handled, lost, restarts>>

Mark(p) ==
    LET m == hand[p].message IN
    /\ hand[p].stage = "dedupe" /\ m \notin known[p]
    /\ Remember(p, m)
    /\ hand' = [hand EXCEPT ![p].stage = "new"]
    /\ UNCHANGED <<shared, posted, token, queue, tuned, wire, tasks, handled, lost, restarts>>

(* Fault: a process that hears its own events leaves the dispatch to them. *)
DispatchByListener(p) ==
    /\ hand[p].stage = "new"
    /\ IF tuned[p] THEN UNCHANGED tasks ELSE Dispatch(p, hand[p].message)
    /\ hand' = [hand EXCEPT ![p].stage = "publish"]
    /\ UNCHANGED <<shared, posted, token, queue, known, tuned, wire, handled, lost, restarts>>

DispatchLocal(p) ==
    /\ hand[p].stage = "new"
    /\ Dispatch(p, hand[p].message)
    /\ hand' = [hand EXCEPT ![p].stage = "publish"]
    /\ UNCHANGED <<shared, posted, token, queue, known, tuned, wire, handled, lost, restarts>>

(* The event goes to every process that is subscribed, this one included.  *)
(* What happens between processes after that has no order to keep: the     *)
(* handlers run at the same time anyway.                                   *)
Publish(p) ==
    LET m == hand[p].message IN
    /\ hand[p].stage = "publish"
    /\ wire' = [q \in Procs |-> IF shared /\ tuned[q] THEN wire[q] \cup {<<p, m>>} ELSE wire[q]]
    /\ hand' = [hand EXCEPT ![p] = Idle]
    /\ UNCHANGED <<shared, posted, token, queue, known, tuned, tasks, handled, lost, restarts>>

(* Redis fails: the message is lost, for ever if the key was set before    *)
(* the answer failed, and the consumer goes on.  A failure of the          *)
(* publication is swallowed by the bus.                                    *)
ConsumerFails(p) ==
    /\ hand[p].stage # "idle"
    /\ hand' = [hand EXCEPT ![p] = Idle]
    /\ lost' = IF hand[p].stage = "new" THEN lost \cup {hand[p].message} ELSE lost
    /\ UNCHANGED <<shared, posted, token, queue, known, tuned, wire, tasks, handled, restarts>>

-----------------------------------------------------------------------------
(* The listener of a process.  What is published while it is not           *)
(* subscribed does not reach it.                                           *)
Tune(p) ==
    /\ shared /\ p \in Listeners /\ ~tuned[p]
    /\ tuned' = [tuned EXCEPT ![p] = TRUE]
    /\ UNCHANGED <<shared, posted, token, queue, hand, known, wire, tasks, handled, lost, restarts>>

LoseConnection(p) ==
    /\ tuned[p]
    /\ tuned' = [tuned EXCEPT ![p] = FALSE]
    /\ wire' = [wire EXCEPT ![p] = {}]
    /\ UNCHANGED <<shared, posted, token, queue, hand, known, tasks, handled, lost, restarts>>

(* Fault: a process does not know its own events again.                    *)
ReceiveAny(p) ==
    \E e \in wire[p] :
        /\ wire' = [wire EXCEPT ![p] = @ \ {e}]
        /\ Dispatch(p, e[2])
        /\ UNCHANGED <<shared, posted, token, queue, hand, known, tuned, handled, lost, restarts>>

Receive(p) ==
    \E e \in wire[p] :
        /\ wire' = [wire EXCEPT ![p] = @ \ {e}]
        /\ IF e[1] = p THEN UNCHANGED tasks ELSE Dispatch(p, e[2])
        /\ UNCHANGED <<shared, posted, token, queue, hand, known, tuned, handled, lost, restarts>>

(* A handler runs, to its end or to an exception that the bus swallows.    *)
Handle(p) ==
    \E m \in Messages :
        /\ <<p, m>> \in tasks
        /\ tasks' = tasks \ {<<p, m>>}
        /\ handled' = [handled EXCEPT ![m] = @ + 1]
        /\ UNCHANGED <<shared, posted, token, queue, hand, known, tuned, wire, lost, restarts>>

(* A process is restarted; its memory is empty.                            *)
Restart(p) ==
    /\ restarts < MaxRestarts
    /\ restarts' = restarts + 1
    /\ token' = [r \in Readers |-> IF Home[r] = p THEN None ELSE token[r]]
    /\ queue' = [queue EXCEPT ![p] = <<>>]
    /\ hand' = [hand EXCEPT ![p] = Idle]
    /\ known' = IF shared THEN known ELSE [known EXCEPT ![p] = {}]
    /\ tuned' = [tuned EXCEPT ![p] = FALSE]
    /\ wire' = [wire EXCEPT ![p] = {}]
    /\ tasks' = {t \in tasks : t[1] # p}
    /\ lost' = lost \cup {m \in Messages : <<p, m>> \in tasks \/ hand[p] = [stage |-> "new", message |-> m]}
    /\ UNCHANGED <<shared, posted, handled>>

-----------------------------------------------------------------------------
Consume(p) == Get(p) \/ Duplicate(p) \/ Mark(p) \/ DispatchLocal(p) \/ Publish(p) \/ ConsumerFails(p)

ChatNext ==
    \/ Post
    \/ \E r \in Readers : Page(r) \/ Rejoin(r)
    \/ \E p \in Procs : Consume(p) \/ Tune(p) \/ LoseConnection(p) \/ Receive(p) \/ Handle(p) \/ Restart(p)

ChatSpec == ChatInit /\ [][ChatNext]_vars

-----------------------------------------------------------------------------
(* However often a message is read, by two readers, after a reconnection   *)
(* or after a restart, and though its event comes back to the sender, it   *)
(* is handled once; with a store in memory, once in the life of a process. *)
HandledOnce ==
    \A m \in Messages : handled[m] <= IF shared THEN 1 ELSE 1 + restarts

(* A message whose id is on record, so that it will not be taken again, is *)
(* handled, or on its way to a handler of a process that has it on record, *)
(* unless its processing was cut off: then it is lost.                     *)
OnItsWay(m) ==
    \/ \E p \in Procs : hand[p] = [stage |-> "new", message |-> m]
    \/ \E p \in Handlers : <<p, m>> \in tasks

MarkedIsHandled ==
    \A p \in Handlers : \A m \in known[p] : handled[m] > 0 \/ m \in lost \/ OnItsWay(m)

(* Where one process handles what it reads, the chat keeps the promise of  *)
(* Delivery: nothing is taken twice, and what is taken and not handled is  *)
(* known to be lost.                                                       *)
StatusOf(m) ==
    IF OnItsWay(m) THEN "underway" ELSE IF \E p \in Handlers : m \in known[p] THEN "over" ELSE "new"

Status == [m \in Messages |-> StatusOf(m)]

Way == INSTANCE Delivery WITH durable <- shared, status <- Status

DeliversOnce == Way!DeliverySpec
=============================================================================
