--------------------------- MODULE SimpleMsgQueue ---------------------------
(***************************************************************************)
(* A MySimpleMsg from CommonMqInfoSender.send through the RabbitMQ queue   *)
(* my_simple_msg_queue to MySimpleMsgConsumer.process on several nodes,    *)
(* which acknowledge by hand: the first time a node sees a key it handles  *)
(* the message, remembers the key in rejectMsgMap and rejects it back into *)
(* the queue; when it sees the key again it acknowledges.                  *)
(*                                                                         *)
(* The broker is external: it may hand a waiting message to any live       *)
(* consumer (the rejecting one included) and takes back what a dead        *)
(* channel had not acknowledged.  Wall-clock time appears only as "created *)
(* more than ten minutes ago", which the cleaner of rejectMsgMap asks.     *)
(***************************************************************************)
EXTENDS Naturals, FiniteSets

CONSTANTS Nodes,      \* consumer processes
          Msgs,       \* messages sent, each at most once
          Keys,       \* notifyMsgKeys
          KeyOf,      \* title + content of each message
          Prefetch,   \* unacknowledged deliveries the broker allows a node
          MaxFaults,  \* bound: crashes and failed channel calls
          MaxCount,   \* bound: deliveries counts no further
          None

ASSUME KeyOfAssumption == KeyOf \in [Msgs -> Keys]
ASSUME BoundsAssumption == Prefetch \in Nat \ {0} /\ {MaxFaults, MaxCount} \subseteq Nat
ASSUME FiniteAssumption == IsFiniteSet(Nodes) /\ IsFiniteSet(Msgs)
ASSUME NoneAssumption == None \notin Nodes /\ None \notin Msgs

VARIABLES
    stage,         \* how far each message is
    at,            \* the node that holds its delivery, or None
    old,           \* createTime + 10 minutes is before now
    rejectMsgMap,  \* per node: the message remembered under each key, or None
    up,            \* which nodes run
    handled,       \* messages whose first-hit branch ran somewhere (history)
    deliveries,    \* deliveries of each message so far (history)
    cleaned,       \* did the cleaner ever remove something (history)
    faults         \* crashes and failed channel calls so far

vars == <<stage, at, old, rejectMsgMap, up, handled, deliveries,
          cleaned, faults>>

\* "put", "reject" and "ack" are the points inside process (lines 54, 56, 62);
\* in "limbo" process has returned but the broker heard neither ack nor reject.
Stages == {"unsent", "dropped", "ready", "delivered", "put", "reject", "ack",
           "limbo", "acked"}
InProcess == {"put", "reject", "ack"}
Unacked   == InProcess \cup {"delivered", "limbo"}

Init ==
    /\ stage = [m \in Msgs |-> "unsent"]
    /\ at = [m \in Msgs |-> None]
    /\ old = [m \in Msgs |-> FALSE]
    /\ rejectMsgMap = [n \in Nodes |-> [k \in Keys |-> None]]
    /\ up = Nodes
    /\ handled = {}
    /\ deliveries = [m \in Msgs |-> 0]
    /\ cleaned = FALSE
    /\ faults = 0

-----------------------------------------------------------------------------
(* Sender and broker *)

\* send: the message is in the queue, or an exception was logged and swallowed
\* (the controller answers true either way).
Send(m) ==
    /\ stage[m] = "unsent"
    /\ \E s \in {"ready", "dropped"} : stage' = [stage EXCEPT ![m] = s]
    /\ UNCHANGED <<at, old, rejectMsgMap, up, handled, deliveries,
                   cleaned, faults>>

\* The broker hands a waiting message to any node with room.
Deliver(n, m) ==
    /\ stage[m] = "ready"
    /\ n \in up
    /\ Cardinality({x \in Msgs : at[x] = n}) < Prefetch
    /\ stage' = [stage EXCEPT ![m] = "delivered"]
    /\ at' = [at EXCEPT ![m] = n]
    /\ deliveries' = [deliveries EXCEPT ![m] = IF @ < MaxCount THEN @ + 1 ELSE @]
    /\ UNCHANGED <<old, rejectMsgMap, up, handled, cleaned, faults>>

\* n's channel is gone: the broker puts back all it had not acknowledged.
Requeue(n) ==
    /\ stage' = [m \in Msgs |-> IF at[m] = n THEN "ready" ELSE stage[m]]
    /\ at' = [m \in Msgs |-> IF at[m] = n THEN None ELSE at[m]]

\* A channel on which a call failed closes sooner or later.
ChannelCloses(n) ==
    /\ \E m \in Msgs : at[m] = n /\ stage[m] = "limbo"
    /\ \A m \in Msgs : at[m] = n => stage[m] \notin InProcess
    /\ Requeue(n)
    /\ UNCHANGED <<old, rejectMsgMap, up, handled, deliveries,
                   cleaned, faults>>

\* The message passes the age of ten minutes.
GrowOld(m) ==
    /\ stage[m] \notin {"unsent", "dropped"}
    /\ ~old[m]
    /\ old' = [old EXCEPT ![m] = TRUE]
    /\ UNCHANGED <<stage, at, rejectMsgMap, up, handled, deliveries,
                   cleaned, faults>>

-----------------------------------------------------------------------------
(* process *)

\* The container has one consumer thread (setConcurrentConsumers(1)).
ThreadFree(n) == \A m \in Msgs : at[m] = n => stage[m] \notin InProcess

\* Mutant of Check: the two branches are swapped.
CheckSwapped(n, m) ==
    /\ stage[m] = "delivered"
    /\ at[m] = n
    /\ ThreadFree(n)
    /\ \/ /\ rejectMsgMap[n][KeyOf[m]] # None
          /\ stage' = [stage EXCEPT ![m] = "put"]
          /\ handled' = handled \cup {m}
       \/ /\ rejectMsgMap[n][KeyOf[m]] = None
          /\ stage' = [stage EXCEPT ![m] = "ack"]
          /\ UNCHANGED handled
    /\ UNCHANGED <<at, old, rejectMsgMap, up, deliveries, cleaned,
                   faults>>

\* containsKey: an unknown key goes to the first-hit branch, a known one to ack.
Check(n, m) ==
    /\ stage[m] = "delivered"
    /\ at[m] = n
    /\ ThreadFree(n)
    /\ \/ /\ rejectMsgMap[n][KeyOf[m]] = None
          /\ stage' = [stage EXCEPT ![m] = "put"]
          /\ handled' = handled \cup {m}
       \/ /\ rejectMsgMap[n][KeyOf[m]] # None
          /\ stage' = [stage EXCEPT ![m] = "ack"]
          /\ UNCHANGED handled
    /\ UNCHANGED <<at, old, rejectMsgMap, up, deliveries, cleaned,
                   faults>>

\* Mutant of Put: the key is not remembered.
PutNothing(n, m) ==
    /\ stage[m] = "put"
    /\ at[m] = n
    /\ stage' = [stage EXCEPT ![m] = "reject"]
    /\ UNCHANGED <<at, old, rejectMsgMap, up, handled, deliveries,
                   cleaned, faults>>

\* rejectMsgMap.put
Put(n, m) ==
    /\ stage[m] = "put"
    /\ at[m] = n
    /\ rejectMsgMap' = [rejectMsgMap EXCEPT ![n][KeyOf[m]] = m]
    /\ stage' = [stage EXCEPT ![m] = "reject"]
    /\ UNCHANGED <<at, old, up, handled, deliveries, cleaned, faults>>

\* basicReject(deliveryTag, true): back into the queue.
Reject(n, m) ==
    /\ stage[m] = "reject"
    /\ at[m] = n
    /\ stage' = [stage EXCEPT ![m] = "ready"]
    /\ at' = [at EXCEPT ![m] = None]
    /\ UNCHANGED <<old, rejectMsgMap, up, handled, deliveries, cleaned, faults>>

\* basicAck(deliveryTag, false): the broker forgets the message.
Ack(n, m) ==
    /\ stage[m] = "ack"
    /\ at[m] = n
    /\ stage' = [stage EXCEPT ![m] = "acked"]
    /\ at' = [at EXCEPT ![m] = None]
    /\ UNCHANGED <<old, rejectMsgMap, up, handled, deliveries,
                   cleaned, faults>>

\* basicReject or basicAck throws: caught, printed, nothing else.
ChannelCallFails(n, m) ==
    /\ faults < MaxFaults
    /\ stage[m] \in {"reject", "ack"}
    /\ at[m] = n
    /\ stage' = [stage EXCEPT ![m] = "limbo"]
    /\ faults' = faults + 1
    /\ UNCHANGED <<at, old, rejectMsgMap, up, handled, deliveries,
                   cleaned>>

-----------------------------------------------------------------------------
(* The scheduled cleaner, crashes *)

\* The cleaner's loop body for one key, between any two steps of process.
Clean(n, k) ==
    /\ n \in up
    /\ rejectMsgMap[n][k] # None
    /\ old[rejectMsgMap[n][k]]
    /\ rejectMsgMap' = [rejectMsgMap EXCEPT ![n][k] = None]
    /\ cleaned' = TRUE
    /\ UNCHANGED <<stage, at, old, up, handled, deliveries, faults>>

\* The node dies: rejectMsgMap is lost, its deliveries go back.
Crash(n) ==
    /\ faults < MaxFaults
    /\ n \in up
    /\ up' = up \ {n}
    /\ rejectMsgMap' = [rejectMsgMap EXCEPT ![n] = [k \in Keys |-> None]]
    /\ Requeue(n)
    /\ faults' = faults + 1
    /\ UNCHANGED <<old, handled, deliveries, cleaned>>

Restart(n) ==
    /\ n \notin up
    /\ up' = up \cup {n}
    /\ UNCHANGED <<stage, at, old, rejectMsgMap, handled, deliveries,
                   cleaned, faults>>

-----------------------------------------------------------------------------

Process(n, m) == Check(n, m) \/ Put(n, m) \/ Reject(n, m) \/ Ack(n, m)

Cleaner == \E n \in Nodes, k \in Keys : Clean(n, k)

Next ==
    \/ \E m \in Msgs : Send(m) \/ GrowOld(m)
    \/ \E n \in Nodes :
          \/ ChannelCloses(n) \/ Crash(n) \/ Restart(n)
          \/ \E m \in Msgs : Deliver(n, m) \/ Process(n, m) \/ ChannelCallFails(n, m)
    \/ Cleaner

Spec == Init /\ [][Next]_vars

\* The broker delivers what waits, the consumer thread runs, dead channels
\* close, dead nodes come back.  Nothing is assumed of senders, of the cleaner,
\* of faults, or of which node the broker chooses.
Fairness ==
    /\ \A m \in Msgs : WF_vars(\E n \in Nodes : Deliver(n, m))
    /\ \A n \in Nodes : WF_vars(ChannelCloses(n)) /\ WF_vars(Restart(n))
    /\ \A n \in Nodes, m \in Msgs : WF_vars(Process(n, m))

FairSpec == Spec /\ Fairness

-----------------------------------------------------------------------------
(* Properties *)

\* Every variable keeps its type, and a message has a holder exactly while it
\* is delivered and unacknowledged.
TypeOK ==
    /\ stage \in [Msgs -> Stages]
    /\ at \in [Msgs -> Nodes \cup {None}]
    /\ old \in [Msgs -> BOOLEAN]
    /\ rejectMsgMap \in [Nodes -> [Keys -> Msgs \cup {None}]]
    /\ up \subseteq Nodes
    /\ handled \subseteq Msgs
    /\ deliveries \in [Msgs -> 0 .. MaxCount]
    /\ cleaned \in BOOLEAN
    /\ faults \in 0 .. MaxFaults
    /\ \A m \in Msgs : at[m] # None <=> stage[m] \in Unacked

\* No message leaves the queue unhandled: when one is acknowledged, the
\* first-hit branch has run on some node for a message with the same key,
\* whatever crashed, was cleaned or was redelivered in between.
AckedWasHandled ==
    \A m \in Msgs : stage[m] = "acked" =>
        \E x \in handled : KeyOf[x] = KeyOf[m]

\* containsKey's answer is not stale when the put it allows is made: with the
\* cleaner and redeliveries going on, a node still runs the first-hit branch of
\* a key once until it forgets the key.
CheckNotStale ==
    \A n \in Nodes, m \in Msgs :
        stage[m] = "put" /\ at[m] = n => rejectMsgMap[n][KeyOf[m]] = None

\* Reject-and-requeue is no endless loop: until the cleaner removes something,
\* a message is delivered at most once per node and once more for the ack, and
\* at most twice more per fault.
BoundedRedelivery ==
    ~cleaned =>
        \A m \in Msgs : deliveries[m] <= Cardinality(Nodes) + 1 + 2 * faults

\* A message in the queue is acknowledged in the end, unless the cleaner makes
\* the nodes forget it again and again.
EventuallyAcked ==
    \/ []<><<Cleaner>>_vars
    \/ \A m \in Msgs : stage[m] = "ready" ~> stage[m] = "acked"
=============================================================================
