----------------------------- MODULE DelayQueue -----------------------------
(***************************************************************************)
(* A MyDelayMsg: CommonMqInfoSender.sendDelay puts it, with its delay as   *)
(* the expiration, into the buffer queue (queueName + _delay_ttl_buffered) *)
(* that nobody consumes; MqQueueConfig gives that queue a dead-letter      *)
(* exchange whose routing key is the process queue, and MyDelayMsgConsumer *)
(* reads that one.                                                         *)
(*                                                                         *)
(* The broker is external.  What matters of it: a per-message TTL is only  *)
(* looked at when the message is at the head of its queue, and a delivery  *)
(* that was not acknowledged comes back at the head.                       *)
(***************************************************************************)
EXTENDS Integers, Sequences

CONSTANTS DelayMsgs,   \* messages, each sent at most once
          DelayOf,     \* getDelayMilliSeconds of each
          MaxAge,      \* bound: ages count no further
          MaxCrashes   \* bound: consumer crashes

ASSUME DelayAssumption == DelayOf \in [DelayMsgs -> Int]
ASSUME DelayBounds ==
    /\ {MaxAge, MaxCrashes} \subseteq Nat
    /\ \A m \in DelayMsgs : DelayOf[m] < MaxAge

VARIABLES
    unsent,        \* messages not yet given to sendDelay
    buffer,        \* the TTL buffer queue
    expiration,    \* the expiration property of each message
    age,           \* time since a message was sent
    processQueue,  \* my_delay_msg_queue
    inHand,        \* the message the consumer works on, as a sequence
    consumed,      \* messages process has returned from
    crashes

delayVars == <<unsent, buffer, expiration, age, processQueue, inHand, consumed, crashes>>

Elements(q) == {q[i] : i \in 1 .. Len(q)}

DelayInit ==
    /\ unsent = DelayMsgs
    /\ buffer = << >>
    /\ expiration = [m \in DelayMsgs |-> 0]
    /\ age = [m \in DelayMsgs |-> 0]
    /\ processQueue = << >>
    /\ inHand = << >>
    /\ consumed = {}
    /\ crashes = 0

-----------------------------------------------------------------------------

\* Mutant of SendDelay: the routing key lacks the suffix of the buffer queue.
SendDelayUnbuffered(m) ==
    /\ m \in unsent
    /\ DelayOf[m] >= 0
    /\ unsent' = unsent \ {m}
    /\ processQueue' = Append(processQueue, m)
    /\ expiration' = [expiration EXCEPT ![m] = DelayOf[m]]
    /\ UNCHANGED <<buffer, age, inHand, consumed, crashes>>

\* sendDelay: the message is buffered with its expiration.
SendDelay(m) ==
    /\ m \in unsent
    /\ DelayOf[m] >= 0
    /\ unsent' = unsent \ {m}
    /\ buffer' = Append(buffer, m)
    /\ expiration' = [expiration EXCEPT ![m] = DelayOf[m]]
    /\ UNCHANGED <<age, processQueue, inHand, consumed, crashes>>

\* sendDelay: the broker refuses the message (always a negative expiration) or
\* cannot be reached; the exception is logged and swallowed.
SendFails(m) ==
    /\ m \in unsent
    /\ unsent' = unsent \ {m}
    /\ UNCHANGED <<buffer, expiration, age, processQueue, inHand, consumed, crashes>>

\* Has the head of the buffer reached its TTL?
HeadExpired == buffer # << >> /\ age[Head(buffer)] >= expiration[Head(buffer)]

\* Mutant of DeadLetter: no x-dead-letter-routing-key, so the exchange uses the
\* message's own key, the buffer queue.
DeadLetterToBuffer ==
    /\ HeadExpired
    /\ buffer' = Append(Tail(buffer), Head(buffer))
    /\ UNCHANGED <<unsent, expiration, age, processQueue, inHand, consumed, crashes>>

\* The head is dead-lettered: exchange "", routing key of the process queue.
DeadLetter ==
    /\ HeadExpired
    /\ buffer' = Tail(buffer)
    /\ processQueue' = Append(processQueue, Head(buffer))
    /\ UNCHANGED <<unsent, expiration, age, inHand, consumed, crashes>>

\* MyDelayMsgConsumer.process is called ...
DeliverDelayed ==
    /\ inHand = << >>
    /\ processQueue # << >>
    /\ inHand' = <<Head(processQueue)>>
    /\ processQueue' = Tail(processQueue)
    /\ UNCHANGED <<unsent, buffer, expiration, age, consumed, crashes>>

\* ... and returns: the container acknowledges.
ProcessDelayed ==
    /\ inHand # << >>
    /\ consumed' = consumed \cup Elements(inHand)
    /\ inHand' = << >>
    /\ UNCHANGED <<unsent, buffer, expiration, age, processQueue, crashes>>

\* The consumer dies before or after it returned, but before the ack.
ConsumerCrash ==
    /\ crashes < MaxCrashes
    /\ inHand # << >>
    /\ \E done \in {{}, Elements(inHand)} : consumed' = consumed \cup done
    /\ processQueue' = inHand \o processQueue
    /\ inHand' = << >>
    /\ crashes' = crashes + 1
    /\ UNCHANGED <<unsent, buffer, expiration, age>>

\* Time passes; a broker without load has expired the head by then.
Tick ==
    /\ ~HeadExpired
    /\ \E m \in DelayMsgs \ unsent : age[m] < MaxAge
    /\ age' = [m \in DelayMsgs |-> IF m \notin unsent /\ age[m] < MaxAge
                                   THEN age[m] + 1 ELSE age[m]]
    /\ UNCHANGED <<unsent, buffer, expiration, processQueue, inHand, consumed,
                   crashes>>

DelayNext ==
    \/ \E m \in DelayMsgs : SendDelay(m) \/ SendFails(m)
    \/ DeadLetter \/ DeliverDelayed \/ ProcessDelayed \/ ConsumerCrash \/ Tick

DelaySpec == DelayInit /\ [][DelayNext]_delayVars

\* Time passes, the broker expires heads and delivers, the consumer returns.
DelayFairness == WF_delayVars(Tick) /\ WF_delayVars(DeadLetter) /\ WF_delayVars(DeliverDelayed) /\ WF_delayVars(ProcessDelayed)

DelayFairSpec == DelaySpec /\ DelayFairness

-----------------------------------------------------------------------------
(* Properties *)

\* Every variable keeps its type.
DelayTypeOK ==
    /\ unsent \subseteq DelayMsgs
    /\ {buffer, processQueue, inHand} \subseteq Seq(DelayMsgs)
    /\ expiration \in [DelayMsgs -> Nat]
    /\ age \in [DelayMsgs -> 0 .. MaxAge]
    /\ consumed \subseteq DelayMsgs
    /\ crashes \in 0 .. MaxCrashes

\* A message is in one place only, and there once: no queue holds what another
\* holds or what was not sent yet.
Distinct(q) == \A i, j \in 1 .. Len(q) : q[i] = q[j] => i = j
OnePlace ==
    /\ Distinct(buffer) /\ Distinct(processQueue) /\ Distinct(inHand)
    /\ Elements(buffer) \cap Elements(processQueue) = {}
    /\ Elements(buffer) \cap Elements(inHand) = {}
    /\ Elements(processQueue) \cap Elements(inHand) = {}
    /\ unsent \cap (Elements(buffer) \cup Elements(processQueue) \cup Elements(inHand)) = {}

\* The consumer never sees a message before its delay is over, and a prompt broker
\* holds one back no longer than the latest end of delay among the messages sent
\* up to it: something sent no later is not yet overdue.
OnTime ==
    /\ \A m \in Elements(processQueue \o inHand) \cup consumed : age[m] >= DelayOf[m]
    /\ \A m \in Elements(buffer) :
          \E x \in Elements(buffer \o processQueue \o inHand) \cup consumed :
              age[x] >= age[m] /\ age[x] <= DelayOf[x]

\* Whatever is buffered is processed in the end, whatever crashes.
EventuallyConsumed ==
    \A m \in DelayMsgs : m \in Elements(buffer) ~> m \in consumed
=============================================================================
