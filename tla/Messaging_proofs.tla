--------------------------- MODULE Messaging_proofs ---------------------------
(***************************************************************************)
(* Proofs about what the repository sends: SimpleMsgQueue, for any nodes,  *)
(* messages, keys and bounds, DelayQueue, for any messages, delays and     *)
(* bounds, and HttpChannelClient, for any finite set of calls and any size *)
(* of the pool.                                                            *)
(***************************************************************************)
EXTENDS SimpleMsgQueue, DelayQueue, HttpChannelClient, FiniteSetTheorems, TLAPS

-----------------------------------------------------------------------------
(* SimpleMsgQueue. *)

\* What rejectMsgMap remembers under a key is a message of that key that was
\* handled, and process gets to ack or reject only behind such a message.
RememberedWasHandled ==
    /\ \A n \in Nodes, k \in Keys :
          rejectMsgMap[n][k] # None =>
              /\ KeyOf[rejectMsgMap[n][k]] = k
              /\ rejectMsgMap[n][k] \in handled
    /\ \A m \in Msgs :
          /\ stage[m] \in {"put", "reject"} => m \in handled
          /\ stage[m] \in {"ack", "acked"} => \E x \in handled : KeyOf[x] = KeyOf[m]

\* One thread per node: two messages inside process are on two nodes.
OneInProcess ==
    \A l, m \in Msgs :
        stage[l] \in InProcess /\ stage[m] \in InProcess /\ at[l] = at[m] => l = m

Safe == TypeOK /\ RememberedWasHandled /\ OneInProcess /\ CheckNotStale

LEMMA InitSafe == Init => Safe
  <1> SUFFICES ASSUME Init PROVE Safe
    OBVIOUS
  <1>1. TypeOK
    <2>1. 0 \in 0 .. MaxCount /\ 0 \in 0 .. MaxFaults
      BY BoundsAssumption
    <2> QED  BY <2>1 DEF Init, TypeOK, Stages, Unacked, InProcess
  <1>2. RememberedWasHandled /\ OneInProcess /\ CheckNotStale
    BY DEF Init, RememberedWasHandled, OneInProcess, CheckNotStale, InProcess
  <1> QED  BY <1>1, <1>2 DEF Safe

\* Steps of sender, broker and clock that move no message into process.
LEMMA BrokerSteps ==
  ASSUME Safe, NEW m \in Msgs,
         Send(m) \/ GrowOld(m) \/ \E n \in Nodes : Deliver(n, m)
  PROVE  Safe'
  <1> USE NoneAssumption, KeyOfAssumption, BoundsAssumption
  <1>1. TypeOK'
    <2>1. CASE Send(m)
      BY <2>1 DEF Safe, TypeOK, Send, Stages, Unacked, InProcess
    <2>2. CASE GrowOld(m)
      BY <2>2 DEF Safe, TypeOK, GrowOld
    <2>3. ASSUME NEW n \in Nodes, Deliver(n, m) PROVE TypeOK'
      <3>1. deliveries' \in [Msgs -> 0 .. MaxCount]
        BY <2>3 DEF Safe, TypeOK, Deliver
      <3> QED
        BY <2>3, <3>1 DEF Safe, TypeOK, Deliver, Stages, Unacked, InProcess
    <2> QED  BY <2>1, <2>2, <2>3
  <1>2. stage' \in [Msgs -> Stages] /\ UNCHANGED <<rejectMsgMap, handled>>
    BY <1>1 DEF TypeOK, Send, GrowOld, Deliver
  <1>3. \A x \in Msgs :
           stage'[x] \in InProcess \cup {"acked"}
             => stage'[x] = stage[x] /\ at'[x] = at[x]
    <2>1. CASE Send(m) \/ GrowOld(m)
      BY <2>1 DEF Safe, TypeOK, Send, GrowOld, InProcess
    <2>2. ASSUME NEW n \in Nodes, Deliver(n, m)
          PROVE  \A x \in Msgs :
                    stage'[x] \in InProcess \cup {"acked"}
                      => stage'[x] = stage[x] /\ at'[x] = at[x]
      BY <2>2 DEF Safe, TypeOK, Deliver, InProcess
    <2> QED  BY <2>1, <2>2
  <1>4. RememberedWasHandled'
    BY <1>2, <1>3 DEF Safe, RememberedWasHandled, InProcess
  <1>5. OneInProcess' /\ CheckNotStale'
    BY <1>2, <1>3 DEF Safe, OneInProcess, CheckNotStale, InProcess
  <1> QED  BY <1>1, <1>4, <1>5 DEF Safe

\* A closed channel gives messages back and changes nothing they rest on.
LEMMA RequeueSafe ==
  ASSUME Safe, NEW n \in Nodes, Requeue(n), UNCHANGED handled,
         \A l \in Nodes, k \in Keys :
             rejectMsgMap'[l][k] = rejectMsgMap[l][k] \/ (l = n /\ rejectMsgMap'[l][k] = None)
  PROVE  RememberedWasHandled' /\ OneInProcess' /\ CheckNotStale'
  <1> USE NoneAssumption, KeyOfAssumption
  <1>1. RememberedWasHandled'
    BY DEF Safe, TypeOK, Requeue, RememberedWasHandled
  <1>2. OneInProcess' /\ CheckNotStale'
    BY DEF Safe, TypeOK, Requeue, OneInProcess, CheckNotStale, InProcess
  <1> QED  BY <1>1, <1>2

LEMMA CheckStep ==
  ASSUME Safe, NEW m \in Msgs, NEW n \in Nodes, Check(n, m)
  PROVE  Safe'
  <1> USE NoneAssumption, KeyOfAssumption
  <1>1. TypeOK'
    BY DEF Safe, TypeOK, Check, Stages, Unacked, InProcess
  <1>2. RememberedWasHandled'
    <2>1. CASE stage'[m] = "put"
      BY <2>1 DEF Safe, TypeOK, Check, RememberedWasHandled
    <2>2. CASE stage'[m] # "put"
      BY <2>2 DEF Safe, TypeOK, Check, RememberedWasHandled
    <2> QED  BY <2>1, <2>2
  <1>3. OneInProcess'
    BY DEF Safe, TypeOK, Check, OneInProcess, ThreadFree
  <1>4. CheckNotStale'
    BY DEF Safe, TypeOK, Check, CheckNotStale
  <1> QED  BY <1>1, <1>2, <1>3, <1>4 DEF Safe

LEMMA PutStep ==
  ASSUME Safe, NEW m \in Msgs, NEW n \in Nodes, Put(n, m)
  PROVE  Safe'
  <1> USE NoneAssumption, KeyOfAssumption
  <1>1. TypeOK'
    BY DEF Safe, TypeOK, Put, Stages, Unacked, InProcess
  <1>2. RememberedWasHandled'
    BY DEF Safe, TypeOK, Put, RememberedWasHandled
  <1>3. OneInProcess'
    BY DEF Safe, TypeOK, Put, OneInProcess, InProcess
  <1>4. CheckNotStale'
    BY DEF Safe, TypeOK, Put, OneInProcess, CheckNotStale, InProcess
  <1> QED  BY <1>1, <1>2, <1>3, <1>4 DEF Safe

\* The calls on the channel.
LEMMA ChannelSteps ==
  ASSUME Safe, NEW m \in Msgs, NEW n \in Nodes,
         Reject(n, m) \/ Ack(n, m) \/ ChannelCallFails(n, m)
  PROVE  Safe'
  <1> USE NoneAssumption, KeyOfAssumption, BoundsAssumption
  <1>1. TypeOK'
    <2>1. CASE Reject(n, m)
      BY <2>1 DEF Safe, TypeOK, Reject, Stages, Unacked, InProcess
    <2>2. CASE Ack(n, m)
      BY <2>2 DEF Safe, TypeOK, Ack, Stages, Unacked, InProcess
    <2>3. CASE ChannelCallFails(n, m)
      BY <2>3 DEF Safe, TypeOK, ChannelCallFails, Stages, Unacked, InProcess
    <2> QED  BY <2>1, <2>2, <2>3
  <1>2. RememberedWasHandled'
    BY DEF Safe, TypeOK, Reject, Ack, ChannelCallFails, RememberedWasHandled
  <1>3. \A x \in Msgs :
           stage'[x] \in InProcess => stage'[x] = stage[x] /\ at'[x] = at[x]
    BY DEF Safe, TypeOK, Reject, Ack, ChannelCallFails, InProcess
  <1>4. UNCHANGED rejectMsgMap
    BY DEF Reject, Ack, ChannelCallFails
  <1>5. OneInProcess' /\ CheckNotStale'
    BY <1>3, <1>4 DEF Safe, OneInProcess, CheckNotStale, InProcess
  <1> QED  BY <1>1, <1>2, <1>5 DEF Safe

\* Closing channels, crashes, restarts and the cleaner.
LEMMA NodeSteps ==
  ASSUME Safe, NEW n \in Nodes,
         ChannelCloses(n) \/ Crash(n) \/ Restart(n) \/ \E k \in Keys : Clean(n, k)
  PROVE  Safe'
  <1> USE NoneAssumption, KeyOfAssumption, BoundsAssumption
  <1>1. CASE ChannelCloses(n)
    <2>1. TypeOK'
      BY <1>1 DEF Safe, TypeOK, ChannelCloses, Requeue, Stages, Unacked, InProcess
    <2> QED  BY <1>1, <2>1, RequeueSafe DEF ChannelCloses, Safe
  <1>2. CASE Crash(n)
    <2>1. TypeOK'
      BY <1>2 DEF Safe, TypeOK, Crash, Requeue, Stages, Unacked, InProcess
    <2>2. \A l \in Nodes, k \in Keys :
             \/ rejectMsgMap'[l][k] = rejectMsgMap[l][k]
             \/ l = n /\ rejectMsgMap'[l][k] = None
      BY <1>2 DEF Crash, Safe, TypeOK
    <2> QED  BY <1>2, <2>1, <2>2, RequeueSafe DEF Crash, Safe
  <1>3. CASE Restart(n)
    BY <1>3 DEF Safe, TypeOK, Restart, RememberedWasHandled, OneInProcess, CheckNotStale
  <1>4. ASSUME NEW k \in Keys, Clean(n, k) PROVE Safe'
    <2>1. TypeOK'
      BY <1>4 DEF Safe, TypeOK, Clean
    <2>2. RememberedWasHandled' /\ OneInProcess' /\ CheckNotStale'
      BY <1>4 DEF Safe, TypeOK, Clean, RememberedWasHandled, OneInProcess, CheckNotStale
    <2> QED  BY <2>1, <2>2 DEF Safe
  <1> QED  BY <1>1, <1>2, <1>3, <1>4

LEMMA SafeInvariant == Spec => []Safe
  <1>1. Safe /\ [Next]_vars => Safe'
    <2> SUFFICES ASSUME Safe, [Next]_vars PROVE Safe'
      OBVIOUS
    <2>1. CASE UNCHANGED vars
      BY <2>1 DEF vars, Safe, TypeOK, RememberedWasHandled, OneInProcess, CheckNotStale
    <2>2. ASSUME NEW m \in Msgs, Send(m) \/ GrowOld(m) PROVE Safe'
      BY <2>2, BrokerSteps
    <2>3. ASSUME NEW n \in Nodes, ChannelCloses(n) \/ Crash(n) \/ Restart(n)
          PROVE  Safe'
      BY <2>3, NodeSteps
    <2>4. ASSUME NEW n \in Nodes, NEW m \in Msgs,
                 Deliver(n, m) \/ Process(n, m) \/ ChannelCallFails(n, m)
          PROVE  Safe'
      BY <2>4, BrokerSteps, CheckStep, PutStep, ChannelSteps DEF Process
    <2>5. CASE Cleaner
      BY <2>5, NodeSteps DEF Cleaner
    <2> QED  BY <2>1, <2>2, <2>3, <2>4, <2>5 DEF Next
  <1> QED  BY InitSafe, <1>1, PTL DEF Spec

\* All variables keep their types, and only unacknowledged messages have a holder.
THEOREM TypeCorrect == Spec => []TypeOK
  <1> Safe => TypeOK  BY DEF Safe
  <1> QED  BY SafeInvariant, PTL

\* No message is acknowledged before one of its key was handled, whatever the
\* nodes, the faults and the cleaner do.
THEOREM AckedWasHandledHolds == Spec => []AckedWasHandled
  <1> Safe => AckedWasHandled
    BY DEF Safe, RememberedWasHandled, AckedWasHandled
  <1> QED  BY SafeInvariant, PTL

\* With one thread per node the answer of containsKey stays true until put.
THEOREM CheckNotStaleHolds == Spec => []CheckNotStale
  <1> Safe => CheckNotStale  BY DEF Safe
  <1> QED  BY SafeInvariant, PTL

-----------------------------------------------------------------------------
(* Redelivery.  A delivery is paid for by the node that remembers the key    *)
(* after it, by the fault that spoils it, or it is the last one, on its way  *)
(* to the ack.  A fault pays twice: a crash also makes a node forget, and a  *)
(* failed call leaves a channel that will close and spoil other deliveries.  *)

Remembering(m) == {n \in Nodes : rejectMsgMap[n][KeyOf[m]] # None}
Limbo == {m \in Msgs : stage[m] = "limbo"}
Unpaid(m) == IF stage[m] \in {"delivered", "put", "ack", "acked", "limbo"} THEN 1 ELSE 0

Paid == \A m \in Msgs :
    deliveries[m] + Cardinality(Limbo) <= Cardinality(Remembering(m)) + Unpaid(m) + 2 * faults

LEMMA InitPaid == Init => Paid
  <1> SUFFICES ASSUME Init, NEW m \in Msgs
               PROVE  deliveries[m] + Cardinality(Limbo)
                        <= Cardinality(Remembering(m)) + Unpaid(m) + 2 * faults
    BY DEF Paid
  <1>1. deliveries[m] = 0 /\ faults = 0 /\ Unpaid(m) = 0 /\ Limbo = {} /\ KeyOf[m] \in Keys
    BY KeyOfAssumption DEF Init, Unpaid, Limbo
  <1>2. Remembering(m) = {}
    BY <1>1 DEF Init, Remembering
  <1> QED  BY <1>1, <1>2, FS_EmptySet

\* All numbers are natural, now and after a step.
LEMMA Sizes ==
  ASSUME Safe, Safe', NEW m \in Msgs
  PROVE  /\ Cardinality(Limbo) \in Nat /\ Cardinality(Limbo') \in Nat
         /\ Cardinality(Remembering(m)) \in Nat /\ Cardinality(Remembering(m)') \in Nat
         /\ Unpaid(m) \in {0, 1} /\ Unpaid(m)' \in {0, 1}
         /\ deliveries[m] \in Nat /\ deliveries'[m] \in Nat /\ faults \in Nat /\ faults' \in Nat
  <1>1. Limbo \subseteq Msgs /\ Limbo' \subseteq Msgs
    BY DEF Limbo
  <1>2. Remembering(m) \subseteq Nodes /\ Remembering(m)' \subseteq Nodes
    BY DEF Remembering
  <1>3. /\ IsFiniteSet(Limbo) /\ IsFiniteSet(Limbo')
        /\ IsFiniteSet(Remembering(m)) /\ IsFiniteSet(Remembering(m)')
    BY <1>1, <1>2, FiniteAssumption, FS_Subset
  <1>4. /\ Cardinality(Limbo) \in Nat /\ Cardinality(Limbo') \in Nat
        /\ Cardinality(Remembering(m)) \in Nat /\ Cardinality(Remembering(m)') \in Nat
    BY <1>3, FS_CardinalityType
  <1>5. Unpaid(m) \in {0, 1} /\ Unpaid(m)' \in {0, 1}
    BY DEF Unpaid
  <1>6. /\ deliveries[m] \in Nat /\ deliveries'[m] \in Nat
        /\ faults \in Nat /\ faults' \in Nat
    BY BoundsAssumption DEF Safe, TypeOK
  <1> QED  BY <1>4, <1>5, <1>6

LEMMA Finite ==
  /\ IsFiniteSet(Limbo) /\ IsFiniteSet(Limbo')
  /\ \A m \in Msgs : IsFiniteSet(Remembering(m)) /\ IsFiniteSet(Remembering(m)')
  <1>1. Limbo \subseteq Msgs /\ Limbo' \subseteq Msgs
    BY DEF Limbo
  <1>2. \A m \in Msgs : Remembering(m) \subseteq Nodes /\ Remembering(m)' \subseteq Nodes
    BY DEF Remembering
  <1> QED  BY <1>1, <1>2, FiniteAssumption, FS_Subset

\* Sending, ageing and what process does besides put: nothing that is counted changes.
LEMMA QuietPaid ==
  ASSUME Safe, Safe', Paid, NEW l \in Msgs,
         Send(l) \/ GrowOld(l) \/ \E n \in Nodes : Reject(n, l) \/ Ack(n, l) \/ Check(n, l)
  PROVE  Paid'
  <1> SUFFICES ASSUME NEW m \in Msgs
               PROVE  (deliveries[m] + Cardinality(Limbo)
                        <= Cardinality(Remembering(m)) + Unpaid(m) + 2 * faults)'
    BY DEF Paid
  <1>1. UNCHANGED <<deliveries, faults, rejectMsgMap>>
    BY DEF Send, GrowOld, Reject, Ack, Check
  <1>2. Limbo' = Limbo /\ Unpaid(m)' = Unpaid(m)
    BY DEF Safe, TypeOK, Send, GrowOld, Reject, Ack, Check, Limbo, Unpaid
  <1>3. Remembering(m)' = Remembering(m)
    BY <1>1 DEF Remembering
  <1> QED  BY <1>1, <1>2, <1>3 DEF Paid

LEMMA DeliverPaid ==
  ASSUME Safe, Safe', Paid, NEW l \in Msgs, NEW n \in Nodes, Deliver(n, l)
  PROVE  Paid'
  <1> SUFFICES ASSUME NEW m \in Msgs
               PROVE  (deliveries[m] + Cardinality(Limbo)
                        <= Cardinality(Remembering(m)) + Unpaid(m) + 2 * faults)'
    BY DEF Paid
  <1>1. Limbo' = Limbo /\ Remembering(m)' = Remembering(m) /\ faults' = faults
    BY DEF Safe, TypeOK, Deliver, Limbo, Remembering
  <1>2. CASE m = l
    <2>1. Unpaid(m) = 0 /\ Unpaid(m)' = 1
      BY <1>2 DEF Safe, TypeOK, Deliver, Unpaid
    <2>2. deliveries'[m] = deliveries[m] + 1 \/ deliveries'[m] = deliveries[m]
      BY <1>2 DEF Safe, TypeOK, Deliver
    <2> QED  BY <1>1, <2>1, <2>2, Sizes DEF Paid
  <1>3. CASE m # l
    <2>1. Unpaid(m)' = Unpaid(m) /\ deliveries'[m] = deliveries[m]
      BY <1>3 DEF Safe, TypeOK, Deliver, Unpaid
    <2> QED  BY <1>1, <2>1 DEF Paid
  <1> QED  BY <1>2, <1>3

\* A node that did not remember the key does now, and that pays.
LEMMA PutPaid ==
  ASSUME Safe, Safe', Paid, NEW l \in Msgs, NEW n \in Nodes, Put(n, l)
  PROVE  Paid'
  <1> SUFFICES ASSUME NEW m \in Msgs
               PROVE  (deliveries[m] + Cardinality(Limbo)
                        <= Cardinality(Remembering(m)) + Unpaid(m) + 2 * faults)'
    BY DEF Paid
  <1> USE KeyOfAssumption, NoneAssumption
  <1>1. Limbo' = Limbo /\ faults' = faults /\ deliveries' = deliveries
    BY DEF Safe, TypeOK, Put, Limbo
  <1>2. CASE KeyOf[m] = KeyOf[l]
    <2>1. n \notin Remembering(m) /\ Remembering(m)' = Remembering(m) \cup {n}
      BY <1>2 DEF Safe, TypeOK, CheckNotStale, Put, Remembering
    <2>2. Cardinality(Remembering(m)') = Cardinality(Remembering(m)) + 1
      BY <2>1, Finite, FS_AddElement
    <2>3. deliveries[m] + Cardinality(Limbo) <= Cardinality(Remembering(m)) + Unpaid(m) + 2 * faults
      BY DEF Paid
    <2>4. Unpaid(m)' >= Unpaid(m) - 1 /\ Unpaid(m) \in Int /\ Unpaid(m)' \in Int
      BY Sizes
    <2> QED  BY <1>1, <2>2, <2>3, <2>4, Sizes
  <1>3. CASE KeyOf[m] # KeyOf[l]
    <2>1. Remembering(m)' = Remembering(m) /\ Unpaid(m)' = Unpaid(m)
      BY <1>3 DEF Safe, TypeOK, Put, Remembering, Unpaid
    <2> QED  BY <1>1, <2>1 DEF Paid
  <1> QED  BY <1>2, <1>3

LEMMA FailsPaid ==
  ASSUME Safe, Safe', Paid, NEW l \in Msgs, NEW n \in Nodes, ChannelCallFails(n, l)
  PROVE  Paid'
  <1> SUFFICES ASSUME NEW m \in Msgs
               PROVE  (deliveries[m] + Cardinality(Limbo)
                        <= Cardinality(Remembering(m)) + Unpaid(m) + 2 * faults)'
    BY DEF Paid
  <1>1. Limbo' = Limbo \cup {l} /\ faults' = faults + 1 /\ deliveries' = deliveries
    BY DEF Safe, TypeOK, ChannelCallFails, Limbo
  <1>2. Cardinality(Limbo') <= Cardinality(Limbo) + 1
    BY <1>1, Finite, FS_AddElement, Sizes
  <1>3. Remembering(m)' = Remembering(m) /\ Unpaid(m)' >= Unpaid(m)
    BY DEF Safe, TypeOK, ChannelCallFails, Remembering, Unpaid
  <1>4. deliveries[m] + Cardinality(Limbo) <= Cardinality(Remembering(m)) + Unpaid(m) + 2 * faults
    BY DEF Paid
  <1>5. /\ Cardinality(Limbo) \in Nat /\ Cardinality(Limbo') \in Nat
        /\ Cardinality(Remembering(m)) \in Nat /\ Unpaid(m) \in Int /\ Unpaid(m)' \in Int
        /\ deliveries[m] \in Nat /\ faults \in Nat
    BY Sizes
  <1> QED  BY <1>1, <1>2, <1>3, <1>4, <1>5

\* The message whose call failed leaves limbo and pays for the rest.
LEMMA ClosesPaid ==
  ASSUME Safe, Safe', Paid, NEW n \in Nodes, ChannelCloses(n)
  PROVE  Paid'
  <1> SUFFICES ASSUME NEW m \in Msgs
               PROVE  (deliveries[m] + Cardinality(Limbo)
                        <= Cardinality(Remembering(m)) + Unpaid(m) + 2 * faults)'
    BY DEF Paid
  <1>1. PICK l \in Msgs : at[l] = n /\ stage[l] = "limbo"
    BY DEF ChannelCloses
  <1>2. faults' = faults /\ deliveries' = deliveries /\ Remembering(m)' = Remembering(m)
    BY DEF ChannelCloses, Remembering
  <1>3. l \in Limbo /\ Limbo' \subseteq Limbo \ {l}
    BY <1>1 DEF Safe, TypeOK, ChannelCloses, Requeue, Limbo
  <1>4. Cardinality(Limbo') <= Cardinality(Limbo) - 1
    <2>1. IsFiniteSet(Limbo \ {l}) /\ Cardinality(Limbo \ {l}) = Cardinality(Limbo) - 1
      BY <1>3, Finite, FS_RemoveElement
    <2> QED  BY <1>3, <2>1, FS_Subset
  <1> QED  BY <1>2, <1>4, Sizes DEF Paid

LEMMA CrashPaid ==
  ASSUME Safe, Safe', Paid, NEW n \in Nodes, Crash(n)
  PROVE  Paid'
  <1> SUFFICES ASSUME NEW m \in Msgs
               PROVE  (deliveries[m] + Cardinality(Limbo)
                        <= Cardinality(Remembering(m)) + Unpaid(m) + 2 * faults)'
    BY DEF Paid
  <1> USE KeyOfAssumption, NoneAssumption
  <1>1. faults' = faults + 1 /\ deliveries' = deliveries
    BY DEF Crash
  <1>2. Limbo' \subseteq Limbo
    BY DEF Safe, TypeOK, Crash, Requeue, Limbo
  <1>3. Cardinality(Limbo') <= Cardinality(Limbo)
    BY <1>2, Finite, FS_Subset
  <1>4. Remembering(m)' = Remembering(m) \ {n}
    BY DEF Safe, TypeOK, Crash, Remembering
  <1>5. Cardinality(Remembering(m)') >= Cardinality(Remembering(m)) - 1
    <2>1. \/ Cardinality(Remembering(m)') = Cardinality(Remembering(m)) - 1
          \/ Cardinality(Remembering(m)') = Cardinality(Remembering(m))
      BY <1>4, Finite, FS_RemoveElement
    <2> QED  BY <2>1, Sizes
  <1> QED  BY <1>1, <1>3, <1>5, Sizes DEF Paid

\* Until the cleaner makes a node forget, every delivery is paid for.
LEMMA PaidInvariant == Spec => [](cleaned \/ Paid)
  <1>1. ASSUME Safe, Safe', cleaned \/ Paid, [Next]_vars PROVE cleaned' \/ Paid'
    <2>1. CASE cleaned
      BY <1>1, <2>1 DEF Next, vars, Send, GrowOld, ChannelCloses, Crash, Restart, Deliver,
                        Process, Check, Put, Reject, Ack, ChannelCallFails, Cleaner, Clean
    <2>2. CASE Paid /\ UNCHANGED vars
      BY <2>2 DEF vars, Paid, Limbo, Remembering, Unpaid
    <2>3. CASE Cleaner
      BY <2>3 DEF Cleaner, Clean
    <2>4. ASSUME Paid, NEW m \in Msgs, Send(m) \/ GrowOld(m) PROVE Paid'
      BY <1>1, <2>4, QuietPaid
    <2>5. ASSUME Paid, NEW n \in Nodes, ChannelCloses(n) \/ Crash(n) PROVE Paid'
      BY <1>1, <2>5, ClosesPaid, CrashPaid
    <2>6. ASSUME Paid, NEW n \in Nodes, Restart(n) PROVE Paid'
      BY <1>1, <2>6 DEF Restart, Paid, Limbo, Remembering, Unpaid
    <2>7. ASSUME Paid, NEW n \in Nodes, NEW m \in Msgs,
                 Deliver(n, m) \/ Process(n, m) \/ ChannelCallFails(n, m)
          PROVE  Paid'
      BY <1>1, <2>7, DeliverPaid, QuietPaid, PutPaid, FailsPaid DEF Process
    <2> QED  BY <1>1, <2>1, <2>2, <2>3, <2>4, <2>5, <2>6, <2>7 DEF Next
  <1> QED  BY <1>1, InitPaid, SafeInvariant, PTL DEF Spec

\* Until the cleaner removes something no message is delivered more often than
\* once per node, once for the ack and twice per fault.
THEOREM BoundedRedeliveryHolds == Spec => []BoundedRedelivery
  <1>1. Safe /\ (cleaned \/ Paid) => BoundedRedelivery
    <2> SUFFICES ASSUME Safe, Paid, NEW m \in Msgs
                 PROVE  deliveries[m] <= Cardinality(Nodes) + 1 + 2 * faults
      BY DEF BoundedRedelivery
    <2>1. /\ Remembering(m) \subseteq Nodes /\ Limbo \subseteq Msgs
          /\ Unpaid(m) \in {0, 1} /\ deliveries[m] \in Nat /\ faults \in Nat
      BY BoundsAssumption DEF Remembering, Limbo, Unpaid, Safe, TypeOK
    <2>2. Cardinality(Remembering(m)) <= Cardinality(Nodes)
      BY <2>1, FiniteAssumption, FS_Subset
    <2>3. /\ Cardinality(Remembering(m)) \in Nat /\ Cardinality(Limbo) \in Nat
          /\ Cardinality(Nodes) \in Nat
      BY <2>1, FiniteAssumption, Finite, FS_CardinalityType
    <2> QED  BY <2>1, <2>2, <2>3 DEF Paid
  <1> QED  BY <1>1, SafeInvariant, PaidInvariant, PTL

-----------------------------------------------------------------------------
(* DelayQueue: what the operations of its queues do to their elements. *)

LEMMA ElementsOfAppend ==
  ASSUME NEW S, NEW q \in Seq(S), NEW x \in S
  PROVE  /\ Append(q, x) \in Seq(S)
         /\ Elements(Append(q, x)) = Elements(q) \cup {x}
         /\ Distinct(q) /\ x \notin Elements(q) => Distinct(Append(q, x))
  <1> DEFINE r == Append(q, x)
  <1>1. /\ r \in Seq(S) /\ Len(r) = Len(q) + 1 /\ r[Len(q) + 1] = x
        /\ \A i \in 1 .. Len(q) : r[i] = q[i]
    OBVIOUS
  <1>2. Len(q) \in Nat
    OBVIOUS
  <1> HIDE DEF r
  <1>3. Elements(r) = Elements(q) \cup {x}
    BY <1>1, <1>2 DEF Elements
  <1>4. Distinct(q) /\ x \notin Elements(q) => Distinct(r)
    BY <1>1, <1>2 DEF Elements, Distinct
  <1> QED  BY <1>1, <1>3, <1>4 DEF r

LEMMA ElementsOfHead ==
  ASSUME NEW S, NEW q \in Seq(S), q # << >>
  PROVE  /\ Head(q) \in S /\ Tail(q) \in Seq(S)
         /\ Elements(q) = {Head(q)} \cup Elements(Tail(q))
         /\ Distinct(q) => Distinct(Tail(q)) /\ Head(q) \notin Elements(Tail(q))
  <1> DEFINE r == Tail(q)
  <1>1. /\ r \in Seq(S) /\ Len(r) = Len(q) - 1 /\ Head(q) = q[1] /\ q[1] \in S
        /\ \A i \in 1 .. Len(r) : r[i] = q[i + 1]
    OBVIOUS
  <1>2. Len(q) \in Nat \ {0}
    OBVIOUS
  <1> HIDE DEF r
  <1>3. Elements(q) = {q[1]} \cup Elements(r)
    <2>1. ASSUME NEW i \in 1 .. Len(q) PROVE q[i] \in {q[1]} \cup Elements(r)
      <3>1. CASE i = 1
        BY <3>1
      <3>2. CASE i # 1
        <4>1. i - 1 \in 1 .. Len(r) /\ r[i - 1] = q[i]
          BY <1>1, <1>2, <3>2
        <4> QED  BY <4>1 DEF Elements
      <3> QED  BY <3>1, <3>2
    <2>2. ASSUME NEW i \in 1 .. Len(r) PROVE r[i] \in Elements(q)
      <3>1. i + 1 \in 1 .. Len(q) /\ r[i] = q[i + 1]
        BY <1>1, <1>2
      <3> QED  BY <3>1 DEF Elements
    <2>3. q[1] \in Elements(q)
      BY <1>2 DEF Elements
    <2> QED  BY <2>1, <2>2, <2>3 DEF Elements
  <1>4. Distinct(q) => Distinct(r) /\ q[1] \notin Elements(r)
    BY <1>1, <1>2 DEF Elements, Distinct
  <1> QED  BY <1>1, <1>3, <1>4 DEF r

LEMMA ElementsOfConcat ==
  ASSUME NEW S, NEW p \in Seq(S), NEW q \in Seq(S)
  PROVE  /\ p \o q \in Seq(S)
         /\ Elements(p \o q) = Elements(p) \cup Elements(q)
         /\ Distinct(p) /\ Distinct(q) /\ Elements(p) \cap Elements(q) = {} => Distinct(p \o q)
  <1> DEFINE r == p \o q
  <1>1. /\ r \in Seq(S) /\ Len(r) = Len(p) + Len(q)
        /\ \A i \in 1 .. Len(r) : r[i] = IF i <= Len(p) THEN p[i] ELSE q[i - Len(p)]
    OBVIOUS
  <1>2. Len(p) \in Nat /\ Len(q) \in Nat
    OBVIOUS
  <1> HIDE DEF r
  <1>3. Elements(r) = Elements(p) \cup Elements(q)
    <2>1. ASSUME NEW i \in 1 .. Len(r) PROVE r[i] \in Elements(p) \cup Elements(q)
      BY <1>1, <1>2 DEF Elements
    <2>2. ASSUME NEW i \in 1 .. Len(p) PROVE p[i] \in Elements(r)
      <3>1. i \in 1 .. Len(r) /\ r[i] = p[i]
        BY <1>1, <1>2
      <3> QED  BY <3>1 DEF Elements
    <2>3. ASSUME NEW i \in 1 .. Len(q) PROVE q[i] \in Elements(r)
      <3> DEFINE k == i + Len(p)
      <3>1. k \in 1 .. Len(r) /\ ~(k <= Len(p)) /\ k - Len(p) = i
        BY <1>1, <1>2
      <3> HIDE DEF k
      <3>2. r[k] = q[i]
        BY <1>1, <3>1
      <3> QED  BY <3>1, <3>2 DEF Elements
    <2> QED  BY <2>1, <2>2, <2>3 DEF Elements
  <1>4. Distinct(p) /\ Distinct(q) /\ Elements(p) \cap Elements(q) = {} => Distinct(r)
    <2> SUFFICES ASSUME Distinct(p), Distinct(q), Elements(p) \cap Elements(q) = {},
                        NEW i \in 1 .. Len(r), NEW j \in 1 .. Len(r), r[i] = r[j]
                 PROVE  i = j
      BY DEF Distinct
    <2>1. ASSUME NEW k \in 1 .. Len(r), k <= Len(p) PROVE k \in 1 .. Len(p) /\ r[k] = p[k] /\ r[k] \in Elements(p)
      BY <1>1, <1>2, <2>1 DEF Elements
    <2>2. ASSUME NEW k \in 1 .. Len(r), ~(k <= Len(p))
          PROVE  k - Len(p) \in 1 .. Len(q) /\ r[k] = q[k - Len(p)] /\ r[k] \in Elements(q)
      BY <1>1, <1>2, <2>2 DEF Elements
    <2>3. CASE i <= Len(p) /\ j <= Len(p)
      BY <2>1, <2>3 DEF Distinct
    <2>4. CASE ~(i <= Len(p)) /\ ~(j <= Len(p))
      <3>1. i - Len(p) = j - Len(p)
        BY <2>2, <2>4 DEF Distinct
      <3> QED  BY <3>1, <1>2
    <2>5. CASE (i <= Len(p)) # (j <= Len(p))
      BY <2>1, <2>2, <2>5
    <2> QED  BY <2>3, <2>4, <2>5
  <1> QED  BY <1>1, <1>3, <1>4 DEF r

-----------------------------------------------------------------------------
(* The invariant. *)

\* What left the buffer.
Released == Elements(processQueue) \cup Elements(inHand) \cup consumed

\* Time starts for a message when it is sent, with its delay as expiration, so
\* that the buffer is ordered by age.
Ordered ==
    /\ \A m \in unsent : age[m] = 0
    /\ \A m \in Elements(buffer) : expiration[m] = DelayOf[m]
    /\ \A i, j \in 1 .. Len(buffer) : i <= j => age[buffer[i]] >= age[buffer[j]]

\* OnTime, said of the sets of messages.
Ripe == \A m \in Released : age[m] >= DelayOf[m]
HeldBack == \A m \in Elements(buffer) :
                \E x \in Elements(buffer) \cup Released : age[x] >= age[m] /\ age[x] <= DelayOf[x]

DelaySafe == DelayTypeOK /\ OnePlace /\ Ordered /\ Ripe /\ HeldBack

LEMMA InitDelaySafe == DelayInit => DelaySafe
  <1> SUFFICES ASSUME DelayInit PROVE DelaySafe
    OBVIOUS
  <1>1. Elements(<< >>) = {} /\ Distinct(<< >>)
    BY DEF Elements, Distinct
  <1>2. DelayTypeOK
    BY DelayBounds DEF DelayInit, DelayTypeOK
  <1> QED
    BY <1>1, <1>2 DEF DelayInit, DelaySafe, OnePlace, Ordered, Ripe, HeldBack, Released

LEMMA SendDelaySafe == ASSUME DelaySafe, NEW m \in DelayMsgs, SendDelay(m) PROVE DelaySafe'
  <1> USE DelayAssumption, DelayBounds DEF DelaySafe
  <1>1. /\ buffer' = Append(buffer, m) /\ buffer \in Seq(DelayMsgs)
        /\ m \in unsent /\ unsent' = unsent \ {m}
        /\ UNCHANGED <<age, processQueue, inHand, consumed, crashes>>
        /\ expiration' = [expiration EXCEPT ![m] = DelayOf[m]]
        /\ DelayOf[m] \in Nat
    <2>1. DelayOf[m] \in Int /\ DelayOf[m] >= 0
      BY DEF SendDelay
    <2> QED  BY <2>1 DEF SendDelay, DelayTypeOK
  <1>2. /\ buffer' \in Seq(DelayMsgs)
        /\ Elements(buffer') = Elements(buffer) \cup {m}
        /\ Distinct(buffer) /\ m \notin Elements(buffer) => Distinct(buffer')
    BY <1>1, ElementsOfAppend
  <1>3. DelayTypeOK'
    BY <1>1, <1>2 DEF DelayTypeOK
  <1>4. OnePlace'
    BY <1>1, <1>2 DEF OnePlace
  <1>5. Ordered'
    <2>1. \A x \in unsent' : age'[x] = 0
      BY <1>1 DEF Ordered
    <2>2. \A x \in Elements(buffer') : expiration'[x] = DelayOf[x]
      BY <1>1, <1>2 DEF Ordered, DelayTypeOK
    <2>3. ASSUME NEW i \in 1 .. Len(buffer'), NEW j \in 1 .. Len(buffer'), i <= j
          PROVE  age'[buffer'[i]] >= age'[buffer'[j]]
      <3>1. CASE j <= Len(buffer)
        <4>1. i \in 1 .. Len(buffer) /\ j \in 1 .. Len(buffer) /\ buffer'[i] = buffer[i] /\ buffer'[j] = buffer[j]
          BY <1>1, <2>3, <3>1
        <4> QED  BY <1>1, <2>3, <4>1 DEF Ordered
      <3>2. CASE ~(j <= Len(buffer))
        <4>1. buffer'[j] = m /\ buffer'[i] \in DelayMsgs
          BY <1>1, <2>3, <3>2
        <4>2. age[m] = 0 /\ age[buffer'[i]] \in 0 .. MaxAge
          BY <1>1, <4>1 DEF Ordered, DelayTypeOK
        <4> QED  BY <1>1, <4>1, <4>2
      <3> QED  BY <3>1, <3>2
    <2> QED  BY <2>1, <2>2, <2>3 DEF Ordered
  <1>6. Released' = Released
    BY <1>1 DEF Released
  <1>7. Ripe'
    BY <1>1, <1>6 DEF Ripe
  <1>8. HeldBack'
    <2>1. age[m] = 0 /\ age[m] <= DelayOf[m]
      BY <1>1 DEF Ordered
    <2> QED  BY <1>1, <1>2, <1>6, <2>1 DEF HeldBack
  <1> QED  BY <1>3, <1>4, <1>5, <1>7, <1>8

LEMMA DeadLetterSafe == ASSUME DelaySafe, DeadLetter PROVE DelaySafe'
  <1> USE DelayAssumption, DelayBounds DEF DelaySafe
  <1> DEFINE h == Head(buffer)
  <1>1. /\ buffer # << >> /\ age[h] >= expiration[h]
        /\ buffer' = Tail(buffer) /\ processQueue' = Append(processQueue, h)
        /\ buffer \in Seq(DelayMsgs) /\ processQueue \in Seq(DelayMsgs)
        /\ UNCHANGED <<unsent, expiration, age, inHand, consumed, crashes>>
    BY DEF DeadLetter, HeadExpired, DelayTypeOK
  <1>2. /\ h \in DelayMsgs /\ buffer' \in Seq(DelayMsgs)
        /\ Elements(buffer) = {h} \cup Elements(buffer')
        /\ Distinct(buffer) => Distinct(buffer') /\ h \notin Elements(buffer')
    BY <1>1, ElementsOfHead
  <1>3. /\ processQueue' \in Seq(DelayMsgs)
        /\ Elements(processQueue') = Elements(processQueue) \cup {h}
        /\ Distinct(processQueue) /\ h \notin Elements(processQueue) => Distinct(processQueue')
    BY <1>1, <1>2, ElementsOfAppend
  <1>4. DelayTypeOK'
    BY <1>1, <1>2, <1>3 DEF DelayTypeOK
  <1>5. /\ \A i \in 1 .. Len(buffer') : i + 1 \in 1 .. Len(buffer) /\ buffer'[i] = buffer[i + 1]
        /\ Len(buffer') \in Nat
    BY <1>1
  <1> HIDE DEF h
  <1>6. OnePlace'
    BY <1>1, <1>2, <1>3 DEF OnePlace
  <1>7. Ordered'
    BY <1>1, <1>2, <1>5 DEF Ordered
  <1>8. Released' = Released \cup {h}
    BY <1>1, <1>3 DEF Released
  <1>9. Ripe'
    <2>1. age[h] >= DelayOf[h]
      BY <1>1, <1>2 DEF Ordered
    <2> QED  BY <1>1, <1>8, <2>1 DEF Ripe
  <1>10. HeldBack'
    BY <1>1, <1>2, <1>8 DEF HeldBack
  <1> QED  BY <1>4, <1>6, <1>7, <1>9, <1>10

LEMMA DeliverSafe == ASSUME DelaySafe, DeliverDelayed PROVE DelaySafe'
  <1> USE DelayBounds DEF DelaySafe
  <1> DEFINE h == Head(processQueue)
  <1>1. /\ processQueue # << >> /\ inHand = << >> /\ inHand' = <<h>>
        /\ processQueue' = Tail(processQueue) /\ processQueue \in Seq(DelayMsgs)
        /\ UNCHANGED <<unsent, buffer, expiration, age, consumed, crashes>>
    BY DEF DeliverDelayed, DelayTypeOK
  <1>2. /\ h \in DelayMsgs /\ processQueue' \in Seq(DelayMsgs)
        /\ Elements(processQueue) = {h} \cup Elements(processQueue')
        /\ Distinct(processQueue) => Distinct(processQueue') /\ h \notin Elements(processQueue')
    BY <1>1, ElementsOfHead
  <1>3. inHand' \in Seq(DelayMsgs) /\ Elements(inHand') = {h} /\ Distinct(inHand') /\ Elements(inHand) = {}
    <2>1. Elements(inHand) = {}
      BY <1>1 DEF Elements
    <2>2. inHand' \in Seq(DelayMsgs) /\ Len(inHand') = 1 /\ inHand'[1] = h
      BY <1>1, <1>2
    <2>3. Elements(inHand') = {h}
      BY <2>2 DEF Elements
    <2>4. Distinct(inHand')
      BY <2>2 DEF Distinct
    <2> QED  BY <2>1, <2>2, <2>3, <2>4
  <1> HIDE DEF h
  <1>4. DelayTypeOK'
    BY <1>1, <1>2, <1>3 DEF DelayTypeOK
  <1>5. OnePlace'
    BY <1>1, <1>2, <1>3 DEF OnePlace
  <1>6. Released' = Released
    BY <1>1, <1>2, <1>3 DEF Released
  <1> QED  BY <1>1, <1>4, <1>5, <1>6 DEF Ordered, Ripe, HeldBack

LEMMA ProcessSafe == ASSUME DelaySafe, ProcessDelayed PROVE DelaySafe'
  <1> USE DelayBounds DEF DelaySafe
  <1>1. /\ consumed' = consumed \cup Elements(inHand) /\ inHand' = << >>
        /\ UNCHANGED <<unsent, buffer, expiration, age, processQueue, crashes>>
    BY DEF ProcessDelayed
  <1>2. inHand' \in Seq(DelayMsgs) /\ Elements(inHand') = {} /\ Distinct(inHand')
    BY <1>1 DEF Elements, Distinct
  <1>3. Elements(inHand) \subseteq DelayMsgs
    BY DEF Elements, DelayTypeOK
  <1>4. DelayTypeOK'
    BY <1>1, <1>2, <1>3 DEF DelayTypeOK
  <1>5. OnePlace'
    BY <1>1, <1>2 DEF OnePlace
  <1>6. Released' = Released
    BY <1>1, <1>2 DEF Released
  <1> QED  BY <1>1, <1>4, <1>5, <1>6 DEF Ordered, Ripe, HeldBack

LEMMA CrashSafe == ASSUME DelaySafe, ConsumerCrash PROVE DelaySafe'
  <1> USE DelayBounds DEF DelaySafe
  <1>1. /\ \E done \in {{}, Elements(inHand)} : consumed' = consumed \cup done
        /\ processQueue' = inHand \o processQueue /\ inHand' = << >>
        /\ inHand \in Seq(DelayMsgs) /\ processQueue \in Seq(DelayMsgs)
        /\ crashes < MaxCrashes /\ crashes' = crashes + 1
        /\ UNCHANGED <<unsent, buffer, expiration, age>>
    BY DEF ConsumerCrash, DelayTypeOK
  <1>2. inHand' \in Seq(DelayMsgs) /\ Elements(inHand') = {} /\ Distinct(inHand')
    BY <1>1 DEF Elements, Distinct
  <1>3. /\ processQueue' \in Seq(DelayMsgs)
        /\ Elements(processQueue') = Elements(inHand) \cup Elements(processQueue)
        /\ Distinct(inHand) /\ Distinct(processQueue) /\ Elements(inHand) \cap Elements(processQueue) = {}
             => Distinct(processQueue')
    BY <1>1, ElementsOfConcat
  <1>4. Elements(inHand) \subseteq DelayMsgs
    BY <1>1 DEF Elements
  <1>5. DelayTypeOK'
    BY <1>1, <1>2, <1>3, <1>4 DEF DelayTypeOK
  <1>6. OnePlace'
    BY <1>1, <1>2, <1>3 DEF OnePlace
  <1>7. Released' = Released
    BY <1>1, <1>2, <1>3 DEF Released
  <1> QED  BY <1>1, <1>5, <1>6, <1>7 DEF Ordered, Ripe, HeldBack

\* The head is the oldest in the buffer and not yet overdue when time passes.
LEMMA TickSafe == ASSUME DelaySafe, Tick PROVE DelaySafe'
  <1> USE DelayAssumption, DelayBounds DEF DelaySafe
  <1>1. /\ UNCHANGED <<unsent, buffer, expiration, processQueue, inHand, consumed, crashes>>
        /\ age' = [m \in DelayMsgs |-> IF m \notin unsent /\ age[m] < MaxAge THEN age[m] + 1 ELSE age[m]]
        /\ age \in [DelayMsgs -> 0 .. MaxAge] /\ MaxAge \in Nat
    BY DEF Tick, DelayTypeOK
  <1>2. age' \in [DelayMsgs -> 0 .. MaxAge]
    BY <1>1
  <1>3. \A m \in DelayMsgs : age'[m] >= age[m]
    BY <1>1
  <1>4. \A l, m \in DelayMsgs \ unsent : age[l] >= age[m] => age'[l] >= age'[m]
    BY <1>1
  <1>5. Elements(buffer) \subseteq DelayMsgs \ unsent /\ Released \subseteq DelayMsgs
    <2>1. ASSUME NEW q \in Seq(DelayMsgs) PROVE Elements(q) \subseteq DelayMsgs
      BY DEF Elements
    <2>2. /\ Elements(buffer) \subseteq DelayMsgs /\ Elements(processQueue) \subseteq DelayMsgs
          /\ Elements(inHand) \subseteq DelayMsgs
      BY <2>1 DEF DelayTypeOK
    <2> QED  BY <2>2 DEF OnePlace, DelayTypeOK, Released
  <1>6. DelayTypeOK' /\ OnePlace' /\ Released' = Released
    BY <1>1, <1>2 DEF DelayTypeOK, OnePlace, Released
  <1>7. Ordered'
    <2>1. \A m \in unsent' : age'[m] = 0
      BY <1>1, <1>6 DEF Ordered, DelayTypeOK
    <2>2. \A i, j \in 1 .. Len(buffer') : i <= j => age'[buffer'[i]] >= age'[buffer'[j]]
      BY <1>1, <1>4, <1>5 DEF Ordered, Elements
    <2> QED  BY <1>1, <2>1, <2>2 DEF Ordered
  <1>8. Ripe'
    <2> SUFFICES ASSUME NEW m \in Released PROVE age'[m] >= DelayOf[m]
      BY <1>6 DEF Ripe
    <2>1. m \in DelayMsgs /\ age[m] >= DelayOf[m] /\ age'[m] >= age[m]
      BY <1>3, <1>5 DEF Ripe
    <2>2. age[m] \in Int /\ age'[m] \in Int /\ DelayOf[m] \in Int
      BY <1>1, <1>2, <2>1
    <2> QED  BY <2>1, <2>2
  <1>9. HeldBack'
    <2> SUFFICES ASSUME NEW m \in Elements(buffer)
                 PROVE  \E x \in Elements(buffer) : age'[x] >= age'[m] /\ age'[x] <= DelayOf[x]
      BY <1>1, <1>6 DEF HeldBack
    <2> DEFINE h == buffer[1]
    <2>1. buffer # << >> /\ h = Head(buffer) /\ h \in Elements(buffer)
      <3>1. PICK i \in 1 .. Len(buffer) : buffer[i] = m
        BY DEF Elements
      <3>2. buffer \in Seq(DelayMsgs) /\ Len(buffer) \in Nat /\ 1 \in 1 .. Len(buffer)
        BY <3>1 DEF DelayTypeOK
      <3> QED  BY <3>2 DEF Elements
    <2>2. age[h] >= age[m]
      <3>1. PICK i \in 1 .. Len(buffer) : buffer[i] = m
        BY DEF Elements
      <3>2. 1 \in 1 .. Len(buffer) /\ 1 <= i
        BY <3>1 DEF DelayTypeOK
      <3> QED  BY <3>1, <3>2 DEF Ordered
    <2>3. age[h] < DelayOf[h]
      <3>1. ~(age[h] >= expiration[h]) /\ expiration[h] = DelayOf[h]
        BY <2>1 DEF Tick, HeadExpired, Ordered
      <3>2. h \in DelayMsgs
        BY <1>5, <2>1
      <3>3. age[h] \in Int /\ DelayOf[h] \in Int
        BY <1>1, <3>2
      <3> QED  BY <3>1, <3>3
    <2>4. age'[h] = age[h] + 1 /\ age'[h] <= DelayOf[h]
      <3>1. h \in DelayMsgs /\ h \notin unsent /\ DelayOf[h] < MaxAge
        BY <1>5, <2>1
      <3>2. age[h] \in Int /\ DelayOf[h] \in Int
        BY <1>1, <3>1
      <3> QED  BY <1>1, <2>3, <3>1, <3>2
    <2>5. age'[h] >= age'[m]
      BY <1>4, <1>5, <2>1, <2>2
    <2> QED  BY <2>1, <2>4, <2>5
  <1> QED  BY <1>6, <1>7, <1>8, <1>9

LEMMA NextSafe == DelaySafe /\ [DelayNext]_delayVars => DelaySafe'
  <1> SUFFICES ASSUME DelaySafe, [DelayNext]_delayVars PROVE DelaySafe'
    OBVIOUS
  <1>1. ASSUME NEW m \in DelayMsgs, SendFails(m) PROVE DelaySafe'
    <2>1. /\ unsent' = unsent \ {m}
          /\ UNCHANGED <<buffer, expiration, age, processQueue, inHand, consumed, crashes>>
      BY <1>1 DEF SendFails
    <2> QED
      BY <2>1 DEF DelaySafe, DelayTypeOK, OnePlace, Ordered, Ripe, HeldBack, Released
  <1>2. CASE UNCHANGED delayVars
    BY <1>2 DEF delayVars, DelaySafe, DelayTypeOK, OnePlace, Ordered, Ripe, HeldBack, Released
  <1> QED
    BY <1>1, <1>2, SendDelaySafe, DeadLetterSafe, DeliverSafe, ProcessSafe, CrashSafe, TickSafe DEF DelayNext

-----------------------------------------------------------------------------
(* Theorems *)

\* Queues, ages and messages keep their types in every reachable state.
THEOREM Typed == DelaySpec => []DelayTypeOK
  <1>1. DelaySafe => DelayTypeOK
    BY DEF DelaySafe
  <1> QED  BY <1>1, InitDelaySafe, NextSafe, PTL DEF DelaySpec

\* Neither dead-lettering nor redelivery after a crash doubles a message, and
\* none is queued that was not sent.
THEOREM InOnePlace == DelaySpec => []OnePlace
  <1>1. DelaySafe => OnePlace
    BY DEF DelaySafe
  <1> QED  BY <1>1, InitDelaySafe, NextSafe, PTL DEF DelaySpec

\* The consumer sees no message before its delay is over, and one waits longer
\* than that only behind something that is not overdue itself.
THEOREM InTime == DelaySpec => []OnTime
  <1>1. DelaySafe => OnTime
    <2> SUFFICES ASSUME DelaySafe PROVE OnTime
      OBVIOUS
    <2>1. Elements(processQueue \o inHand) = Elements(processQueue) \cup Elements(inHand)
      BY ElementsOfConcat DEF DelaySafe, DelayTypeOK
    <2>2. Elements(buffer \o processQueue \o inHand)
            = Elements(buffer) \cup Elements(processQueue) \cup Elements(inHand)
      <3> DEFINE r == buffer \o processQueue
      <3>1. r \in Seq(DelayMsgs) /\ Elements(r) = Elements(buffer) \cup Elements(processQueue)
        BY ElementsOfConcat DEF DelaySafe, DelayTypeOK
      <3>2. inHand \in Seq(DelayMsgs)
        BY DEF DelaySafe, DelayTypeOK
      <3> HIDE DEF r
      <3>3. Elements(r \o inHand) = Elements(r) \cup Elements(inHand)
        BY <3>1, <3>2, ElementsOfConcat
      <3> QED  BY <3>1, <3>3 DEF r
    <2> QED  BY <2>1, <2>2 DEF DelaySafe, Ripe, HeldBack, Released, OnTime
  <1> QED  BY <1>1, InitDelaySafe, NextSafe, PTL DEF DelaySpec

-----------------------------------------------------------------------------
(* HttpChannelClient. *)

Waiting == {"wait", "check", "read", "finally"}

\* Whoever has got a client has got the one that is published, for good.
OnlyClient ==
    \A c \in Calls :
        /\ client[c] # NoClient => client[c] = httpClient
        /\ pc[c] \in {"lease", "wait", "check", "read"} => client[c] # NoClient
        /\ c \in leased => client[c] # NoClient

\* A connection is held between the lease and finally only, the monitor inside
\* getHttpClient only.
Held ==
    \A c \in Calls :
        /\ c \in leased => pc[c] \in Waiting
        /\ monitor = c => pc[c] = "second"

\* Where the request of a call is.
Once ==
    \A c \in Calls :
        /\ c \in sent \cup served => c \in Dispatched /\ pc[c] \in Waiting \cup {"respond", "done"}
        /\ c \in sent => c \notin served
        /\ status[c] = "ok" => c \in served
        /\ pc[c] \in {"read", "respond"} => status[c] = "ok"
        /\ pc[c] \in {"finally", "done"} => result[c] \in {"resp", "fail"}
        /\ pc[c] \notin {"finally", "done"} => result[c] = "none"
        /\ result[c] = "resp" => c \in served /\ c \in Dispatched
        /\ pc[c] \notin {"idle", "done"} => c \in Dispatched

Sound == ChannelTypeOK /\ OnlyClient /\ Held /\ PoolBound /\ Once

-----------------------------------------------------------------------------

LEMMA FiniteLeased ==
  ASSUME ChannelTypeOK
  PROVE  IsFiniteSet(leased) /\ Cardinality(leased) \in Nat
  BY CallsAssumption, FS_Subset, FS_CardinalityType DEF ChannelTypeOK

LEMMA InitSound == ChannelInit => Sound
  <1> SUFFICES ASSUME ChannelInit PROVE Sound
    OBVIOUS
  <1>1. PoolBound
    BY PoolAssumption, FS_EmptySet DEF ChannelInit, PoolBound
  <1> QED
    BY <1>1, NoClientAssumption DEF ChannelInit, Sound, ChannelTypeOK, OnlyClient, Held, Once, PCs, Results, Waiting

\* A connection more, only where the one pool has room.
LEMMA LeaseStep ==
  ASSUME Sound, NEW c \in Calls, Lease(c)
  PROVE  Sound'
  <1>1. client[c] # NoClient /\ client[c] = httpClient
    BY DEF Sound, OnlyClient, Lease
  <1>2. {d \in leased : client[d] = client[c]} = leased
    BY <1>1 DEF Sound, ChannelTypeOK, OnlyClient
  <1>3. Cardinality(leased) < PoolMax
    BY <1>2 DEF Lease
  <1>4. PoolBound'
    <2>1. leased' = leased \cup {c}
      BY DEF Lease
    <2>2. IsFiniteSet(leased) /\ Cardinality(leased) \in Nat
      BY FiniteLeased DEF Sound
    <2>3. Cardinality(leased') = Cardinality(leased)
          \/ Cardinality(leased') = Cardinality(leased) + 1
      BY <2>1, <2>2, FS_AddElement
    <2> QED  BY <1>3, <2>2, <2>3, PoolAssumption DEF PoolBound
  <1>5. ChannelTypeOK' /\ OnlyClient' /\ Held' /\ Once'
    BY <1>1 DEF Sound, ChannelTypeOK, PCs, Results, OnlyClient, Held, Once, Waiting, Lease, GoTo, factory
  <1> QED  BY <1>4, <1>5 DEF Sound

\* A connection less, if there was one.
LEMMA ReleaseSteps ==
  ASSUME Sound, NEW c \in Calls, ExecuteThrows(c) \/ Read(c) \/ Finally(c)
  PROVE  Sound'
  <1>1. leased' = leased \ {c}
    BY DEF ExecuteThrows, Read, Finally, Release
  <1>2. Cardinality(leased') <= Cardinality(leased) /\ Cardinality(leased') \in Nat
    BY <1>1, FiniteLeased, FS_Subset, FS_CardinalityType DEF Sound
  <1>3. PoolBound'
    BY <1>2, FiniteLeased, PoolAssumption DEF Sound, PoolBound
  <1>4. CASE ExecuteThrows(c)
    BY <1>1, <1>3, <1>4
    DEF Sound, ChannelTypeOK, PCs, Results, OnlyClient, Held, Once, Waiting, ExecuteThrows, GoTo,
        Catch, factory
  <1>5. CASE Read(c)
    BY <1>1, <1>3, <1>5
    DEF Sound, ChannelTypeOK, PCs, Results, OnlyClient, Held, Once, Waiting, Read, GoTo, Catch, factory
  <1>6. CASE Finally(c)
    BY <1>1, <1>3, <1>6
    DEF Sound, ChannelTypeOK, PCs, Results, OnlyClient, Held, Once, Waiting, Finally, GoTo, factory
  <1> QED  BY <1>4, <1>5, <1>6

\* getHttpClient.
LEMMA FactorySteps ==
  ASSUME Sound, NEW c \in Calls,
         FirstTest(c) \/ Enter(c) \/ Build(c) \/ BuildFails(c)
  PROVE  Sound'
  <1>1. leased' = leased /\ PoolBound'
    BY DEF Sound, PoolBound, FirstTest, Enter, Build, BuildFails, wire
  <1>2. CASE FirstTest(c)
    BY <1>1, <1>2
    DEF Sound, ChannelTypeOK, PCs, Results, OnlyClient, Held, Once, Waiting, FirstTest, GoTo, wire
  <1>3. CASE Enter(c)
    BY <1>1, <1>3
    DEF Sound, ChannelTypeOK, PCs, Results, OnlyClient, Held, Once, Waiting, Enter, wire
  <1>4. CASE Build(c)
    <2>1. httpClient' \in Calls /\ (httpClient # NoClient => httpClient' = httpClient)
      BY <1>4 DEF Sound, ChannelTypeOK, Build
    <2>2. /\ client' = [client EXCEPT ![c] = httpClient']
          /\ pc' = [pc EXCEPT ![c] = "lease"] /\ pc[c] = "second"
          /\ UNCHANGED <<wire, result>> /\ monitor' = NoClient
      BY <1>4 DEF Build, GoTo
    <2>3. ChannelTypeOK'
      BY <2>1, <2>2 DEF Sound, ChannelTypeOK, PCs, Results, wire
    <2>4. OnlyClient'
      BY <2>1, <2>2, NoClientAssumption DEF Sound, ChannelTypeOK, OnlyClient, wire
    <2>5. Held' /\ Once'
      BY <2>2, NoClientAssumption DEF Sound, ChannelTypeOK, Held, Once, Waiting, wire
    <2> QED  BY <1>1, <2>3, <2>4, <2>5 DEF Sound
  <1>5. CASE BuildFails(c)
    BY <1>1, <1>5, NoClientAssumption
    DEF Sound, ChannelTypeOK, PCs, Results, OnlyClient, Held, Once, Waiting, BuildFails, GoTo, Catch,
        wire
  <1> QED  BY <1>2, <1>3, <1>4, <1>5

\* The steps on the way of the request.
LEMMA CallSteps ==
  ASSUME Sound, NEW c \in Calls,
         \/ Refuse(c) \/ Dispatch(c) \/ Convert(c) \/ Handle(c)
         \/ Respond(c) \/ CheckStatus(c) \/ Return(c)
  PROVE  Sound'
  <1>1. leased' = leased /\ PoolBound'
    BY DEF Sound, PoolBound, Refuse, Dispatch, Convert, Handle, Respond, CheckStatus, Return, wire
  <1>2. CASE Refuse(c) \/ Dispatch(c)
    BY <1>1, <1>2
    DEF Sound, ChannelTypeOK, PCs, Results, OnlyClient, Held, Once, Waiting, Refuse, Dispatch, GoTo,
        factory, wire
  <1>3. CASE Convert(c)
    BY <1>1, <1>3
    DEF Sound, ChannelTypeOK, PCs, Results, OnlyClient, Held, Once, Waiting, Convert, GoTo, Catch,
        factory, wire
  <1>4. CASE Handle(c)
    BY <1>1, <1>4
    DEF Sound, ChannelTypeOK, PCs, Results, OnlyClient, Held, Once, Waiting, Handle, factory
  <1>5. CASE Respond(c)
    BY <1>1, <1>5
    DEF Sound, ChannelTypeOK, PCs, Results, OnlyClient, Held, Once, Waiting, Respond, GoTo, factory
  <1>6. CASE CheckStatus(c)
    BY <1>1, <1>6
    DEF Sound, ChannelTypeOK, PCs, Results, OnlyClient, Held, Once, Waiting, CheckStatus, GoTo, Catch,
        factory, wire
  <1>7. CASE Return(c)
    BY <1>1, <1>7
    DEF Sound, ChannelTypeOK, PCs, Results, OnlyClient, Held, Once, Waiting, Return, GoTo, Catch,
        factory, wire
  <1> QED  BY <1>2, <1>3, <1>4, <1>5, <1>6, <1>7

LEMMA SoundInvariant == ChannelSpec => []Sound
  <1>1. Sound /\ UNCHANGED channelVars => Sound'
    BY DEF channelVars, factory, wire, Sound, ChannelTypeOK, OnlyClient, Held, PoolBound, Once
  <1>2. Sound /\ [ChannelNext]_channelVars => Sound'
    BY <1>1, LeaseStep, ReleaseSteps, FactorySteps, CallSteps DEF ChannelNext, Step
  <1> QED  BY InitSound, <1>2, PTL DEF ChannelSpec

-----------------------------------------------------------------------------

\* All variables keep their types.
THEOREM ChannelTypeCorrect == ChannelSpec => []ChannelTypeOK
  <1>1. Sound => ChannelTypeOK
    BY DEF Sound
  <1> QED  BY <1>1, SoundInvariant, PTL

\* The pool's limit holds for all threads together.
THEOREM PoolBoundHolds == ChannelSpec => []PoolBound
  <1>1. Sound => PoolBound
    BY DEF Sound
  <1> QED  BY <1>1, SoundInvariant, PTL

\* No call that is over holds a connection or the monitor.
THEOREM NothingHeldHolds == ChannelSpec => []NothingHeld
  <1>1. Sound => NothingHeld
    BY DEF Sound, Held, NothingHeld, Waiting
  <1> QED  BY <1>1, SoundInvariant, PTL

-----------------------------------------------------------------------------

\* A function that differs from another at one argument only.
LEMMA OneChange ==
  ASSUME NEW S, NEW f, NEW g, NEW c \in S, NEW v,
         f = [d \in S |-> f[d]], g = [d \in S |-> g[d]],
         \A d \in S : d # c => g[d] = f[d], g[c] = v
  PROVE  g = [f EXCEPT ![c] = v]
  OBVIOUS

\* How each step of execute looks to the caller.
LEMMA StepRefines ==
  ASSUME Sound, Sound', [ChannelNext]_channelVars
  PROVE  [Call!Next]_(Call!callVars)
  <1>1. CASE UNCHANGED channelVars
    BY <1>1 DEF channelVars, factory, wire, outcome, Call!callVars
  <1> SUFFICES ASSUME NEW c \in Calls, Refuse(c) \/ Dispatch(c) \/ Handle(c) \/ Step(c)
               PROVE  Call!Next \/ UNCHANGED Call!callVars
    BY <1>1 DEF ChannelNext
  <1>2. \A d \in Calls : d # c => pc'[d] = pc[d] /\ result'[d] = result[d]
    BY DEF Sound, ChannelTypeOK, Refuse, Dispatch, Handle, Step, Convert, FirstTest, Enter, Build,
       BuildFails, Lease, Respond, ExecuteThrows, CheckStatus, Read, Return, Finally, GoTo,
       Catch, wire
  <1>8. /\ outcome = [d \in Calls |-> outcome[d]]
        /\ outcome' = [d \in Calls |-> outcome'[d]]
    BY DEF outcome
  <1>9. \A d \in Calls : d # c => outcome'[d] = outcome[d]
    BY <1>2 DEF outcome
  <1>3. CASE Dispatch(c)
    <2>1. served' = served /\ outcome[c] = "none" /\ outcome'[c] = "open"
      BY <1>3 DEF Dispatch, Sound, ChannelTypeOK, GoTo, outcome, wire
    <2>2. outcome' = [outcome EXCEPT ![c] = "open"]
      BY <1>8, <1>9, <2>1, OneChange
    <2> QED  BY <2>1, <2>2 DEF Call!Next, Call!Open
  <1>7. CASE Refuse(c)
    <2>1. served' = served /\ outcome[c] = "none" /\ outcome'[c] = "refused"
      BY <1>7 DEF Refuse, Sound, ChannelTypeOK, GoTo, outcome, wire
    <2>2. outcome' = [outcome EXCEPT ![c] = "refused"]
      BY <1>8, <1>9, <2>1, OneChange
    <2> QED  BY <2>1, <2>2 DEF Call!Next, Call!Refuse
  <1>4. CASE Handle(c)
    <2>1. outcome' = outcome /\ served' = served \cup {c} /\ c \notin served
      BY <1>4 DEF Handle, Sound, Once, outcome
    <2>2. CASE outcome[c] \in {"open", "failure"}
      BY <2>1, <2>2 DEF Call!Next, Call!Handle
    <2>3. c \in Dispatched /\ pc[c] \in Waiting \cup {"respond", "done"} /\ result[c] # "resp"
      BY <1>4 DEF Handle, Sound, Once
    <2>4. outcome[c] \in {"open", "failure"}
      BY <2>3 DEF Waiting, outcome
    <2> QED  BY <2>2, <2>4
  <1>5. CASE Finally(c)
    <2>1. /\ pc[c] = "finally" /\ c \in Dispatched /\ pc'[c] = "done"
          /\ result'[c] = result[c] /\ served' = served
          /\ result[c] = "resp" => c \in served
      BY <1>5 DEF Finally, GoTo, Sound, ChannelTypeOK, Once
    <2>2. CASE result[c] = "resp"
      <3>1. outcome[c] = "open" /\ outcome'[c] = "success"
        BY <2>1, <2>2 DEF outcome
      <3>2. outcome' = [outcome EXCEPT ![c] = "success"]
        BY <1>8, <1>9, <3>1, OneChange
      <3> QED  BY <2>1, <2>2, <3>1, <3>2 DEF Call!Next, Call!Succeed
    <2>3. CASE result[c] # "resp"
      <3>1. outcome[c] = "open" /\ outcome'[c] = "failure"
        BY <2>1, <2>3 DEF outcome
      <3>2. outcome' = [outcome EXCEPT ![c] = "failure"]
        BY <1>8, <1>9, <3>1, OneChange
      <3> QED  BY <2>1, <3>1, <3>2 DEF Call!Next, Call!Fail
    <2> QED  BY <2>2, <2>3
  <1>6. CASE /\ ~Finally(c)
             /\ Step(c)
    <2>1. /\ served' = served
          /\ pc[c] \notin {"idle", "done"} /\ pc'[c] \notin {"idle", "done"}
      BY <1>6 DEF Sound, ChannelTypeOK, Step, Convert, FirstTest, Enter, Build, BuildFails,
         Lease, Respond, ExecuteThrows, CheckStatus, Read, Return, GoTo, Catch, wire
    <2>2. c \in Dispatched
      BY <2>1 DEF Sound, Once
    <2>3. outcome' = outcome
      BY <1>2, <2>1, <2>2 DEF outcome
    <2> QED  BY <2>1, <2>3 DEF Call!callVars
  <1> QED  BY <1>3, <1>4, <1>5, <1>6, <1>7

\* execute keeps what ClientCall promises: one outcome per call, a request handled
\* at most once, a success only for a handled request.
THEOREM CallIsImplemented == ChannelSpec => ImplementsCall
  <1>1. ChannelInit => Call!Init
    BY DEF ChannelInit, outcome, Call!Init
  <1>2. Sound /\ Sound' /\ [ChannelNext]_channelVars => [Call!Next]_(Call!callVars)
    BY StepRefines
  <1> QED  BY <1>1, <1>2, SoundInvariant, PTL DEF ChannelSpec, ImplementsCall, Call!Spec
=============================================================================
