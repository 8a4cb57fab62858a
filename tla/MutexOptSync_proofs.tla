------------------------ MODULE MutexOptSync_proofs ------------------------
(***************************************************************************)
(* Proofs about MutexOptSync for any callers, keys, calls, lease and       *)
(* failures.  TypeOK holds unconditionally; everything else needs that no  *)
(* section outlives its lease (MaxSection < Lease), without which it is    *)
(* false.                                                                  *)
(***************************************************************************)
EXTENDS MutexOptSync, TLAPS

\* The local variable lock follows the program counter.
LockFollowsPc ==
    \A p \in Callers :
        /\ lock[p] => pc[p] \in {"check", "apply", "remove"}
        /\ pc[p] \in {"apply", "remove"} => lock[p]

\* Whoever is past the blank-key test works on a real key.
KeyIsReal ==
    \A p \in Callers : pc[p] \notin {"idle", "crashed"} => call[p].key \in Keys

\* A holder's key has used up exactly the time the holder has held it.
LeaseAge ==
    \A p \in Callers, k \in Keys : Holding(p, k) => lease[k] = Lease - held[p]

\* The inductive invariant.
IInv == TypeOK /\ LockFollowsPc /\ KeyIsReal /\ LeaseAge /\ LeaseMatchesHolder

-----------------------------------------------------------------------------

\* NoCall is one of the calls.
LEMMA NoCallType == NoCall \in Calls
  BY CallsAssumption DEF NoCall

\* A timeout is an integer, a key is usable or blank.
LEMMA CallFields ==
  \A c \in Calls : c.timeout \in Int /\ c.key \in Keys \cup {Blank}
  BY CallsAssumption

\* The ways a step touches the store keep the types of the store.
LEMMA StoreSteps ==
  ASSUME StoreTypes, NEW k, NEW p \in Callers
  PROVE  /\ Delete(k) => StoreTypes'
         /\ Abandon(p, k) => StoreTypes'
         /\ UNCHANGED storeVars => StoreTypes'
         /\ \A o \in Callers \cup {Nobody} :
              /\ lease' = [lease EXCEPT ![k] = Lease]
              /\ owner' = [owner EXCEPT ![k] = o]
              => StoreTypes'
  BY LeaseAssumption DEF StoreTypes, Delete, Abandon, storeVars

\* Winning the key keeps the types.
LEMMA AcquireTypes ==
  ASSUME TypeOK, NEW p \in Callers, Acquire(p)
  PROVE  /\ StoreTypes'
         /\ lock' \in [Callers -> BOOLEAN]
         /\ held' \in [Callers -> 0 .. MaxSection]
<1>1. StoreTypes'
  BY StoreSteps DEF TypeOK, Acquire
<1>2. lock' \in [Callers -> BOOLEAN] /\ held' \in [Callers -> 0 .. MaxSection]
  BY LeaseAssumption DEF TypeOK, CallerTypes, Acquire
<1>3. QED
  BY <1>1, <1>2

\* Returning keeps the types.
LEMMA ReturnTypes ==
  ASSUME CallerTypes, NEW p \in Callers, NEW r \in Results, Return(p, r)
  PROVE  CallerTypes'
  BY NoCallType, LeaseAssumption DEF CallerTypes, Return, PCs

\* The variables keep their types in every reachable state: no lease exceeds
\* Lease, no holder exceeds MaxSection, patience stops at -1.
THEOREM TypeCorrect == Spec => []TypeOK
<1>1. Init => TypeOK
  BY NoCallType, LeaseAssumption
     DEF Init, TypeOK, CallerTypes, StoreTypes, PCs, Results
<1>2. TypeOK /\ [Next]_vars => TypeOK'
  <2> SUFFICES ASSUME TypeOK, [Next]_vars PROVE TypeOK'
    OBVIOUS
  <2>1. CASE UNCHANGED vars
    BY <2>1 DEF vars, TypeOK, CallerTypes, StoreTypes
  <2>2. CASE Tick
    BY <2>2, LeaseAssumption DEF Tick, Aged, Waited, TypeOK, CallerTypes, StoreTypes
  <2>3. ASSUME NEW p \in Callers, Call(p) PROVE TypeOK'
    <3>1. CallerTypes'
      BY <2>3 DEF Call, TypeOK, CallerTypes, PCs, Results
    <3>2. QED
      BY <2>3, <3>1, StoreSteps DEF Call, TypeOK
  <2>4. ASSUME NEW p \in Callers, FirstTryWins(p) PROVE TypeOK'
    BY <2>4, AcquireTypes DEF FirstTryWins, TypeOK, CallerTypes, PCs
  <2>5. ASSUME NEW p \in Callers, FirstTryLoses(p) PROVE TypeOK'
    <3>1. CASE Return(p, "direct") \/ Return(p, "timeout")
      BY <2>5, <3>1, ReturnTypes, StoreSteps DEF FirstTryLoses, TypeOK, Results
    <3>2. CASE /\ call[p].timeout > 0
               /\ remaining' = [remaining EXCEPT ![p] = call[p].timeout]
               /\ pc' = [pc EXCEPT ![p] = "sleep"]
               /\ UNCHANGED <<call, lock, held, result>>
      <4>1. call[p].timeout \in Nat
        BY <3>2, CallFields DEF TypeOK, CallerTypes
      <4>2. CallerTypes'
        BY <3>2, <4>1 DEF TypeOK, CallerTypes, PCs
      <4>3. QED
        BY <2>5, <4>2, StoreSteps DEF FirstTryLoses, TypeOK
    <3>3. QED
      BY <2>5, <3>1, <3>2 DEF FirstTryLoses
  <2>6. ASSUME NEW p \in Callers, Retry(p) PROVE TypeOK'
    <3>1. CASE Acquire(p)
      BY <2>6, <3>1, AcquireTypes DEF Retry, TypeOK, CallerTypes, PCs
    <3>2. CASE UNCHANGED <<lock, held, storeVars>>
      BY <2>6, <3>2, StoreSteps DEF Retry, TypeOK, CallerTypes, PCs
    <3>3. QED
      BY <2>6, <3>1, <3>2 DEF Retry
  <2>7. ASSUME NEW p \in Callers, BadSeed(p) PROVE TypeOK'
    BY <2>7, ReturnTypes, StoreSteps DEF BadSeed, TypeOK, Results
  <2>8. ASSUME NEW p \in Callers, CheckDeadline(p) PROVE TypeOK'
    <3>1. CASE Return(p, "timeout")
      BY <2>8, <3>1, ReturnTypes, StoreSteps DEF CheckDeadline, TypeOK, Results
    <3>2. CASE /\ pc' \in {[pc EXCEPT ![p] = "apply"], [pc EXCEPT ![p] = "sleep"]}
               /\ UNCHANGED <<call, lock, remaining, held, result>>
      BY <2>8, <3>2, StoreSteps DEF CheckDeadline, TypeOK, CallerTypes, PCs
    <3>3. QED
      BY <2>8, <3>1, <3>2 DEF CheckDeadline
  <2>9. ASSUME NEW p \in Callers, Apply(p) PROVE TypeOK'
    BY <2>9, StoreSteps DEF Apply, TypeOK, CallerTypes, PCs, Results
  <2>10. ASSUME NEW p \in Callers, Remove(p) PROVE TypeOK'
    <3>1. result[p] \in Results
      BY DEF TypeOK, CallerTypes
    <3>2. QED
      BY <2>10, <3>1, ReturnTypes, StoreSteps DEF Remove, TypeOK
  <2>11. ASSUME NEW p \in Callers, LockCacheThrows(p) PROVE TypeOK'
    BY <2>11, ReturnTypes, StoreSteps DEF LockCacheThrows, TypeOK, Results
  <2>12. ASSUME NEW p \in Callers, RemoveCacheThrows(p) PROVE TypeOK'
    BY <2>12, ReturnTypes, StoreSteps DEF RemoveCacheThrows, TypeOK, Results
  <2>13. ASSUME NEW p \in Callers, Crash(p) PROVE TypeOK'
    <3>1. CallerTypes'
      BY <2>13, NoCallType, LeaseAssumption
         DEF Crash, TypeOK, CallerTypes, PCs, Results
    <3>2. QED
      BY <2>13, <3>1, StoreSteps DEF Crash, TypeOK
  <2>14. ASSUME NEW p \in Callers, Restart(p) PROVE TypeOK'
    BY <2>14, StoreSteps DEF Restart, TypeOK, CallerTypes, PCs
  <2>15. QED
    BY <2>1, <2>2, <2>3, <2>4, <2>5, <2>6, <2>7, <2>8, <2>9, <2>10, <2>11,
       <2>12, <2>13, <2>14 DEF Next, Step, Fail
<1>3. QED
  BY <1>1, <1>2, PTL DEF Spec

-----------------------------------------------------------------------------
(* The inductive invariant *)

\* Winning the key keeps the store and the callers in agreement.
LEMMA AcquireAgrees ==
  ASSUME TypeOK, LeaseMatchesHolder, LeaseAge,
         NEW p \in Callers, Acquire(p), UNCHANGED call,
         NEW k \in Keys, k = call[p].key, ~lock[p]
  PROVE  LeaseAge' /\ LeaseMatchesHolder'
<1>1. /\ lease' = [lease EXCEPT ![k] = Lease]
      /\ owner' = [owner EXCEPT ![k] = p]
      /\ lock' = [lock EXCEPT ![p] = TRUE]
      /\ held' = [held EXCEPT ![p] = 0]
      /\ lease[k] = 0
  BY DEF Acquire, Granted
<1>2. \A q \in Callers : ~Holding(q, k)
  BY <1>1 DEF LeaseMatchesHolder
<1>3. \A q \in Callers, j \in Keys :
         Holding(q, j)' <=> (IF j = k THEN q = p ELSE Holding(q, j))
  BY <1>1, <1>2 DEF Holding, TypeOK, CallerTypes
<1>4. \A j \in Keys :
         /\ lease'[j] = (IF j = k THEN Lease ELSE lease[j])
         /\ owner'[j] = (IF j = k THEN p ELSE owner[j])
  BY <1>1 DEF TypeOK, StoreTypes
<1>5. LeaseMatchesHolder'
  BY <1>3, <1>4, LeaseAssumption DEF LeaseMatchesHolder, Holding
<1>6. \A q \in Callers, j \in Keys :
         Holding(q, j)' => held'[q] = (IF j = k THEN 0 ELSE held[q])
  BY <1>1, <1>3 DEF Holding, TypeOK, CallerTypes
<1>7. LeaseAge'
  BY <1>3, <1>4, <1>6, LeaseAssumption DEF LeaseAge, Holding
<1>8. QED
  BY <1>5, <1>7

\* A caller without the lock returns and leaves the agreement alone.
LEMMA ReturnAgrees ==
  ASSUME TypeOK, LockFollowsPc, KeyIsReal, LeaseMatchesHolder, LeaseAge,
         NEW p \in Callers, NEW r, Return(p, r), ~lock[p], UNCHANGED storeVars
  PROVE  LockFollowsPc' /\ KeyIsReal' /\ LeaseAge' /\ LeaseMatchesHolder'
<1>1. /\ ~lock'[p]
      /\ pc'[p] = "idle"
      /\ \A q \in Callers \ {p} : /\ pc'[q] = pc[q]
                                  /\ lock'[q] = lock[q]
                                  /\ call'[q] = call[q]
                                  /\ held'[q] = held[q]
  BY DEF Return, TypeOK, CallerTypes
<1>2. LockFollowsPc' /\ KeyIsReal'
  BY <1>1 DEF LockFollowsPc, KeyIsReal
<1>3. LeaseAge' /\ LeaseMatchesHolder'
  BY <1>1 DEF LeaseAge, LeaseMatchesHolder, Holding, storeVars
<1>4. QED
  BY <1>2, <1>3

\* When no section outlives its lease, the store and the callers agree in
\* every reachable state.
LEMMA Invariance ==
  ASSUME MaxSection < Lease
  PROVE  Spec => []IInv
<1> DEFINE Rest == LockFollowsPc /\ KeyIsReal /\ LeaseAge /\ LeaseMatchesHolder
<1>1. Init => Rest
  BY NamesAssumption
     DEF Init, LockFollowsPc, KeyIsReal, LeaseAge, LeaseMatchesHolder, Holding
<1>2. TypeOK /\ TypeOK' /\ Rest /\ [Next]_vars => Rest'
  <2> SUFFICES ASSUME TypeOK, TypeOK', Rest, [Next]_vars PROVE Rest'
    OBVIOUS
  <2> USE LeaseAssumption, NamesAssumption, CallFields
          DEF LockFollowsPc, KeyIsReal, LeaseAge, LeaseMatchesHolder,
              Holding, TypeOK, CallerTypes, StoreTypes, storeVars
  <2>1. CASE UNCHANGED vars
    BY <2>1 DEF vars
  <2>2. CASE Tick
    BY <2>2 DEF Tick, Aged, Waited
  <2>3. ASSUME NEW p \in Callers, Call(p) PROVE Rest'
    BY <2>3 DEF Call
  <2>4. ASSUME NEW p \in Callers, FirstTryWins(p) PROVE Rest'
    <3>1. LeaseAge' /\ LeaseMatchesHolder'
      BY <2>4, call[p].key \in Keys, AcquireAgrees DEF FirstTryWins
    <3>2. LockFollowsPc' /\ KeyIsReal'
      BY <2>4 DEF FirstTryWins, Acquire
    <3>3. QED
      BY <3>1, <3>2
  <2>5. ASSUME NEW p \in Callers, FirstTryLoses(p) PROVE Rest'
    <3>1. CASE Return(p, "direct") \/ Return(p, "timeout")
      BY <2>5, <3>1, ReturnAgrees DEF FirstTryLoses
    <3>2. CASE /\ pc' = [pc EXCEPT ![p] = "sleep"]
               /\ UNCHANGED <<call, lock, held, result>>
      BY <2>5, <3>2 DEF FirstTryLoses
    <3>3. QED
      BY <2>5, <3>1, <3>2 DEF FirstTryLoses
  <2>6. ASSUME NEW p \in Callers, Retry(p) PROVE Rest'
    <3>1. LeaseAge' /\ LeaseMatchesHolder'
      <4>1. CASE Acquire(p)
        BY <2>6, <4>1, call[p].key \in Keys, AcquireAgrees DEF Retry
      <4>2. CASE UNCHANGED <<lock, held, storeVars>>
        BY <2>6, <4>2 DEF Retry
      <4>3. QED
        BY <2>6, <4>1, <4>2 DEF Retry
    <3>2. LockFollowsPc' /\ KeyIsReal'
      BY <2>6 DEF Retry, Acquire
    <3>3. QED
      BY <3>1, <3>2
  <2>7. ASSUME NEW p \in Callers, BadSeed(p) PROVE Rest'
    BY <2>7 DEF BadSeed, Return
  <2>8. ASSUME NEW p \in Callers, CheckDeadline(p) PROVE Rest'
    BY <2>8 DEF CheckDeadline, Return
  <2>9. ASSUME NEW p \in Callers, Apply(p) PROVE Rest'
    BY <2>9 DEF Apply
  <2>10. ASSUME NEW p \in Callers, Remove(p) PROVE Rest'
    BY <2>10 DEF Remove, Return, Delete
  <2>11. ASSUME NEW p \in Callers, LockCacheThrows(p) PROVE Rest'
    BY <2>11 DEF LockCacheThrows, Return, Granted
  <2>12. ASSUME NEW p \in Callers, RemoveCacheThrows(p) PROVE Rest'
    BY <2>12 DEF RemoveCacheThrows, Return, Delete, Abandon
  <2>13. ASSUME NEW p \in Callers, Crash(p) PROVE Rest'
    BY <2>13 DEF Crash, Abandon
  <2>14. ASSUME NEW p \in Callers, Restart(p) PROVE Rest'
    BY <2>14 DEF Restart
  <2>15. QED
    BY <2>1, <2>2, <2>3, <2>4, <2>5, <2>6, <2>7, <2>8, <2>9, <2>10, <2>11,
       <2>12, <2>13, <2>14 DEF Next, Step, Fail
<1>3. QED
  BY <1>1, <1>2, TypeCorrect, PTL DEF Spec, IInv

-----------------------------------------------------------------------------
(* What follows from it *)

\* Two callers never run their functions under the same key at the same time,
\* for any number of callers and any mix of failures.
THEOREM MutualExclusionHolds ==
  ASSUME MaxSection < Lease
  PROVE  Spec => []MutualExclusion
<1>1. IInv => MutualExclusion
  <2> SUFFICES ASSUME IInv, NEW p \in Callers, NEW q \in Callers, NEW k \in Keys,
                      InSection(p, k), InSection(q, k)
               PROVE  p = q
    BY DEF MutualExclusion
  <2>1. Holding(p, k) /\ Holding(q, k)
    BY DEF IInv, LockFollowsPc, InSection, Holding
  <2>2. owner[k] = p /\ owner[k] = q
    BY <2>1 DEF IInv, LeaseMatchesHolder
  <2>3. QED
    BY <2>2
<1>2. QED
  BY <1>1, Invariance, PTL

\* A key carries p's lease exactly while p is between its successful lockCache
\* and its finally.
THEOREM LeaseMatchesHolderHolds ==
  ASSUME MaxSection < Lease
  PROVE  Spec => []LeaseMatchesHolder
<1>1. IInv => LeaseMatchesHolder
  BY DEF IInv
<1>2. QED
  BY <1>1, Invariance, PTL

\* A lease with time left disappears only in its own holder's finally.
THEOREM NoForeignRemovalHolds ==
  ASSUME MaxSection < Lease
  PROVE  Spec => NoForeignRemoval
<1> DEFINE A == \A p \in Callers, k \in Keys :
                  lease[k] > 1 /\ owner[k] = p /\ lease'[k] = 0
                    => pc[p] = "remove" /\ pc'[p] = "idle"
<1>1. IInv /\ [Next]_vars => [A]_vars
  <2> SUFFICES ASSUME IInv, Next, NEW p \in Callers, NEW k \in Keys,
                      lease[k] > 1, owner[k] = p, lease'[k] = 0
               PROVE  pc[p] = "remove" /\ pc'[p] = "idle"
    BY DEF A
  <2>1. Holding(p, k)
    BY DEF IInv, LeaseMatchesHolder, TypeOK, StoreTypes
  <2>2. lease[k] \in Nat /\ lease \in [Keys -> 0 .. Lease]
    BY LeaseAssumption DEF IInv, TypeOK, StoreTypes
  <2>3. ASSUME Tick PROVE FALSE
    BY <2>2, <2>3 DEF Tick, Aged, Waited
  <2>4. ASSUME NEW q \in Callers,
               Call(q) \/ FirstTryLoses(q) \/ BadSeed(q) \/ CheckDeadline(q)
                 \/ Apply(q) \/ Restart(q) \/ Crash(q)
        PROVE  FALSE
    BY <2>2, <2>4 DEF Call, FirstTryLoses, BadSeed, CheckDeadline, Apply, Restart,
                      Crash, Abandon, storeVars
  <2>5. ASSUME NEW q \in Callers,
               FirstTryWins(q) \/ Retry(q) \/ LockCacheThrows(q)
        PROVE  FALSE
    BY <2>2, <2>5, LeaseAssumption
       DEF FirstTryWins, Retry, LockCacheThrows, Acquire, Granted, storeVars
  <2>6. ASSUME NEW q \in Callers, Remove(q) \/ RemoveCacheThrows(q)
        PROVE  pc[p] = "remove" /\ pc'[p] = "idle"
    <3>1. pc[q] = "remove" /\ pc'[q] = "idle" /\ lock[q]
      BY <2>6 DEF Remove, RemoveCacheThrows, Return, IInv, LockFollowsPc,
                  TypeOK, CallerTypes
    <3>2. call[q].key = k
      BY <2>2, <2>6 DEF Remove, RemoveCacheThrows, Delete, Abandon
    <3>3. p = q
      BY <2>1, <3>1, <3>2 DEF IInv, LeaseMatchesHolder, Holding
    <3>4. QED
      BY <3>1, <3>3
  <2>7. QED
    BY <2>3, <2>4, <2>5, <2>6 DEF Next, Step, Fail
<1>2. QED
  BY <1>1, Invariance, PTL DEF Spec, NoForeignRemoval

\* handle implements the abstract lock: every step of a caller or of the clock
\* is an Enter, a Leave, or leaves the owners of every key alone.
THEOREM LockIsImplemented ==
  ASSUME MaxSection < Lease
  PROVE  Spec => ImplementsLock
<1> DEFINE Ins == [k \in Keys |-> {p \in Callers : Holding(p, k)}]
<1>1. Init => Abstract!Init
  BY DEF Init, Abstract!Init, Holding
<1>2. IInv /\ IInv' /\ [Next]_vars => [Abstract!Next]_Ins
  <2> SUFFICES ASSUME IInv, IInv', [Next]_vars
               PROVE  Ins' = Ins \/ Abstract!Next
    OBVIOUS
  <2>1. ASSUME UNCHANGED <<call, lock>> PROVE Ins' = Ins
    BY <2>1 DEF Holding
  <2>2. ASSUME NEW p \in Callers, ~lock[p], ~lock'[p],
               \A q \in Callers \ {p} : call'[q] = call[q] /\ lock'[q] = lock[q]
        PROVE  Ins' = Ins
    BY <2>2 DEF Holding
  <2>3. ASSUME NEW p \in Callers, Acquire(p), call' = call,
               call[p].key \in Keys
        PROVE  Abstract!Enter(p, call[p].key)
    <3> DEFINE k == call[p].key
    <3>1. \A q \in Callers : ~Holding(q, k)
      BY <2>3 DEF Acquire, Granted, IInv, LeaseMatchesHolder, TypeOK, StoreTypes
    <3>2. lock' = [lock EXCEPT ![p] = TRUE]
      BY <2>3 DEF Acquire
    <3>3. \A q \in Callers, j \in Keys :
             Holding(q, j)' <=> (IF j = k THEN q = p ELSE Holding(q, j))
      BY <2>3, <3>1, <3>2 DEF Holding, IInv, TypeOK, CallerTypes,
                              LockFollowsPc
    <3>4. QED
      BY <2>3, <3>1, <3>3 DEF Abstract!Enter
  <2>4. ASSUME NEW p \in Callers, lock[p], ~lock'[p], call[p].key \in Keys,
               \A q \in Callers \ {p} : call'[q] = call[q] /\ lock'[q] = lock[q]
        PROVE  Abstract!Leave(p, call[p].key)
    <3>1. Holding(p, call[p].key)
      BY <2>4 DEF Holding
    <3>2. \A q \in Callers, j \in Keys :
             Holding(q, j)' <=> (Holding(q, j) /\ ~(q = p /\ j = call[p].key))
      BY <2>4 DEF Holding
    <3>3. QED
      BY <2>4, <3>1, <3>2 DEF Abstract!Leave
  <2>5. CASE UNCHANGED vars
    BY <2>1, <2>5 DEF vars
  <2>6. CASE Tick
    BY <2>1, <2>6 DEF Tick, Aged, Waited
  <2>7. ASSUME NEW p \in Callers, Call(p) PROVE Ins' = Ins
    BY <2>2, <2>7 DEF Call, IInv, LockFollowsPc, TypeOK, CallerTypes
  <2>8. ASSUME NEW p \in Callers, Next, pc[p] # "idle", call[p].key \in Keys,
               Step(p) \/ Fail(p)
        PROVE  Ins' = Ins \/ Abstract!Next
    <3>1. CASE Acquire(p) /\ call' = call
      BY <2>3, <2>8, <3>1 DEF Abstract!Next
    <3>2. CASE UNCHANGED <<call, lock>>
      BY <2>1, <3>2
    <3>3. CASE /\ ~lock'[p]
               /\ \A q \in Callers \ {p} :
                     call'[q] = call[q] /\ lock'[q] = lock[q]
      <4>1. CASE lock[p]
        BY <2>4, <2>8, <3>3, <4>1 DEF Abstract!Next
      <4>2. CASE ~lock[p]
        BY <2>2, <3>3, <4>2
      <4>3. QED
        BY <4>1, <4>2
    <3>4. QED
      BY <2>8, <3>1, <3>2, <3>3
         DEF Step, Fail, FirstTryWins, FirstTryLoses, Retry, BadSeed,
             CheckDeadline, Apply, Remove, LockCacheThrows, RemoveCacheThrows,
             Crash, Return, IInv, TypeOK, CallerTypes
  <2>9. ASSUME NEW p \in Callers, Step(p) \/ Fail(p), Next
        PROVE  pc[p] # "idle" /\ call[p].key \in Keys
    BY <2>9 DEF Step, Fail, FirstTryWins, FirstTryLoses, Retry, BadSeed,
             CheckDeadline, Apply, Remove, LockCacheThrows, RemoveCacheThrows,
             Crash, IInv, KeyIsReal
  <2>10. ASSUME NEW p \in Callers, Restart(p) PROVE Ins' = Ins
    BY <2>1, <2>10 DEF Restart
  <2>11. QED
    BY <2>5, <2>6, <2>7, <2>8, <2>9, <2>10 DEF Next
<1>3. QED
  BY <1>1, <1>2, Invariance, PTL DEF Spec, ImplementsLock, Abstract!Spec
=============================================================================
