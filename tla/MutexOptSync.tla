---------------------------- MODULE MutexOptSync ----------------------------
(***************************************************************************)
(* MutexOptSyncUtils.RedisMutexOptSyncHandler.handle: callers on several   *)
(* nodes run a function under a key that lives, with a lease, in a shared  *)
(* store.  lockCache/removeCache are abstract in the code; they stand here *)
(* for "set if absent, with an expiry" and "delete the key", which is what *)
(* their signatures and comments ask for.  A call with stub = TRUE goes    *)
(* through sync as it ships today, whose lockCache always refuses.         *)
(*                                                                         *)
(* Time is kept as durations: what is left of each lease, what is left of  *)
(* each caller's patience, how long each holder has held.  One Tick passes *)
(* for the store and for every caller alike (no clock drift).              *)
(***************************************************************************)
EXTENDS Integers

CONSTANTS Callers,     \* threads of any node that call handle
          Keys,        \* the usable mutex keys
          Blank,       \* a blank mutexOptKey
          Calls,       \* the argument records callers may pass
          Nobody,      \* no caller owns the key
          Lease,       \* the 10 minutes of lockCache(key, 10*60*1000)
          MaxSection,  \* longest stay between winning the lock and giving it up
          Failures     \* which of the possible failures this instance has

ASSUME LeaseAssumption == Lease \in Nat \ {0} /\ MaxSection \in Nat
ASSUME NamesAssumption == Nobody \notin Callers /\ Blank \notin Keys
ASSUME CallsAssumption ==
    /\ Calls # {}
    /\ Calls \subseteq [key : Keys \cup {Blank}, stub : BOOLEAN,
                        blocked : BOOLEAN, timeout : Int, waitSeed : Int]
ASSUME FailuresAssumption ==
    Failures \subseteq {"lockCache", "removeCache", "function", "crash"}

VARIABLES
    pc,         \* where each caller is in handle
    call,       \* the wrapper of its call in progress
    lock,       \* the local variable lock
    remaining,  \* current - now, the patience left; -1 once it is over
    held,       \* time since the lock was won, while lock is TRUE
    result,     \* what the call returns or returned
    lease,      \* the store: time left before each key expires, 0 if absent
    owner       \* who put the key there (history: the code stores no owner)

callerVars == <<pc, call, lock, remaining, held, result>>
storeVars  == <<lease, owner>>
vars == <<pc, call, lock, remaining, held, result, lease, owner>>

PCs     == {"idle", "first", "sleep", "check", "apply", "remove", "crashed"}
Results == {"none", "null", "exclusive", "timeout", "direct", "thrown"}

\* What call holds while no call is in progress: any record will do.
NoCall == CHOOSE c \in Calls : TRUE

Init ==
    /\ pc = [p \in Callers |-> "idle"]
    /\ call = [p \in Callers |-> NoCall]
    /\ lock = [p \in Callers |-> FALSE]
    /\ remaining = [p \in Callers |-> -1]
    /\ held = [p \in Callers |-> 0]
    /\ result = [p \in Callers |-> "none"]
    /\ lease = [k \in Keys |-> 0]
    /\ owner = [k \in Keys |-> Nobody]

Holding(p, k)   == lock[p] /\ call[p].key = k
InSection(p, k) == pc[p] = "apply" /\ call[p].key = k

-----------------------------------------------------------------------------
(* The store *)

\* Mutant of Granted: lockCache overwrites a key that is there.
GrantedAlways(p) == ~call[p].stub

\* lockCache answers TRUE exactly when the key is absent; the shipped stub never.
Granted(p) == ~call[p].stub /\ lease[call[p].key] = 0

\* The key is written with a full lease and the caller sees TRUE.
Acquire(p) ==
    /\ Granted(p)
    /\ lease' = [lease EXCEPT ![call[p].key] = Lease]
    /\ owner' = [owner EXCEPT ![call[p].key] = p]
    /\ lock' = [lock EXCEPT ![p] = TRUE]
    /\ held' = [held EXCEPT ![p] = 0]

\* removeCache: the key goes, whoever wrote it.
Delete(k) ==
    /\ lease' = [lease EXCEPT ![k] = 0]
    /\ owner' = [owner EXCEPT ![k] = Nobody]

\* The key stays behind although p will never remove it.
Abandon(p, k) ==
    /\ owner' = [owner EXCEPT ![k] = IF @ = p THEN Nobody ELSE @]
    /\ UNCHANGED lease

-----------------------------------------------------------------------------
(* The caller *)

\* handle returns (or throws): its locals are gone.
Return(p, r) ==
    /\ pc' = [pc EXCEPT ![p] = "idle"]
    /\ result' = [result EXCEPT ![p] = r]
    /\ lock' = [lock EXCEPT ![p] = FALSE]
    /\ held' = [held EXCEPT ![p] = 0]
    /\ remaining' = [remaining EXCEPT ![p] = -1]
    /\ call' = [call EXCEPT ![p] = NoCall]

\* handle(wrapper, function); a blank key returns null at once.
Call(p) ==
    /\ pc[p] = "idle"
    /\ \E c \in Calls :
        \/ /\ c.key = Blank
           /\ result' = [result EXCEPT ![p] = "null"]
           /\ UNCHANGED <<pc, call>>
        \/ /\ c.key # Blank
           /\ call' = [call EXCEPT ![p] = c]
           /\ result' = [result EXCEPT ![p] = "none"]
           /\ pc' = [pc EXCEPT ![p] = "first"]
    /\ UNCHANGED <<lock, remaining, held, storeVars>>

\* The first lockCache wins: straight to the function.
FirstTryWins(p) ==
    /\ pc[p] = "first"
    /\ Acquire(p)
    /\ pc' = [pc EXCEPT ![p] = "apply"]
    /\ UNCHANGED <<call, remaining, result>>

\* The first lockCache loses: leave, or fix the deadline and enter the loop
\* (not even once when timeout() <= 0).
FirstTryLoses(p) ==
    /\ pc[p] = "first"
    /\ ~Granted(p)
    /\ \/ /\ ~call[p].blocked
          /\ Return(p, "direct")
       \/ /\ call[p].blocked
          /\ call[p].timeout <= 0
          /\ Return(p, "timeout")
       \/ /\ call[p].blocked
          /\ call[p].timeout > 0
          /\ remaining' = [remaining EXCEPT ![p] = call[p].timeout]
          /\ pc' = [pc EXCEPT ![p] = "sleep"]
          /\ UNCHANGED <<call, lock, held, result>>
    /\ UNCHANGED storeVars

\* One round of the loop: sleep, then lockCache again.
Retry(p) ==
    /\ pc[p] = "sleep"
    /\ call[p].waitSeed > 0
    /\ pc' = [pc EXCEPT ![p] = "check"]
    /\ \/ Acquire(p)
       \/ /\ ~Granted(p)
          /\ UNCHANGED <<lock, held, storeVars>>
    /\ UNCHANGED <<call, remaining, result>>

\* random.nextInt(waitSeed) throws for waitSeed <= 0; no lock is held there.
BadSeed(p) ==
    /\ pc[p] = "sleep"
    /\ call[p].waitSeed <= 0
    /\ Return(p, "thrown")
    /\ UNCHANGED storeVars

\* Mutant of CheckDeadline: after the loop the function runs, lock or no lock.
CheckDeadlineEntersAnyway(p) ==
    /\ pc[p] = "check"
    /\ pc' = [pc EXCEPT ![p] = IF lock[p] \/ remaining[p] < 0 THEN "apply" ELSE "sleep"]
    /\ UNCHANGED <<call, lock, remaining, held, result, storeVars>>

\* Mutant of CheckDeadline: the loop forgets isTimeout.
CheckDeadlineForever(p) ==
    /\ pc[p] = "check"
    /\ pc' = [pc EXCEPT ![p] = IF lock[p] THEN "apply" ELSE "sleep"]
    /\ UNCHANGED <<call, lock, remaining, held, result, storeVars>>

\* isTimeout is read after the retry; a lock won meanwhile beats the timeout.
CheckDeadline(p) ==
    /\ pc[p] = "check"
    /\ \/ /\ lock[p]
          /\ pc' = [pc EXCEPT ![p] = "apply"]
          /\ UNCHANGED <<call, lock, remaining, held, result>>
       \/ /\ ~lock[p]
          /\ remaining[p] < 0
          /\ Return(p, "timeout")
       \/ /\ ~lock[p]
          /\ remaining[p] >= 0
          /\ pc' = [pc EXCEPT ![p] = "sleep"]
          /\ UNCHANGED <<call, lock, remaining, held, result>>
    /\ UNCHANGED storeVars

\* function.apply ends, with a value or an exception; finally comes next.
Apply(p) ==
    /\ pc[p] = "apply"
    /\ \/ result' = [result EXCEPT ![p] = "exclusive"]
       \/ /\ "function" \in Failures
          /\ result' = [result EXCEPT ![p] = "thrown"]
    /\ pc' = [pc EXCEPT ![p] = "remove"]
    /\ UNCHANGED <<call, lock, remaining, held, storeVars>>

\* finally: if (lock) removeCache(key), then the pending value or exception.
Remove(p) ==
    /\ pc[p] = "remove"
    /\ Delete(call[p].key)
    /\ Return(p, result[p])

-----------------------------------------------------------------------------
(* Failures and time *)

\* lockCache throws before or after the key was written: lock stays FALSE, so
\* finally removes nothing and a written key waits for its expiry.
LockCacheThrows(p) ==
    /\ "lockCache" \in Failures
    /\ pc[p] \in {"first", "sleep"}
    /\ ~call[p].stub
    /\ Return(p, "thrown")
    /\ \/ UNCHANGED storeVars
       \/ /\ Granted(p)
          /\ lease' = [lease EXCEPT ![call[p].key] = Lease]
          /\ owner' = [owner EXCEPT ![call[p].key] = Nobody]

\* removeCache throws before or after the key was deleted.
RemoveCacheThrows(p) ==
    /\ "removeCache" \in Failures
    /\ pc[p] = "remove"
    /\ Return(p, "thrown")
    /\ Delete(call[p].key) \/ Abandon(p, call[p].key)

\* The node dies in the middle of handle: no finally.
Crash(p) ==
    /\ "crash" \in Failures
    /\ pc[p] \notin {"idle", "crashed"}
    /\ pc' = [pc EXCEPT ![p] = "crashed"]
    /\ lock' = [lock EXCEPT ![p] = FALSE]
    /\ held' = [held EXCEPT ![p] = 0]
    /\ remaining' = [remaining EXCEPT ![p] = -1]
    /\ call' = [call EXCEPT ![p] = NoCall]
    /\ result' = [result EXCEPT ![p] = "none"]
    /\ Abandon(p, call[p].key)

Restart(p) ==
    /\ pc[p] = "crashed"
    /\ pc' = [pc EXCEPT ![p] = "idle"]
    /\ UNCHANGED <<call, lock, remaining, held, result, storeVars>>

\* Mutant of Aged: keys are written without an expiry.
AgedNever(k) == lease[k]

\* What is left of the lease on k one tick later.
Aged(k) == IF lease[k] > 0 THEN lease[k] - 1 ELSE 0

\* What is left of p's patience one tick later.
Waited(p) == IF remaining[p] >= 0 THEN remaining[p] - 1 ELSE -1

\* Time passes; no holder stays longer than MaxSection.
Tick ==
    /\ \A p \in Callers : lock[p] => held[p] < MaxSection
    /\ lease' = [k \in Keys |-> Aged(k)]
    /\ owner' = [k \in Keys |-> IF Aged(k) > 0 THEN owner[k] ELSE Nobody]
    /\ held' = [p \in Callers |-> IF lock[p] THEN held[p] + 1 ELSE 0]
    /\ remaining' = [p \in Callers |-> Waited(p)]
    /\ UNCHANGED <<pc, call, lock, result>>

-----------------------------------------------------------------------------

Step(p) ==
    \/ FirstTryWins(p) \/ FirstTryLoses(p) \/ Retry(p) \/ BadSeed(p)
    \/ CheckDeadline(p) \/ Apply(p) \/ Remove(p)

Fail(p) == LockCacheThrows(p) \/ RemoveCacheThrows(p) \/ Crash(p)

Next == Tick \/ \E p \in Callers : Call(p) \/ Step(p) \/ Fail(p) \/ Restart(p)

Spec == Init /\ [][Next]_vars

\* Every started thread is scheduled, every function ends, time passes.
\* Nobody is obliged to call, to fail or to restart.
Fairness == WF_vars(Tick) /\ \A p \in Callers : WF_vars(Step(p))

FairSpec == Spec /\ Fairness

-----------------------------------------------------------------------------
(* Properties *)

CallerTypes ==
    /\ pc \in [Callers -> PCs]
    /\ call \in [Callers -> Calls]
    /\ lock \in [Callers -> BOOLEAN]
    /\ remaining \in [Callers -> Nat \cup {-1}]
    /\ held \in [Callers -> 0 .. MaxSection]
    /\ result \in [Callers -> Results]

StoreTypes ==
    /\ lease \in [Keys -> 0 .. Lease]
    /\ owner \in [Keys -> Callers \cup {Nobody}]

\* Every variable keeps its type: in particular no lease exceeds Lease and the
\* patience of a caller ends at -1.
TypeOK == CallerTypes /\ StoreTypes

\* Two callers never run their functions under the same key at the same time,
\* whatever fails and whoever times out (the purpose of handle).
MutualExclusion ==
    \A p, q \in Callers, k \in Keys :
        InSection(p, k) /\ InSection(q, k) => p = q

\* The store and the callers agree: a key carries p's lease exactly while p is
\* between its successful lockCache and its finally.  So a call that returned,
\* timed out or threw leaves no key of its own behind, and a holder never loses
\* the key it relies on.
LeaseMatchesHolder ==
    \A p \in Callers, k \in Keys :
        Holding(p, k) <=> (lease[k] > 0 /\ owner[k] = p)

\* A lease with time left disappears only in its own holder's finally: neither
\* a caller that lost the race nor one that gave up deletes it.
NoForeignRemoval ==
    [][\A p \in Callers, k \in Keys :
          lease[k] > 1 /\ owner[k] = p /\ lease'[k] = 0
            => pc[p] = "remove" /\ pc'[p] = "idle"]_vars

\* handle implements the abstract lock.
Abstract == INSTANCE MutexLock
    WITH inside <- [k \in Keys |-> {p \in Callers : Holding(p, k)}]
ImplementsLock == Abstract!Spec

\* Every call ends (by winning, giving up or failing) unless its node dies.
EveryCallReturns ==
    \A p \in Callers :
        pc[p] \notin {"idle", "crashed"} ~> pc[p] \in {"idle", "crashed"}

\* A key nobody will remove (its holder crashed, or lockCache or removeCache
\* failed half way) becomes free again (the TODO above lockCache).
OrphanExpires ==
    \A k \in Keys : lease[k] > 0 /\ owner[k] = Nobody ~> lease[k] = 0
=============================================================================
