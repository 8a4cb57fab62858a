------------------------------ MODULE MutexLock ------------------------------
(***************************************************************************)
(* What the mutex handler promises its callers, with no store, lease,      *)
(* clock or retry loop in sight: per key, at most one caller is inside.    *)
(* MutexOptSync is shown to implement this specification.                  *)
(***************************************************************************)
EXTENDS Naturals

CONSTANTS Callers,   \* the threads (of any node) that call the handler
          Keys       \* the mutex keys

VARIABLE inside      \* inside[k]: the callers that own k at this moment

Init == inside = [k \in Keys |-> {}]

\* A caller wins k: nobody else may own it.
Enter(p, k) ==
    /\ inside[k] = {}
    /\ inside' = [inside EXCEPT ![k] = {p}]

\* The owner gives k back (it returned, threw or died).
Leave(p, k) ==
    /\ p \in inside[k]
    /\ inside' = [inside EXCEPT ![k] = @ \ {p}]

Next == \E p \in Callers, k \in Keys : Enter(p, k) \/ Leave(p, k)

Spec == Init /\ [][Next]_inside
=============================================================================
