----------------------------- MODULE ClientCall -----------------------------
(***************************************************************************)
(* What a channel client promises the caller of execute: one outcome per   *)
(* call; the platform handles the request of a call at most once; and the  *)
(* outcome is a success only if it did.  A failure says nothing of it: the *)
(* platform may have handled the request, or do so later.  Only a call     *)
(* refused at the door is never handled.                                   *)
(***************************************************************************)
CONSTANTS Calls

VARIABLES outcome,  \* per call: "none" before it, "open", and how it ended
          handled   \* the calls whose request the platform has handled

callVars == <<outcome, handled>>

Init ==
    /\ outcome = [c \in Calls |-> "none"]
    /\ handled = {}

Open(c) ==
    /\ outcome[c] = "none"
    /\ outcome' = [outcome EXCEPT ![c] = "open"]
    /\ UNCHANGED handled

Refuse(c) ==
    /\ outcome[c] = "none"
    /\ outcome' = [outcome EXCEPT ![c] = "refused"]
    /\ UNCHANGED handled

Handle(c) ==
    /\ outcome[c] \in {"open", "failure"}
    /\ c \notin handled
    /\ handled' = handled \cup {c}
    /\ UNCHANGED outcome

Succeed(c) ==
    /\ outcome[c] = "open"
    /\ c \in handled
    /\ outcome' = [outcome EXCEPT ![c] = "success"]
    /\ UNCHANGED handled

Fail(c) ==
    /\ outcome[c] = "open"
    /\ outcome' = [outcome EXCEPT ![c] = "failure"]
    /\ UNCHANGED handled

Next == \E c \in Calls : Open(c) \/ Refuse(c) \/ Handle(c) \/ Succeed(c) \/ Fail(c)

Spec == Init /\ [][Next]_callVars
=============================================================================
