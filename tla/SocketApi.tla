----------------------------- MODULE SocketApi -----------------------------
(***************************************************************************)
(* What a web-socket promises its user, whatever it runs on: the ready     *)
(* state only moves forward, the socket opens at most once, no message is  *)
(* taken up after closing began, and exactly one close event ends it; an   *)
(* error is told only by a socket that never opened.  A handler may do     *)
(* several of these things in one step.                                    *)
(***************************************************************************)
EXTENDS Naturals, Sequences

CONNECTING == 0
OPEN == 1
CLOSING == 2
CLOSED == 3

CONSTANT Messages

VARIABLES readyState, events

\* Everything a user may have seen in a ready state.  A message may even come
\* before the open event: a transport that reconnects by itself can lose that.
Legal(state, seen) ==
    LET At(turn) == {i \in DOMAIN seen: seen[i] = <<turn>>}
    IN  /\ \A turn \in {"open", "error", "close"}: \A i, j \in At(turn): i = j
        /\ At("close") \subseteq {Len(seen)}
        /\ At("error") # {} => seen = << <<"error">>, <<"close">> >>
        /\ state = CONNECTING => At("open") = {}
        /\ state = OPEN => At("open") # {}
        /\ state = CLOSED <=> At("close") # {}

Init == readyState = CONNECTING /\ events = <<>>

Next ==
    /\ readyState' \in readyState..CLOSED
    /\ readyState # CLOSED
    /\ Len(events') >= Len(events) /\ SubSeq(events', 1, Len(events)) = events
    /\ \A i \in (Len(events) + 1)..Len(events'):
        LET e == events'[i] IN
        /\ e \in {<<"open">>, <<"error">>, <<"close">>} \cup ({"message"} \X Messages)
        /\ e[1] = "message" => readyState < CLOSING
        /\ e[1] = "open" => readyState = CONNECTING
    /\ Legal(readyState', events')

Spec == Init /\ [][Next]_<<readyState, events>>
=============================================================================
