---------------------------- MODULE MCDelayQueue ----------------------------
(* Small instances of DelayQueue for TLC. *)
EXTENDS DelayQueue, TLC

CONSTANTS m1, m2, m3, m4

\* A long delay, a short one, none, and one the broker refuses.
Mixed == m1 :> 3 @@ m2 :> 1 @@ m3 :> 0 @@ m4 :> (-1)
=============================================================================
