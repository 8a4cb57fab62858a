-------------------------- MODULE MCSimpleMsgQueue --------------------------
(* Small instances of SimpleMsgQueue for TLC. *)
EXTENDS SimpleMsgQueue, TLC

CONSTANTS m1, m2, k1

\* Two messages with the same title + content.
SameKey == m1 :> k1 @@ m2 :> k1
=============================================================================
