---------------------------- MODULE MCStompClient ----------------------------
(***************************************************************************)
(* StompClient with two connections, so that Connect can be pressed while  *)
(* the first attempt is pending.  A tick is 10 seconds: the client's       *)
(* heart-beats are those of stomp.js, the servers offer none (the broker   *)
(* of WebSocketConfig), or the first of them the same.  A message has two  *)
(* letters, one of them of two bytes, and a piece of the socket 7 tokens.  *)
(***************************************************************************)
EXTENDS StompClient

MCBodies == {<<"a", "e'">>}
MCOffers == {[c \in {1, 2} |-> IF c = d THEN <<1, 1>> ELSE <<0, 0>>]: d \in {0, 1}}
=============================================================================
