----------------------------- MODULE SockEngine -----------------------------
(***************************************************************************)
(* The objects behind one transport of SockJS, as one record: the buffered *)
(* sender, the polling with its receiver, the web-socket, or the iframe    *)
(* with a facade and the same objects inside.                              *)
(*                                                                         *)
(*   ears    the socket listens to the transport                           *)
(*   rcv     the receiver: "scheduled" its request is made but not yet     *)
(*           with the server, "waiting" the answer is open, "pause" an     *)
(*           event source that ended and tells so after 200 ms             *)
(*   why     the reason it will tell                                       *)
(*   snd     the request of the sender: "scheduled" in the timer of the    *)
(*           XHR, "inflight", or "wait", the 25 ms after a good one        *)
(*   buf, flight   messages not posted yet, and those of the request       *)
(*   frame   the iframe: "loading", "booted", "up", "removing", "gone"     *)
(*   facade  the object inside it: it "hears" the transport or is "deaf"   *)
(*   up, down      what was posted to the iframe and to the page           *)
(*   left    how a request got out of control: it was dropped before it    *)
(*           started ("early"), or another one failed ("send")             *)
(***************************************************************************)
EXTENDS SockTransports, Integers

\* new Transport: the receiver is made at once, in an iframe by the facade.
NewTransport(t) ==
    [name |-> t, ears |-> TRUE, left |-> "no", rcv |-> IF Framed(t) THEN "none" ELSE "scheduled",
     why |-> "none", snd |-> "none", buf |-> <<>>, flight |-> <<>>,
     frame |-> IF Framed(t) THEN "loading" ELSE "none", facade |-> "none", up |-> <<>>, down |-> <<>>]

NoTransport == [NewTransport("jsonp-polling") EXCEPT !.name = "none", !.rcv = "none", !.ears = FALSE]

Running(e) == e.rcv # "none" \/ e.snd # "none" \/ e.frame \in {"loading", "booted", "up", "removing"}

-----------------------------------------------------------------------------
\* Mutant of SendSchedule: the buffer is not emptied.
SendScheduleTwice(e) ==
    IF e.buf = <<>> THEN [e EXCEPT !.snd = "none"]
    ELSE [e EXCEPT !.flight = e.buf, !.snd = IF Sender(e.name) = "ajax" THEN "scheduled" ELSE "inflight"]

\* sendSchedule: everything buffered goes out in one request.
SendSchedule(e) ==
    IF e.buf = <<>> THEN [e EXCEPT !.snd = "none"]
    ELSE [e EXCEPT !.flight = e.buf, !.buf = <<>>,
                   !.snd = IF Sender(e.name) = "ajax" THEN "scheduled" ELSE "inflight"]

\* send of the transport: only while no request and no wait is pending.
EngineSend(e, m) ==
    IF Sender(e.name) = "ws" THEN [e EXCEPT !.flight = Append(@, m)]
    ELSE LET b == [e EXCEPT !.buf = Append(@, m)]
         IN  IF e.snd = "none" THEN SendSchedule(b) ELSE b

\* abort of the receiver: an XHR that has not started yet is not stopped.
Abort(e) ==
    IF e.rcv = "scheduled" /\ StartsLater(e.name) THEN [e EXCEPT !.left = "early"]
    ELSE [e EXCEPT !.rcv = "none", !.why = "none"]

\* stop of the sender: the wait is cleared and a started request aborted; a
\* form and a web-socket cannot take back what they were given.
Stop(e) ==
    CASE e.snd = "scheduled" -> [e EXCEPT !.left = "early"]
      [] e.snd = "inflight" /\ Sender(e.name) = "ajax" -> [e EXCEPT !.snd = "none", !.flight = <<>>]
      [] OTHER -> [e EXCEPT !.snd = "none"]

\* close of SenderReceiver and of WebSocketTransport.
EngineClose(e) == Stop(Abort(e))

-----------------------------------------------------------------------------
\* send and close of a transport as the socket calls them.

\* Mutant of TransportClose: the iframe stays in the page.
TransportCloseHidden(e) == IF Framed(e.name) THEN [e EXCEPT !.ears = FALSE] ELSE [EngineClose(e) EXCEPT !.ears = FALSE]

TransportSend(e, m) == IF Framed(e.name) THEN [e EXCEPT !.up = Append(@, [type |-> "m", m |-> m])]
                       ELSE EngineSend(e, m)

TransportClose(e) ==
    IF ~Framed(e.name) THEN [EngineClose(e) EXCEPT !.ears = FALSE]
    ELSE IF e.frame \notin {"loading", "booted", "up"} THEN [e EXCEPT !.ears = FALSE]
    ELSE [e EXCEPT !.ears = FALSE, !.frame = "removing", !.up = Append(@, [type |-> "c"])]

\* postMessage of the facade: something goes from the iframe to the page.
postMessage(e, d) == [e EXCEPT !.down = Append(@, d)]

\* setTimeout 0 of createIframe's cleanup: everything in the iframe ends.
Removed(e) == [NoTransport EXCEPT !.name = e.name, !.ears = e.ears, !.left = e.left, !.frame = "gone"]

\* onMessage of the iframe: 's' makes the facade and its transport, unless the
\* version or the origin is refused, 'm' sends and 'c' closes.
FrameReceives(e, msg, refused) ==
    LET r == [e EXCEPT !.up = Tail(@)]
    IN  CASE msg.type = "s" -> IF refused THEN r ELSE [r EXCEPT !.facade = "hears", !.rcv = "scheduled"]
          [] msg.type = "m" -> IF e.facade = "none" THEN r ELSE EngineSend(r, msg.m)
          [] msg.type = "c" -> IF e.facade = "none" THEN r ELSE [EngineClose(r) EXCEPT !.facade = "none"]
=============================================================================
