------------------------------- MODULE SockJS -------------------------------
(***************************************************************************)
(* One SockJS socket of a page with its transports, the user of the socket *)
(* and the server: sockjs.js from the constructor to the close event.      *)
(*                                                                         *)
(* A handler of the page (a timer, an event of a request, of a web-socket, *)
(* of an iframe, a call of the user) is one action with everything it      *)
(* calls, down to what the user does inside onopen or onmessage.  The      *)
(* objects are one record, changed by the operators named after the        *)
(* functions.  Time is abstract: a timer that is set fires at any moment,  *)
(* only those of 0 ms keep their order.                                    *)
(*                                                                         *)
(* A transport that was given up by the connection timeout is nobody's:    *)
(* it goes on, but only its name is kept, in left.                         *)
(***************************************************************************)
EXTENDS SockEngine, SequencesExt

CONSTANTS Places,       \* the browsers, servers and options to try
          MaxMessages,  \* messages of the server
          MaxSaid       \* messages of the user

ASSUME BoundsAssumption == MaxMessages \in Nat /\ MaxSaid \in Nat

CONNECTING == 0
OPEN == 1
CLOSING == 2
CLOSED == 3

VARIABLES place,  \* browser, flags of info and url, websocket, whitelist, and
                  \* wire, a bound on the frames on the way to the socket
          sock,   \* the SockJS object with what its user has seen
          tr,     \* _transport, or the last one
          left,   \* transports that timed out and were never closed
          srv     \* the server's side of the session of tr

vars == <<place, sock, tr, left, srv>>

\* state: "none" before the first request and after the session was lost;
\* queue: messages waiting for an answer to go into; wire: frames on the way.
\* sent: the last message of the server in any session, base: before this one.
NewSession(sent) == [state |-> "none", queue |-> <<>>, wire |-> <<>>, sent |-> sent, base |-> sent,
                     got |-> <<>>]

Messages == 1..MaxMessages
Frames == [type: {"o", "h", "c"}] \cup [type: {"a"}, msgs: Seq(Messages) \ {<<>>}]
Events == {<<"open">>, <<"error">>, <<"close">>} \cup ({"message"} \X Messages)

Sockets == [readyState: CONNECTING..CLOSED, ir: BOOLEAN, info: {"scheduled", "asking", "done", "zombie"},
            transports: Seq(TransportNames), transport: BOOLEAN, timer: BOOLEAN, stale: Nat,
            closes: Seq(BOOLEAN), said: 0..MaxSaid, events: Seq(Events)]

Said == 1..MaxSaid
ToFrame == [type: {"s", "c"}] \cup [type: {"m"}, m: Said]
ToPage == [type: {"s"}] \cup [type: {"t"}, frame: Frames] \cup [type: {"c"}, code: {1000, 1006}]
Engines == [name: TransportNames \cup {"none"}, ears: BOOLEAN, left: {"no", "early", "send", "timeout"},
            rcv: {"none", "scheduled", "waiting", "pause"}, why: {"none", "network", "permanent"},
            snd: {"none", "scheduled", "inflight", "wait"}, buf: Seq(Said), flight: Seq(Said),
            frame: {"none", "loading", "booted", "up", "removing", "gone"},
            facade: {"none", "hears", "deaf"}, up: Seq(ToFrame), down: Seq(ToPage)]

OnWire == Frames \cup [type: {"end"}]
Sessions == [state: {"none", "open", "closed"}, queue: Seq(Messages), wire: Seq(OnWire),
             sent: 0..MaxMessages, base: 0..MaxMessages, got: Seq(Said)]

TypeOK == /\ place \in Places /\ left \subseteq TransportNames
          /\ sock \in Sockets /\ tr \in Engines /\ srv \in Sessions

Init ==
    /\ place \in Places
    /\ sock = [readyState |-> CONNECTING, ir |-> TRUE, info |-> "scheduled", transports |-> <<>>,
               transport |-> FALSE, timer |-> FALSE, stale |-> 0, closes |-> <<>>,
               said |-> 0, events |-> <<>>]
    /\ tr = NoTransport /\ left = {} /\ srv = NewSession(0)

-----------------------------------------------------------------------------
\* The socket.  x holds the parts a handler may change.

Now == [sock |-> sock, tr |-> tr, left |-> left, srv |-> srv]
Become(x) == /\ sock' = x.sock /\ tr' = x.tr /\ left' = x.left /\ srv' = x.srv
             /\ UNCHANGED place

dispatchEvent(x, e) == [x EXCEPT !.sock.events = Append(@, e)]

\* _close: the request for info and the transport are closed, and a timer ends
\* the socket.  A request for info that has not begun is made all the same.
\* The connection timers only look at a connecting socket, so none is kept.
Silenced(s) == [s EXCEPT !.ir = FALSE, !.transport = FALSE,
                         !.info = IF ~s.ir THEN @ ELSE IF @ = "scheduled" THEN "zombie" ELSE "done"]
Closing(s) == [s EXCEPT !.readyState = CLOSING, !.closes = Append(@, s.ir), !.timer = FALSE, !.stale = 0]
_close(x) == [x EXCEPT !.sock = Silenced(IF @.readyState = CLOSED THEN @ ELSE Closing(@)),
                       !.tr = IF x.sock.transport THEN TransportClose(@) ELSE @]

\* close and send as the user calls them.
close(x) == IF x.sock.readyState \in {CLOSING, CLOSED} THEN x ELSE _close(x)
send(x) ==
    IF x.sock.readyState = OPEN /\ x.sock.said < MaxSaid
    THEN [x EXCEPT !.sock.said = @ + 1, !.tr = TransportSend(@, x.sock.said + 1)] ELSE x
Handler(x, does) == CASE does = "send" -> send(x) [] does = "close" -> close(x) [] OTHER -> x

\* Mutant of _connect: no timer.
_connectUntimed(x) ==
    LET s == x.sock
    IN  IF s.transports = <<>> THEN _close(x)
        ELSE [x EXCEPT !.sock.transports = Tail(@), !.sock.transport = TRUE,
                       !.tr = NewTransport(Head(s.transports)), !.srv = NewSession(@.sent)]

\* _connect: the next transport with a timer of its own.  The timer of the
\* transport before is not cleared when that one failed by itself.
Attempting(s) == [s EXCEPT !.transports = Tail(@), !.transport = TRUE, !.timer = TRUE,
                           !.stale = @ + (IF s.timer THEN 1 ELSE 0)]
_connect(x) ==
    IF x.sock.transports = <<>> THEN _close(x)
    ELSE [x EXCEPT !.sock = Attempting(@), !.tr = NewTransport(Head(x.sock.transports)),
                   !.srv = NewSession(@.sent)]

\* _receiveInfo, with info or without.
Informed(s) == [s EXCEPT !.ir = FALSE, !.info = "done"]
_receiveInfo(x, got) ==
    LET list == filterToEnabled(place.whitelist, place.browser, place.info, place.websocket)
    IN  IF got THEN _connect([x EXCEPT !.sock = [Informed(@) EXCEPT !.transports = list]])
        ELSE _close([x EXCEPT !.sock = Informed(@)])

userSetCode(code) == code = 1000 \/ code \in 3000..4999

_transportClose(x, code) ==
    LET y == IF x.sock.transport THEN [x EXCEPT !.sock.transport = FALSE, !.tr.ears = FALSE] ELSE x
    IN  IF ~userSetCode(code) /\ code # 2000 /\ x.sock.readyState = CONNECTING THEN _connect(y)
        ELSE _close(y)

Opened(s) == [s EXCEPT !.readyState = OPEN, !.timer = FALSE, !.stale = 0]

\* Mutant of _open: a second 'o' is taken for the first.
_openAgain(x, does) == Handler(dispatchEvent([x EXCEPT !.sock = Opened(@)], <<"open">>), does)

\* _open: a session the server forgot opens again, which ends the socket.
_open(x, does) ==
    IF x.sock.readyState = CONNECTING
    THEN Handler(dispatchEvent([x EXCEPT !.sock = Opened(@)], <<"open">>), does)
    ELSE _close(x)

\* The messages of one frame all reach the user, also after a close in between.
dispatchAll(x, msgs, does) ==
    LET first == Handler(dispatchEvent(x, <<"message", Head(msgs)>>), does)
        rest == [i \in 1..Len(msgs) - 1 |-> <<"message", msgs[i + 1]>>]
    IN  [first EXCEPT !.sock.events = @ \o rest]

_transportMessage(x, frame, does) ==
    CASE frame.type = "o" -> _open(x, does)
      [] frame.type = "h" -> x
      [] frame.type = "a" -> dispatchAll(x, frame.msgs, does)
      [] frame.type = "c" -> _close(x)

-----------------------------------------------------------------------------
\* What the objects of a transport emit: to the socket if it listens, in an
\* iframe to the facade, which posts it to the page.

EmitMessage(x, frame, does) ==
    IF Framed(x.tr.name)
    THEN IF x.tr.facade = "hears" THEN [x EXCEPT !.tr = postMessage(@, [type |-> "t", frame |-> frame])] ELSE x
    ELSE IF x.tr.ears THEN _transportMessage(x, frame, does) ELSE x

EmitClose(x, code) ==
    IF Framed(x.tr.name)
    THEN IF x.tr.facade = "hears" THEN [x EXCEPT !.tr = postMessage(@, [type |-> "c", code |-> code])] ELSE x
    ELSE IF x.tr.ears THEN _transportClose(x, code) ELSE x

\* The next frame on the wire, and n of them in one handler of the receiver; the
\* user does something in the first handler.
Take(x, does) == EmitMessage([x EXCEPT !.srv.wire = Tail(@)], Head(x.srv.wire), does)
Receive(x, n, does) ==
    LET after[i \in 0..n] == IF i = 0 THEN x ELSE Take(after[i - 1], IF i = 1 THEN does ELSE "nothing")
    IN  after[n]

\* The receiver ended: Polling makes another one or gives up, unless it was
\* aborted meanwhile or never had a polling left.
PollAgain(x) == [x EXCEPT !.tr.rcv = IF x.tr.left = "early" THEN "none" ELSE "scheduled", !.tr.why = "none"]
PollGivesUp(x, code) == EmitClose([x EXCEPT !.tr = EngineClose([@ EXCEPT !.rcv = "none", !.why = "none"])], code)

\* Mutant of ReceiverCloses: Polling goes on after any end.
ReceiverClosesAgain(x, reason) == IF x.tr.rcv = "none" THEN x ELSE PollAgain(x)

ReceiverCloses(x, reason) ==
    CASE x.tr.rcv = "none" -> x
      [] x.tr.rcv # "none" /\ reason = "network" -> PollAgain(x)
      [] OTHER -> PollGivesUp(x, 1006)

-----------------------------------------------------------------------------
\* The user and the timers of the socket.

Does == {"nothing", "send", "close"}

\* A call from a click or a timer of the page.  While the socket is connecting
\* send throws and changes nothing.
UserSends == /\ sock.readyState = OPEN /\ sock.said < MaxSaid /\ Become(send(Now))
UserCloses == /\ sock.readyState \in {CONNECTING, OPEN} /\ Become(close(Now))

\* doXhr, the answer to /info and its timeout.  The fake request always gets one.
InfoStarts == /\ sock.info = "scheduled" /\ Become([Now EXCEPT !.sock.info = "asking"])
InfoArrives == /\ sock.info = "asking"
               /\ \E got \in {TRUE} \cup (IF InfoMethod(place.browser, place.info) = "fake" THEN {} ELSE {FALSE}):
                    Become(_receiveInfo(Now, got))
InfoTimesOut == /\ sock.info = "asking" /\ Become(_receiveInfo(Now, FALSE))

\* _transportTimeout, by the timer of this transport or of one before.  The
\* transport is let go, not closed.
GiveUp(x) == _transportClose([x EXCEPT !.left = @ \cup {tr.name}, !.tr.left = "timeout"], 2007)
TransportTimesOut == /\ sock.readyState = CONNECTING /\ sock.timer
                     /\ Become(GiveUp([Now EXCEPT !.sock.timer = FALSE]))
StaleTimerFires == /\ sock.readyState = CONNECTING /\ sock.stale > 0
                   /\ Become(GiveUp([Now EXCEPT !.sock.stale = @ - 1]))

\* The timer of _close; the one that removes an iframe was set before it.
CloseTimer ==
    /\ sock.closes # <<>> /\ tr.frame # "removing"
    /\ LET x == [Now EXCEPT !.sock.readyState = CLOSED, !.sock.closes = Tail(@)]
       IN  Become(dispatchEvent(IF Head(sock.closes) THEN dispatchEvent(x, <<"error">>) ELSE x, <<"close">>))

-----------------------------------------------------------------------------
\* The receiver of the transport.

RequestStarts == /\ tr.rcv = "scheduled" /\ Become([Now EXCEPT !.tr.rcv = "waiting"])

\* onmessage of a web-socket or an event source, message of the htmlfile, and
\* the chunk handler of the XHR, which takes several frames at once.
Chunk ==
    /\ tr.rcv = "waiting" /\ ~OneFrame(tr.name)
    /\ \E n \in 1..Len(srv.wire), does \in Does:
        /\ \A i \in 1..n: srv.wire[i].type # "end"
        /\ Receiver(tr.name) = "stream" \/ n = 1
        /\ Become(Receive(Now, n, does))

\* The answer is complete: a good status or the JSONP callback, with the frames
\* still unread; the event source and the htmlfile have read them all.
Emptied(x) == [x EXCEPT !.srv.wire = <<>>]
AnswerEnds ==
    /\ tr.rcv = "waiting" /\ srv.wire # <<>> /\ Receiver(tr.name) # "ws"
    /\ LET ended == Last(srv.wire).type = "end"
           unread == Len(srv.wire) - (IF ended THEN 1 ELSE 0)
       IN  \/ /\ OneFrame(tr.name) \/ (Receiver(tr.name) = "stream" /\ ended)
              /\ \E does \in Does: Become(ReceiverCloses(Emptied(Receive(Now, unread, does)), "network"))
           \/ /\ Receiver(tr.name) = "html" /\ unread = 0
              /\ Become(ReceiverCloses(Emptied(Now), "network"))
           \/ /\ Receiver(tr.name) = "es" /\ unread = 0
              /\ Become([Emptied(Now) EXCEPT !.tr.rcv = "pause", !.tr.why = "network"])

\* A bad status, a broken connection, a load timeout of an iframe or a script:
\* what is on the wire is lost.  The event source and a started htmlfile may
\* call it a normal end.
RequestFails ==
    /\ tr.rcv \in {"scheduled", "waiting"} /\ Receiver(tr.name) # "ws"
    /\ LET lost == Emptied(Now)
       IN  IF Receiver(tr.name) = "es"
           THEN \E why \in {"network", "permanent"}:
                    Become([lost EXCEPT !.tr.rcv = "pause", !.tr.why = why])
           ELSE \E why \in {"permanent"} \cup (IF Receiver(tr.name) = "html" /\ tr.rcv = "waiting"
                                               THEN {"network"} ELSE {}):
                    Become(ReceiverCloses(lost, why))

\* The 200 ms of an event source are over.
PauseEnds == /\ tr.rcv = "pause" /\ Become(ReceiverCloses(Now, tr.why))

\* onclose and onerror of the web-socket, after the frames on the wire or with
\* their loss.
WebSocketEnds ==
    /\ tr.rcv \in {"scheduled", "waiting"} /\ Receiver(tr.name) = "ws"
    /\ \E code \in {1000, 1006}:
        /\ code = 1000 => srv.wire # <<>> /\ Head(srv.wire).type = "end"
        /\ Become(EmitClose([Now EXCEPT !.srv.wire = <<>>, !.tr.rcv = "none", !.tr.flight = <<>>], code))

-----------------------------------------------------------------------------
\* The sender of the transport.

SendStarts == /\ tr.snd = "scheduled" /\ Become([Now EXCEPT !.tr.snd = "inflight"])

\* The callback without an error: an ajax sender knows that the server has the
\* messages, a form only that the iframe loaded something.
SendSucceeds ==
    /\ tr.snd = "inflight"
    /\ Sender(tr.name) = "ajax" => tr.flight = <<>>
    /\ Become([Now EXCEPT !.tr.snd = "wait", !.tr.flight = <<>>])

\* The callback with an error ends the sender, and nobody aborts the polling.
SendFails ==
    /\ tr.snd \in {"scheduled", "inflight"} /\ Sender(tr.name) = "ajax"
    /\ LET e == [tr EXCEPT !.snd = "none", !.flight = <<>>, !.left = IF @ = "no" THEN "send" ELSE @]
           x == EmitClose([Now EXCEPT !.tr = e], 1006)
       IN  Become([x EXCEPT !.tr.facade = IF @ = "hears" THEN "deaf" ELSE @])

WaitEnds == /\ tr.snd = "wait" /\ Become([Now EXCEPT !.tr = SendSchedule(@)])

-----------------------------------------------------------------------------
\* The iframe.

\* bootstrap_iframe posts 's'.
FrameBoots == /\ tr.frame = "loading"
              /\ Become([Now EXCEPT !.tr = postMessage([@ EXCEPT !.frame = "booted"], [type |-> "s"])])

\* emit('close') of the iframe transport, which then closes itself.
FrameEmits(x, code) == IF x.tr.ears THEN _transportClose(x, code) ELSE x

\* onerror, or one of the timers of createIframe that the first 's' clears.
FrameFails == /\ tr.frame \in {"loading", "booted"}
              /\ LET e == [TransportClose(tr) EXCEPT !.ears = tr.ears]
                 IN  Become(FrameEmits([Now EXCEPT !.tr = e], 1006))

\* _message of the page, until close detached it.
PageReceives ==
    /\ tr.frame \in {"booted", "up"} /\ tr.down # <<>>
    /\ LET msg == Head(tr.down)
           e == [tr EXCEPT !.down = Tail(@)]
       IN  CASE msg.type = "s" ->
                    Become([Now EXCEPT !.tr = [e EXCEPT !.frame = "up", !.up = Append(@, [type |-> "s"])]])
             [] msg.type = "t" ->
                    \E does \in Does: Become(IF e.ears THEN _transportMessage([Now EXCEPT !.tr = e], msg.frame, does)
                                             ELSE [Now EXCEPT !.tr = e])
             [] msg.type = "c" ->
                    Become(FrameEmits([Now EXCEPT !.tr = [TransportClose(e) EXCEPT !.ears = tr.ears]], msg.code))

FrameGets == /\ tr.frame \in {"up", "removing"} /\ tr.up # <<>>
             /\ \E refused \in BOOLEAN:
                    Become([Now EXCEPT !.tr = FrameReceives(@, Head(tr.up), refused)])

FrameRemoved == /\ tr.frame = "removing" /\ Become([Now EXCEPT !.tr = Removed(@), !.srv.wire = <<>>])

-----------------------------------------------------------------------------
\* The server, as far as the client can tell.

Answering == /\ tr.rcv = "waiting" /\ Len(srv.wire) + Len(tr.down) < place.wire
             /\ \A i \in DOMAIN srv.wire: srv.wire[i].type \notin {"end", "c"}
             /\ OneFrame(tr.name) => srv.wire = <<>>
Answer(f) == srv' = [srv EXCEPT !.wire = Append(@, f)]

ServerOpens == /\ Answering /\ srv.state = "none"
               /\ srv' = [srv EXCEPT !.wire = Append(@, [type |-> "o"]), !.state = "open"]
               /\ UNCHANGED <<place, sock, tr, left>>
ServerSends == /\ srv.state = "open" /\ srv.sent < MaxMessages
               /\ srv' = [srv EXCEPT !.sent = @ + 1, !.queue = Append(@, srv.sent + 1)]
               /\ UNCHANGED <<place, sock, tr, left>>
ServerWrites == /\ Answering /\ srv.state = "open" /\ srv.queue # <<>>
                /\ srv' = [srv EXCEPT !.wire = Append(@, [type |-> "a", msgs |-> srv.queue]), !.queue = <<>>]
                /\ UNCHANGED <<place, sock, tr, left>>
ServerBeats == /\ Answering /\ srv.state = "open" /\ srv.queue = <<>> /\ srv.wire = <<>> /\ OneFrame(tr.name)
               /\ Answer([type |-> "h"]) /\ UNCHANGED <<place, sock, tr, left>>
ServerCloses == /\ srv.state = "open" /\ srv.queue = <<>>
                /\ srv' = [srv EXCEPT !.state = "closed"] /\ UNCHANGED <<place, sock, tr, left>>
ServerSaysSo == /\ Answering /\ srv.state = "closed"
                /\ Answer([type |-> "c"]) /\ UNCHANGED <<place, sock, tr, left>>
ServerEnds == /\ Answering /\ ~OneFrame(tr.name) /\ srv.state = "open"
              /\ Answer([type |-> "end"]) /\ UNCHANGED <<place, sock, tr, left>>
\* A restart, or a session that nobody asked for too long.
ServerForgets == /\ srv.state # "none" /\ tr.rcv # "waiting"
                 /\ srv' = [srv EXCEPT !.state = "none", !.queue = <<>>]
                 /\ UNCHANGED <<place, sock, tr, left>>
ServerGets == /\ tr.flight # <<>> /\ srv.state = "open"
              /\ (tr.snd = "inflight" \/ Sender(tr.name) # "ajax")
              /\ Become([Now EXCEPT !.srv.got = @ \o tr.flight, !.tr.flight = <<>>])

-----------------------------------------------------------------------------
User == UserSends \/ UserCloses
Timers == InfoStarts \/ InfoTimesOut \/ TransportTimesOut \/ StaleTimerFires \/ CloseTimer
Network == \/ InfoArrives \/ RequestStarts \/ Chunk \/ AnswerEnds \/ RequestFails \/ PauseEnds
           \/ WebSocketEnds \/ SendStarts \/ SendSucceeds \/ SendFails \/ WaitEnds
Iframe == FrameBoots \/ FrameFails \/ PageReceives \/ FrameGets \/ FrameRemoved
Server == \/ ServerOpens \/ ServerSends \/ ServerWrites \/ ServerBeats \/ ServerCloses
          \/ ServerSaysSo \/ ServerEnds \/ ServerForgets \/ ServerGets
Next == User \/ Timers \/ Network \/ Iframe \/ Server

\* The timers of a page fire; nothing is asked of the network.
Fairness == /\ WF_vars(InfoStarts) /\ WF_vars(InfoTimesOut) /\ WF_vars(TransportTimesOut)
            /\ WF_vars(CloseTimer) /\ WF_vars(FrameRemoved)

Spec == Init /\ [][Next]_vars /\ Fairness
-----------------------------------------------------------------------------
\* The user of the socket sees a web-socket: SockJS, with every transport it
\* may run on and every failure of it, implements SocketApi.
Api == INSTANCE SocketApi WITH readyState <- sock.readyState,
                               events <- sock.events
ImplementsSocketApi == Api!Spec

\* The messages of the server reach the user after the open event, in order and
\* without a gap or a double.  An event source and an htmlfile reconnect by
\* themselves after a break, with a gap, which may have been the open frame.
Tried == LET all == filterToEnabled(place.whitelist, place.browser, place.info, place.websocket)
         IN  {all[i]: i \in 1..(Len(all) - Len(sock.transports))}
IsMessage(e) == e[1] = "message"
Read == {i \in DOMAIN sock.events: IsMessage(sock.events[i])}
Received == {sock.events[i][2]: i \in Read}
ReceivedInOrder ==
    /\ tr.name # "none" /\ ~MayLoseFrames(tr.name) => \A m \in Received: (srv.base + 1)..m \subseteq Received
    /\ \/ \E t \in Tried: MayLoseFrames(t)
       \/ sock.events # <<>> => ~IsMessage(Head(sock.events))
    /\ \A i, j \in Read: i < j => sock.events[i][2] < sock.events[j][2]

\* The server gets what the user said in order and without a double.  A gap is
\* possible where a failed request goes unnoticed: behind a form, and in an
\* iframe until the page hears of it.
Ascending(q) == \A i, j \in DOMAIN q: i < j => q[i] < q[j]
PostedInOrder ==
    /\ Ascending(srv.got)
    /\ tr.name # "none" /\ ~(Framed(tr.name) \/ Sender(tr.name) = "form") => \A i \in DOMAIN srv.got: srv.got[i] = i

\* A closed socket leaves nothing running but what nobody can stop: a request
\* that had not started when it was aborted, and the polling of a transport
\* whose sender failed.  (Transports that timed out are in left.)
NothingLeftRunning == sock.readyState = CLOSED /\ Running(tr) => tr.left # "no"

\* A socket does not stay connecting or closing, whatever the network does.
Settles == /\ sock.readyState = CONNECTING ~> sock.readyState # CONNECTING
           /\ sock.readyState = CLOSING ~> sock.readyState = CLOSED
=============================================================================
