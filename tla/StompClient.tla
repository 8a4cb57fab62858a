----------------------------- MODULE StompClient -----------------------------
(***************************************************************************)
(* The page of the web-socket demo: app.js (the buttons, connect,          *)
(* disconnect and the greetings) on the STOMP client of stomp.js, on a     *)
(* socket with the states of SockJS.  demo-app.js differs from app.js in   *)
(* names and in the confirmation a shown message can be answered with.     *)
(*                                                                         *)
(* JavaScript runs one handler at a time: a click, an event of a socket    *)
(* and a timer are one action each, with everything they call.  An         *)
(* exception ends the handler at that place and keeps what it did before.  *)
(*                                                                         *)
(* Every press of Connect makes a new client on a new socket; the older    *)
(* ones live on, only the variable stompClient of the page is overwritten. *)
(***************************************************************************)
EXTENDS Integers, FiniteSets, TLC, StompFrame

CONSTANTS Clients,        \* 1..n, in the order in which Connect makes them
          Bodies,         \* texts a user types
          Offers,         \* heart-beats the servers of the connections offer
          Outgoing, Incoming,   \* heartbeat.outgoing and .incoming, in ticks
          MaxDelay,       \* ticks a frame of a live server may need
          MaxSends, MaxMessages \* bounds of one client's conversation

ASSUME ClientAssumption == /\ IsFiniteSet(Clients) /\ Clients = 1..Cardinality(Clients)
                           /\ {Outgoing, Incoming, MaxDelay, MaxSends, MaxMessages} \subseteq Nat
                           /\ Offers \subseteq [Clients -> Nat \X Nat]

\* A frame of a server that beats needs one interval of the ponger at most.
ASSUME DelayAssumption == Incoming > 0 => MaxDelay <= Incoming

VARIABLES
    stompClient,   \* the page's variable, 0 for null
    uiConnected,   \* the last argument of setConnected: Connect is disabled
    overlapped,    \* history: Connect was pressed while an attempt was pending
    shown,         \* the number of greetings of each message
    socket,        \* readyState of every client's socket, "none" before it exists
    hooked,        \* ws.onclose is the client's function (disconnect takes it away)
    connected,     \* CONNECTED was received (the client's field connected)
    subscriptions, \* the ids in the client's map of callbacks
    counter,       \* the number of the next subscription
    timers,        \* pinger and ponger: interval and ticks to the next call
    silent,        \* ticks since serverActivity
    up,            \* every frame the client put on its socket, in order
    down,          \* frames on the way to the client, with their age
    server,        \* the server's side of every connection
    offer          \* <<outgoing, incoming>> of every connection's server

page == <<stompClient, uiConnected, overlapped, shown>>
client == <<socket, hooked, connected, subscriptions, counter, timers, silent, up>>
vars == <<page, client, down, server, offer>>

Off == [ttl |-> 0, due |-> 0]
Every(ttl) == [ttl |-> ttl, due |-> ttl]
Larger(a, b) == IF a > b THEN a ELSE b

States == {"none", "connecting", "open", "closing", "closed"}
Commands == {"CONNECT", "SUBSCRIBE", "SEND", "DISCONNECT", "PING"}
Destinations == <<"/user/single/notify", "/topic/notify/message">>
Frame(cmd, headers, body) == [command |-> cmd, headers |-> headers, body |-> body]
Timer == [ttl: Nat, due: Nat]
Arrival == [command: {"CONNECTED", "PONG"}, age: 0..MaxDelay]
           \cup [command: {"MESSAGE"}, id: Nat, message: 1..MaxMessages, age: 0..MaxDelay]

TypeOK ==
    /\ stompClient \in {0} \cup Clients /\ uiConnected \in BOOLEAN /\ overlapped \in BOOLEAN
    /\ shown \in [Clients -> [1..MaxMessages -> Nat]]
    /\ socket \in [Clients -> States]
    /\ hooked \in [Clients -> BOOLEAN] /\ connected \in [Clients -> BOOLEAN]
    /\ subscriptions \in [Clients -> SUBSET Nat] /\ counter \in [Clients -> Nat]
    /\ timers \in [Clients -> [pinger: Timer, ponger: Timer]] /\ silent \in [Clients -> Nat]
    /\ DOMAIN up = Clients /\ \A c \in Clients: \A i \in DOMAIN up[c]: up[c][i].command \in Commands
    /\ down \in [Clients -> Seq(Arrival)]
    /\ server \in [Clients -> [alive: BOOLEAN, accepted: BOOLEAN, sent: Nat, beat: Timer]]
    /\ offer \in [Clients -> Nat \X Nat]

NewSession == [alive |-> TRUE, accepted |-> FALSE, sent |-> 0, beat |-> Off]

Init ==
    /\ stompClient = 0 /\ uiConnected = FALSE /\ overlapped = FALSE
    /\ shown = [c \in Clients |-> [m \in 1..MaxMessages |-> 0]]
    /\ socket = [c \in Clients |-> "none"]
    /\ hooked = [c \in Clients |-> FALSE] /\ connected = [c \in Clients |-> FALSE]
    /\ subscriptions = [c \in Clients |-> {}] /\ counter = [c \in Clients |-> 0]
    /\ timers = [c \in Clients |-> [pinger |-> Off, ponger |-> Off]]
    /\ silent = [c \in Clients |-> 0]
    /\ up = [c \in Clients |-> <<>>] /\ down = [c \in Clients |-> <<>>]
    /\ offer \in Offers
    /\ server = [c \in Clients |-> NewSession]

-----------------------------------------------------------------------------
\* The calls of the client on its socket.

\* Mutant of Transmit: a closing socket still sends.
TransmitWhileClosing(c, frames) ==
    up' = [up EXCEPT ![c] = IF socket[c] \in {"open", "closing"} THEN @ \o frames ELSE @]

\* _transmit: the frame goes out only on an open socket; while the socket is
\* connecting its send throws, and afterwards it returns without doing anything.
Throws(c) == socket[c] = "connecting"
Transmit(c, frames) == up' = [up EXCEPT ![c] = IF socket[c] = "open" THEN @ \o frames ELSE @]

\* Mutant of Stopped: the ponger is forgotten.
StoppedPinger(c) == [timers EXCEPT ![c].pinger = Off]

\* _cleanUp.
Stopped(c) == [timers EXCEPT ![c] = [pinger |-> Off, ponger |-> Off]]
CleanUp(c) == connected' = [connected EXCEPT ![c] = FALSE] /\ timers' = Stopped(c)

\* _setupHeartbeat: nothing for 1.0 and for a side that offers 0.
SetupHeartbeat(c) ==
    timers' = [timers EXCEPT ![c] =
        [pinger |-> IF Outgoing = 0 \/ offer[c][2] = 0 THEN @.pinger ELSE Every(Larger(Outgoing, offer[c][2])),
         ponger |-> IF Incoming = 0 \/ offer[c][1] = 0 THEN @.ponger ELSE Every(Larger(Incoming, offer[c][1]))]]

\* subscribe, once for every destination of the page: the callback is stored
\* before _transmit, which throws on a connecting socket, so that the second
\* call is not reached then.
SubscribeFrame(c, k) ==
    Frame("SUBSCRIBE", << <<"userId", <<"u">>>>, <<"id", <<"sub-", ToString(counter[c] + k - 1)>>>>,
                          <<"destination", <<Destinations[k]>>>> >>, <<>>)
SubscribeAll(c) ==
    LET n == IF Throws(c) THEN 1 ELSE Len(Destinations)
    IN  /\ subscriptions' = [subscriptions EXCEPT ![c] = @ \cup {counter[c] + k - 1: k \in 1..n}]
        /\ counter' = [counter EXCEPT ![c] = @ + n]
        /\ Transmit(c, [k \in 1..Len(Destinations) |-> SubscribeFrame(c, k)])

-----------------------------------------------------------------------------
\* The page.

Pending(c) == socket[c] \in {"connecting", "open"} /\ ~connected[c]

\* Mutant of ClickConnect: setConnected leaves the button enabled.
ClickConnectEnabled ==
    /\ \E c \in Clients:
        /\ socket[c] = "none" /\ \A d \in Clients: d < c => socket[d] # "none"
        /\ stompClient' = c
        /\ overlapped' = (overlapped \/ \E d \in Clients: Pending(d))
        /\ socket' = [socket EXCEPT ![c] = "connecting"]
        /\ hooked' = [hooked EXCEPT ![c] = TRUE]
    /\ UNCHANGED <<uiConnected, shown, connected, subscriptions, counter, timers, silent,
                   up, down, server>>

\* A new SockJS, Stomp.over and connect, which sets the handlers of the socket.
ClickConnect ==
    /\ ~uiConnected
    /\ \E c \in Clients:
        /\ socket[c] = "none" /\ \A d \in Clients: d < c => socket[d] # "none"
        /\ stompClient' = c
        /\ overlapped' = (overlapped \/ \E d \in Clients: Pending(d))
        /\ socket' = [socket EXCEPT ![c] = "connecting"]
        /\ hooked' = [hooked EXCEPT ![c] = TRUE]
    /\ UNCHANGED <<uiConnected, shown, connected, subscriptions, counter, timers, silent,
                   up, down, server>>

\* disconnect of the client: DISCONNECT, no onclose, close, _cleanUp; then
\* setConnected(false), which also empties the greetings.
ClickDisconnect ==
    /\ uiConnected /\ ~Throws(stompClient)
    /\ LET c == stompClient IN
        /\ Transmit(c, <<Frame("DISCONNECT", <<>>, <<>>)>>)
        /\ hooked' = [hooked EXCEPT ![c] = FALSE]
        /\ socket' = [socket EXCEPT ![c] = IF @ = "open" THEN "closing" ELSE @]
        /\ CleanUp(c)
    /\ uiConnected' = FALSE
    /\ shown' = [c \in Clients |-> [m \in 1..MaxMessages |-> 0]]
    /\ UNCHANGED <<stompClient, overlapped, subscriptions, counter, silent, down, server>>

\* send of the client: with no client, or one whose socket is connecting, the
\* buttons throw.
Send(destination) ==
    /\ stompClient # 0 /\ ~Throws(stompClient)
    /\ Cardinality({i \in DOMAIN up[stompClient]: up[stompClient][i].command = "SEND"}) < MaxSends
    /\ \E body \in Bodies:
        Transmit(stompClient, <<Frame("SEND", << <<"destination", <<destination>>>> >>, body)>>)
    /\ UNCHANGED <<page, socket, hooked, connected, subscriptions, counter, timers, silent,
                   down, server>>

\* sendName and greetTo: their buttons are always enabled.
ClickSend == Send("/app/hello")

\* demo-app.js: a click on a message that is shown confirms it, through the
\* page's variable, whichever connection brought the message.
ClickConfirm == /\ \E c \in Clients, m \in 1..MaxMessages: shown[c][m] > 0
                /\ Send("/app/notifyMsg/confirm")

-----------------------------------------------------------------------------
\* The socket's events.

SocketOpens(c) ==
    /\ socket[c] = "connecting"
    /\ socket' = [socket EXCEPT ![c] = "open"]
    /\ up' = [up EXCEPT ![c] = Append(@, Frame("CONNECT", << <<"userId", <<"u">>>>,
                  <<"accept-version", <<"1.1,1.0">>>>,
                  <<"heart-beat", <<ToString(Outgoing), ",", ToString(Incoming)>>>> >>, <<>>))]
    /\ UNCHANGED <<page, hooked, connected, subscriptions, counter, timers, silent, down, server>>

\* The attempt fails, or the server or the network ends the connection.
SocketEnds(c) ==
    /\ socket[c] \in {"connecting", "open"}
    /\ socket' = [socket EXCEPT ![c] = "closing"]
    /\ UNCHANGED <<page, hooked, connected, subscriptions, counter, timers, silent, up, down,
                   server>>

\* SockJS calls onclose once, at the end of _close.  app.js passes no
\* errorCallback: the buttons stay as they are.
SocketClosed(c) ==
    /\ socket[c] = "closing"
    /\ socket' = [socket EXCEPT ![c] = "closed"]
    /\ IF hooked[c] THEN CleanUp(c) ELSE UNCHANGED <<connected, timers>>
    /\ down' = [down EXCEPT ![c] = <<>>]
    /\ server' = [server EXCEPT ![c] = NewSession]
    /\ UNCHANGED <<page, hooked, subscriptions, counter, silent, up>>

\* The first lines of onmessage, for every frame.
Arrives(c, cmd) ==
    /\ socket[c] = "open" /\ down[c] # <<>> /\ Head(down[c]).command = cmd
    /\ down' = [down EXCEPT ![c] = Tail(@)]
    /\ silent' = [silent EXCEPT ![c] = 0]
    /\ UNCHANGED <<socket, hooked, stompClient, overlapped, server>>

ReceivePong(c) ==
    /\ Arrives(c, "PONG")
    /\ UNCHANGED <<uiConnected, shown, connected, subscriptions, counter, timers, up>>

\* CONNECTED and the connectCallback of app.js, which subscribes with the
\* page's variable, whatever client it holds by then.
ReceiveConnected(c) ==
    /\ Arrives(c, "CONNECTED")
    /\ connected' = [connected EXCEPT ![c] = TRUE]
    /\ SetupHeartbeat(c)
    /\ uiConnected' = TRUE
    /\ shown' = [d \in Clients |-> [m \in 1..MaxMessages |-> 0]]
    /\ SubscribeAll(stompClient)

\* A message is shown by the callback of its subscription, and dropped when
\* the client has none under this id.
ReceiveMessage(c) ==
    /\ Arrives(c, "MESSAGE")
    /\ shown' = IF Head(down[c]).id \in subscriptions[c]
                THEN [shown EXCEPT ![c][Head(down[c]).message] = @ + 1] ELSE shown
    /\ UNCHANGED <<uiConnected, connected, subscriptions, counter, timers, up>>

-----------------------------------------------------------------------------
\* Timers of the browser.

Due(c, t) == timers[c][t].ttl > 0 /\ timers[c][t].due = 0
Again(c, t) == [timers EXCEPT ![c][t].due = timers[c][t].ttl]

\* The first ping stands for all of them in "up", except that one after
\* DISCONNECT would be recorded.
Recorded(c) == \E i \in DOMAIN up[c]: up[c][i].command = "PING" /\ Last(up[c]).command # "DISCONNECT"
Ping(c) ==
    /\ Due(c, "pinger")
    /\ timers' = Again(c, "pinger")
    /\ IF Recorded(c) THEN UNCHANGED up ELSE Transmit(c, <<Frame("PING", <<>>, <<>>)>>)
    /\ UNCHANGED <<page, socket, hooked, connected, subscriptions, counter, silent, down, server>>

\* Mutant of TooSilent: two intervals are enough.
TooSilentEarly(c) == silent[c] >= 2 * timers[c].ponger.ttl

\* The ponger closes the socket when the server was silent for more than two
\* intervals; the clean-up follows in onclose.
TooSilent(c) == silent[c] > 2 * timers[c].ponger.ttl
Pong(c) ==
    /\ Due(c, "ponger")
    /\ timers' = Again(c, "ponger")
    /\ socket' = [socket EXCEPT ![c] = IF TooSilent(c) /\ @ = "open" THEN "closing" ELSE @]
    /\ UNCHANGED <<page, hooked, connected, subscriptions, counter, silent, up, down, server>>

-----------------------------------------------------------------------------
\* The server and time.

Reach(c, cmd) == down' = [down EXCEPT ![c] = Append(@, [command |-> cmd, age |-> 0])]

\* Nothing the client does depends on how long its frames take: the server's
\* side follows from what was put on the socket.
Ids(c) == {id \in subscriptions[c]: \E i \in DOMAIN up[c]:
               up[c][i].command = "SUBSCRIBE" /\ up[c][i].headers[2][2][2] = ToString(id)}

ServerAccepts(c) ==
    /\ server[c].alive /\ socket[c] = "open" /\ up[c] # <<>> /\ ~server[c].accepted
    /\ Reach(c, "CONNECTED")
    /\ server' = [server EXCEPT ![c].accepted = TRUE,
                                ![c].beat = IF Incoming = 0 \/ offer[c][1] = 0 THEN Off
                                            ELSE Every(Larger(Incoming, offer[c][1]))]
    /\ UNCHANGED <<page, client>>

\* A broadcast reaches every subscription of the session to its destination:
\* the second, fourth ... id.
ServerSends(c) ==
    /\ server[c].alive /\ socket[c] = "open" /\ server[c].sent < MaxMessages
    /\ LET ids == {id \in Ids(c): id % Len(Destinations) = 1}
       IN  /\ ids # {}
           /\ down' = [down EXCEPT ![c] = @ \o SetToSeq({[command |-> "MESSAGE", id |-> id, age |-> 0,
                                                          message |-> server[c].sent + 1]: id \in ids})]
    /\ server' = [server EXCEPT ![c].sent = @ + 1]
    /\ UNCHANGED <<page, client>>

Beats(c) == server[c].alive /\ socket[c] = "open" /\ server[c].beat # Off

ServerBeats(c) ==
    /\ Beats(c) /\ server[c].beat.due = 0
    /\ Reach(c, "PONG")
    /\ server' = [server EXCEPT ![c].beat.due = server[c].beat.ttl]
    /\ UNCHANGED <<page, client>>

\* The server, or the way to it, goes away without a word.
ServerDies(c) ==
    /\ Beats(c)
    /\ server' = [server EXCEPT ![c].alive = FALSE]
    /\ down' = [down EXCEPT ![c] = <<>>]
    /\ UNCHANGED <<page, client>>

Minus(t) == IF t.ttl > 0 THEN [t EXCEPT !.due = @ - 1] ELSE t

\* Timers run on time, and a frame of a live server takes MaxDelay ticks at most. MaxSilent
\* bounds the count of silent ticks; the ponger's test asks only about twice the ttl.
MaxSilent(c) == 3 * timers[c].ponger.ttl
Tick ==
    /\ \E c \in Clients: timers[c].ponger # Off \/ timers[c].pinger # Off
    /\ \A c \in Clients: /\ ~Due(c, "pinger") /\ ~Due(c, "ponger")
                         /\ Beats(c) => server[c].beat.due > 0
                         /\ Beats(c) /\ down[c] # <<>> => Head(down[c]).age < MaxDelay
    /\ timers' = [c \in Clients |-> [pinger |-> Minus(timers[c].pinger), ponger |-> Minus(timers[c].ponger)]]
    /\ silent' = [c \in Clients |-> IF timers[c].ponger # Off /\ silent[c] <= MaxSilent(c)
                                    THEN silent[c] + 1 ELSE silent[c]]
    /\ down' = [c \in Clients |-> IF Beats(c) THEN [i \in DOMAIN down[c] |-> [down[c][i] EXCEPT !.age = @ + 1]]
                                  ELSE down[c]]
    /\ server' = [c \in Clients |-> IF Beats(c) THEN [server[c] EXCEPT !.beat = Minus(@)] ELSE server[c]]
    /\ UNCHANGED <<page, socket, hooked, connected, subscriptions, counter, up>>

Next ==
    \/ ClickConnect \/ ClickDisconnect \/ ClickSend \/ ClickConfirm \/ Tick
    \/ \E c \in Clients:
        \/ SocketOpens(c) \/ SocketEnds(c) \/ SocketClosed(c)
        \/ ReceivePong(c) \/ ReceiveConnected(c) \/ ReceiveMessage(c)
        \/ Ping(c) \/ Pong(c)
        \/ ServerAccepts(c) \/ ServerSends(c) \/ ServerBeats(c) \/ ServerDies(c)

Spec == Init /\ [][Next /\ UNCHANGED offer]_vars

(***************************************************************************)
(* Every connection is a conversation of the protocol: CONNECT first and   *)
(* once, and nothing after DISCONNECT, although subscribe, send and the    *)
(* pinger are called without a look at the state.  Two things keep it: a   *)
(* connecting socket throws, and disconnect closes before anything else    *)
(* can run (stomp.js 337-346, sockjs.js send).                             *)
(***************************************************************************)
Conversation ==
    \A c \in Clients: \A i \in DOMAIN up[c]:
        /\ up[c][i].command = "CONNECT" <=> i = 1
        /\ up[c][i].command = "DISCONNECT" => i = Len(up[c])

(***************************************************************************)
(* No timer outlives its connection: whoever ends it, the page, the server *)
(* or the ponger, and whatever frames were on the way, no pinger or ponger *)
(* is left when the socket is closed (stomp.js _cleanUp and onclose).      *)
(***************************************************************************)
TimersEnd ==
    \A c \in Clients: timers[c] # [pinger |-> Off, ponger |-> Off] =>
        socket[c] = "open" \/ (socket[c] = "closing" /\ hooked[c])

(***************************************************************************)
(* Silence is noticed in time and never mistaken: while the ponger runs on *)
(* an open socket the client has heard from the server within three        *)
(* intervals, and the ponger closes no socket of a server that beats, if a *)
(* frame needs one interval at most (stomp.js 193-206).                    *)
(***************************************************************************)
NoticedInTime ==
    \A c \in Clients: socket[c] = "open" /\ timers[c].ponger # Off =>
        /\ silent[c] <= 3 * timers[c].ponger.ttl
        /\ Due(c, "ponger") /\ TooSilent(c) => ~server[c].alive

(***************************************************************************)
(* The page follows its client unless Connect was pressed twice in a row:  *)
(* then no connection but that of stompClient is open, a client has no     *)
(* more than one subscription per destination, and no message is shown     *)
(* twice.  Pressing it while an attempt is pending, which app.js allows,   *)
(* breaks all three: the connectCallback of the first client subscribes    *)
(* with the second (app.js 15-34).                                         *)
(***************************************************************************)
PageFollowsClient ==
    ~overlapped =>
        \A c \in Clients:
            /\ socket[c] \in {"connecting", "open"} => c = stompClient
            /\ Cardinality(subscriptions[c]) <= Len(Destinations)
            /\ \A m \in 1..MaxMessages: shown[c][m] <= 1

(***************************************************************************)
(* Every frame arrives as it was written, with the one before it in the    *)
(* same text: content-length counts bytes where unmarshall cuts            *)
(* characters, and a long frame goes out in pieces (stomp.js 20-114,       *)
(* 145-162).                                                               *)
(***************************************************************************)
LastTwo(log) == LET sent == SelectSeq(log, LAMBDA f: f.command # "PING")
                IN  SubSeq(sent, Larger(1, Len(sent) - 1), Len(sent))
FramesSurvive == [][\A c \in Clients: up'[c] # up[c] => Survives(LastTwo(up'[c]))]_up
=============================================================================
