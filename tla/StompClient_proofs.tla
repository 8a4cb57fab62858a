------------------------- MODULE StompClient_proofs -------------------------
(***************************************************************************)
(* Proofs about StompClient, for any clients, texts, heart-beats and       *)
(* bounds.                                                                 *)
(***************************************************************************)
EXTENDS StompClient, FiniteSetTheorems, SequenceTheorems, TLAPS

\* What the log of a client can be in a state of its socket.
IsSeq(s) == s \in Seq({s[i] : i \in DOMAIN s})
Logged(c) ==
    /\ IsSeq(up[c])
    /\ socket[c] \in {"none", "connecting"} => up[c] = <<>>
    /\ socket[c] = "open" => up[c] # <<>>
    /\ \A i \in DOMAIN up[c]:
        /\ up[c][i].command \in Commands
        /\ up[c][i].command = "CONNECT" <=> i = 1
        /\ up[c][i].command = "DISCONNECT" => i = Len(up[c]) /\ socket[c] # "open"

\* A client numbers its subscriptions from 0.
Numbered(c) == subscriptions[c] = 0..(counter[c] - 1)

\* Who takes the timers and the connected flag back is still to come.
NoTimers == [pinger |-> Off, ponger |-> Off]
Hooked(c) ==
    /\ socket[c] \in {"connecting", "open"} => hooked[c]
    /\ timers[c] # NoTimers \/ connected[c] =>
          socket[c] = "open" \/ (socket[c] = "closing" /\ hooked[c])

\* The interval the ponger of a client and the heart-beat of its server share.
Interval(c) == Larger(Incoming, offer[c][1])
Agreed(c) == Incoming # 0 /\ offer[c][1] # 0

\* The server begins when it accepts; before, nothing of it has reached the
\* client that could start a timer.
Beating(c) ==
    /\ timers[c].ponger # Off =>
          Agreed(c) /\ timers[c].ponger.ttl = Interval(c) /\ timers[c].ponger.due <= Interval(c)
    /\ socket[c] \in {"none", "connecting"} =>
          silent[c] = 0 /\ server[c] = NewSession /\ down[c] = <<>>
    /\ socket[c] = "open" =>
        /\ timers[c].ponger = Off => silent[c] = 0
        /\ timers[c].ponger # Off => server[c].accepted
        /\ server[c].accepted /\ Agreed(c) =>
              server[c].beat.ttl = Interval(c) /\ server[c].beat.due <= Interval(c)
        /\ ~(server[c].accepted /\ Agreed(c)) => server[c].beat = Off
        /\ ~server[c].accepted =>
              \A i \in DOMAIN down[c]: down[c][i].age = 0 /\ down[c][i].command # "CONNECTED"

\* How long the client has heard nothing, against what is on the way to it.
InTime(c) ==
    /\ \A i, j \in DOMAIN down[c]: i <= j => down[c][j].age <= down[c][i].age
    /\ Beats(c) =>
        /\ down[c] = <<>> => silent[c] <= Interval(c) - server[c].beat.due
        /\ down[c] # <<>> => silent[c] <= Head(down[c]).age + Interval(c)
    /\ socket[c] = "open" /\ timers[c].ponger # Off =>
          silent[c] + timers[c].ponger.due <= 3 * Interval(c)

\* While Connect was not pressed twice in a row only the page's client lives.
Followed(c) ==
    /\ socket[c] \in {"connecting", "open"} => c = stompClient
    /\ connected[c] => uiConnected /\ c = stompClient
    /\ socket[c] \in {"none", "connecting"} \/ (socket[c] = "open" /\ ~server[c].accepted) =>
          subscriptions[c] = {} /\ counter[c] = 0
    /\ \A i \in DOMAIN down[c]: down[c][i].command = "CONNECTED" =>
        /\ subscriptions[c] = {} /\ counter[c] = 0
        /\ \A j \in DOMAIN down[c]: down[c][j].command = "CONNECTED" => i = j
    /\ subscriptions[c] \in {{}, {0, 1}}

\* Each message of a session is on its way, shown or dropped.
ShownOnce(c) ==
    /\ \A m \in 1..MaxMessages:
        /\ shown[c][m] <= 1
        /\ shown[c][m] = 1 /\ socket[c] = "open" => m <= server[c].sent
        /\ socket[c] \in {"none", "connecting"} => shown[c][m] = 0
    /\ \A i \in DOMAIN down[c]: down[c][i].command = "MESSAGE" =>
        /\ down[c][i].message <= server[c].sent
        /\ shown[c][down[c][i].message] = 0
        /\ \A j \in DOMAIN down[c]:
              down[c][j].command = "MESSAGE" /\ down[c][j].message = down[c][i].message => i = j

Sound ==
    /\ TypeOK
    /\ \A c \in Clients: Logged(c) /\ Numbered(c) /\ Hooked(c) /\ Beating(c) /\ InTime(c)
    /\ ~overlapped => \A c \in Clients: Followed(c) /\ ShownOnce(c)
-----------------------------------------------------------------------------
(* Sequences. *)

LEMMA NothingIsSeq == IsSeq(<<>>)
  BY EmptySeq DEF IsSeq

\* A sequence of anything is one of its own elements.
LEMMA OwnElements ==
  ASSUME NEW X, NEW s \in Seq(X)
  PROVE  IsSeq(s) /\ DOMAIN s = 1..Len(s) /\ Len(s) \in Nat
  <1> DEFINE Y == {s[i] : i \in DOMAIN s}
  <1>1. Len(s) \in Nat /\ s \in [1..Len(s) -> X] /\ DOMAIN s = 1..Len(s)
    BY LenProperties
  <1>2. s \in [1..Len(s) -> Y]
    BY <1>1
  <1>3. s \in Seq(Y)
    BY <1>1, <1>2, SeqDef
  <1> QED  BY <1>1, <1>3 DEF IsSeq

LEMMA AppendSeq ==
  ASSUME NEW s, IsSeq(s), NEW e
  PROVE  /\ IsSeq(Append(s, e)) /\ Len(Append(s, e)) = Len(s) + 1
         /\ DOMAIN Append(s, e) = 1..(Len(s) + 1)
         /\ DOMAIN s = 1..Len(s) /\ Len(s) \in Nat
         /\ Append(s, e)[Len(s) + 1] = e
         /\ \A i \in 1..Len(s): Append(s, e)[i] = s[i]
  <1> DEFINE X == {s[i] : i \in DOMAIN s} \cup {e}
  <1>1. s \in Seq(X) /\ e \in X
    BY DEF IsSeq
  <1> HIDE DEF X
  <1>2. /\ Append(s, e) \in Seq(X) /\ Len(Append(s, e)) = Len(s) + 1
        /\ Append(s, e)[Len(s) + 1] = e /\ \A i \in 1..Len(s): Append(s, e)[i] = s[i]
    BY <1>1, AppendProperties
  <1> QED  BY <1>1, <1>2, OwnElements

Joined(s, u) ==
    /\ IsSeq(s \o u) /\ Len(s \o u) = Len(s) + Len(u)
    /\ DOMAIN (s \o u) = 1..(Len(s) + Len(u))
    /\ DOMAIN s = 1..Len(s) /\ Len(s) \in Nat /\ DOMAIN u = 1..Len(u) /\ Len(u) \in Nat
    /\ \A i \in 1..Len(s): (s \o u)[i] = s[i]
    /\ \A i \in 1..Len(u): (s \o u)[Len(s) + i] = u[i]

LEMMA ConcatSeq ==
  ASSUME NEW s, NEW u, IsSeq(s), IsSeq(u)
  PROVE  Joined(s, u)
  <1> DEFINE X == {s[i] : i \in DOMAIN s} \cup {u[i] : i \in DOMAIN u}
  <1>1. s \in Seq(X) /\ u \in Seq(X)
    BY DEF IsSeq
  <1> HIDE DEF X
  <1>2. /\ s \o u \in Seq(X) /\ Len(s \o u) = Len(s) + Len(u)
        /\ \A i \in 1..Len(s): (s \o u)[i] = s[i]
        /\ \A i \in 1..Len(u): (s \o u)[Len(s) + i] = u[i]
    BY <1>1, ConcatProperties
  <1> QED  BY <1>1, <1>2, OwnElements DEF Joined

\* A finite set in some order, and the order of at most one element.
LEMMA SetToSeqIsSeq ==
  ASSUME NEW S, IsFiniteSet(S)
  PROVE  SetToSeq(S) \in Seq(S)
  <1>1. Cardinality(S) \in Nat /\ \E f \in [1..Cardinality(S) -> S] : IsInjective(f)
    <2>1. PICK n \in Nat : ExistsBijection(1..n, S)
      BY FS_NatBijection
    <2>2. Cardinality(S) = n
      BY <2>1, FS_CountingElements
    <2> QED  BY <2>1, <2>2 DEF ExistsBijection, Bijection, Injection
  <1>2. SetToSeq(S) \in [1..Cardinality(S) -> S]
    BY <1>1 DEF SetToSeq
  <1> QED  BY <1>1, <1>2, SeqDef

LEMMA SetToSeqOne ==
  ASSUME NEW x
  PROVE  SetToSeq({x}) = <<x>>
  <1>1. Cardinality({x}) = 1
    BY FS_Singleton
  <1>2. <<x>> \in [1..1 -> {x}] /\ IsInjective(<<x>>)
    BY DEF IsInjective
  <1>3. SetToSeq({x}) \in [1..1 -> {x}]
    BY <1>1, <1>2 DEF SetToSeq
  <1> QED  BY <1>3
-----------------------------------------------------------------------------
(* The log of a client. *)

LEMMA OneFrame ==
  ASSUME NEW f
  PROVE  IsSeq(<<f>>) /\ DOMAIN <<f>> = {1} /\ <<f>>[1] = f /\ Len(<<f>>) = 1
  <1>2. <<f>> \in Seq({f}) /\ Len(<<f>>) = 1 /\ <<f>>[1] = f
    OBVIOUS
  <1>3. IsSeq(<<f>>) /\ DOMAIN <<f>> = 1..1
    BY <1>2, OwnElements
  <1> QED  BY <1>2, <1>3

\* What a step may do to the log of a client: nothing, the first frame, or more
\* frames on an open socket.
LogKept(c) ==
    /\ up'[c] = up[c]
    /\ socket'[c] = "open" => socket[c] = "open"
    /\ socket'[c] \in {"none", "connecting"} => socket[c] \in {"none", "connecting"}
LogBegins(c) ==
    /\ socket[c] = "connecting" /\ socket'[c] = "open"
    /\ \E f : f.command = "CONNECT" /\ up'[c] = Append(up[c], f)
LogGoesOn(c) ==
    /\ socket[c] = "open" /\ socket'[c] = "open"
    /\ \E frames : /\ IsSeq(frames) /\ up'[c] = up[c] \o frames
                   /\ \A i \in DOMAIN frames: frames[i].command \in {"SUBSCRIBE", "SEND", "PING"}
LogEnds(c) ==
    /\ socket[c] = "open" /\ socket'[c] = "closing"
    /\ \E f : f.command = "DISCONNECT" /\ up'[c] = up[c] \o <<f>>
LogStep(c) == LogKept(c) \/ LogBegins(c) \/ LogGoesOn(c) \/ LogEnds(c)

\* A frame that is given to the socket and to nobody else.
LEMMA TransmitStep ==
  ASSUME TypeOK, NEW c \in Clients, NEW d \in Clients \cup {0}, NEW f,
         f.command \in {"SUBSCRIBE", "SEND", "PING"}, Transmit(d, <<f>>), UNCHANGED socket
  PROVE  LogStep(c)
  <1>1. CASE d # c \/ socket[d] # "open"
    BY <1>1 DEF Transmit, TypeOK, LogStep, LogKept
  <1>2. CASE d = c /\ socket[d] = "open"
    <2>1. up'[c] = up[c] \o <<f>>
      BY <1>2 DEF Transmit, TypeOK
    <2>2. IsSeq(<<f>>) /\ \A i \in DOMAIN <<f>>: <<f>>[i].command \in {"SUBSCRIBE", "SEND", "PING"}
      BY OneFrame
    <2>3. \E frames : /\ IsSeq(frames) /\ up'[c] = up[c] \o frames
                     /\ \A i \in DOMAIN frames: frames[i].command \in {"SUBSCRIBE", "SEND", "PING"}
      BY <2>1, <2>2, Zenon
    <2> QED  BY <1>2, <2>3 DEF LogStep, LogGoesOn
  <1> QED  BY <1>1, <1>2

LEMMA LogSteps ==
  ASSUME TypeOK, Next, NEW c \in Clients
  PROVE  LogStep(c)
  <1>1. CASE ClickConnect
    BY <1>1 DEF ClickConnect, TypeOK, LogStep, LogKept
  <1>2. CASE ClickDisconnect
    <2>1. CASE stompClient = c /\ socket[c] = "open"
      <3>1. /\ up'[c] = up[c] \o <<Frame("DISCONNECT", <<>>, <<>>)>>
            /\ socket'[c] = "closing"
        BY <1>2, <2>1 DEF ClickDisconnect, Transmit, TypeOK
      <3> QED  BY <2>1, <3>1 DEF LogStep, LogEnds, Frame
    <2>2. CASE ~(stompClient = c /\ socket[c] = "open")
      BY <1>2, <2>2 DEF ClickDisconnect, Transmit, TypeOK, LogStep, LogKept
    <2> QED  BY <2>1, <2>2
  <1>3. CASE ClickSend \/ ClickConfirm
    <2>1. PICK h : Send(h)
      BY <1>3 DEF ClickSend, ClickConfirm
    <2>2. PICK b : Transmit(stompClient, <<Frame("SEND", << <<"destination", <<h>>>> >>, b)>>)
      BY <2>1 DEF Send
    <2>3. UNCHANGED socket /\ stompClient \in Clients \cup {0}
      BY <2>1 DEF Send, TypeOK
    <2>4. Frame("SEND", << <<"destination", <<h>>>> >>, b).command = "SEND"
      BY DEF Frame
    <2> QED  BY <2>2, <2>3, <2>4, TransmitStep
  <1>4. CASE Tick
    BY <1>4 DEF Tick, LogStep, LogKept
  <1>5. ASSUME NEW d \in Clients, SocketOpens(d) PROVE LogStep(c)
    <2>1. CASE c = d
      <3>1. PICK h : up' = [up EXCEPT ![d] = Append(@, Frame("CONNECT", h, <<>>))]
        BY <1>5 DEF SocketOpens
      <3>2. up'[c] = Append(up[c], Frame("CONNECT", h, <<>>)) /\ Frame("CONNECT", h, <<>>).command = "CONNECT"
        BY <2>1, <3>1 DEF TypeOK, Frame
      <3>3. socket[c] = "connecting" /\ socket'[c] = "open"
        BY <1>5, <2>1 DEF SocketOpens, TypeOK
      <3> QED  BY <3>2, <3>3 DEF LogStep, LogBegins
    <2>2. CASE c # d
      BY <1>5, <2>2 DEF SocketOpens, TypeOK, LogStep, LogKept
    <2> QED  BY <2>1, <2>2
  <1>6. ASSUME NEW d \in Clients, SocketEnds(d) \/ SocketClosed(d) \/ Pong(d) PROVE LogStep(c)
    BY <1>6 DEF SocketEnds, SocketClosed, Pong, TypeOK, LogStep, LogKept
  <1>7. ASSUME NEW d \in Clients, ReceivePong(d) \/ ReceiveMessage(d) PROVE LogStep(c)
    BY <1>7 DEF ReceivePong, ReceiveMessage, Arrives, LogStep, LogKept
  <1>8. ASSUME NEW d \in Clients, ReceiveConnected(d) PROVE LogStep(c)
    <2> DEFINE e == stompClient
               frames == [k \in 1..Len(Destinations) |-> SubscribeFrame(e, k)]
    <2>1. Transmit(e, frames) /\ UNCHANGED socket
      BY <1>8 DEF ReceiveConnected, SubscribeAll, Arrives
    <2>2. IsSeq(frames) /\ \A i \in DOMAIN frames: frames[i].command = "SUBSCRIBE"
      <3>1. Len(Destinations) = 2
        BY DEF Destinations
      <3>2. frames \in [1..2 -> {frames[i] : i \in DOMAIN frames}]
        BY <3>1
      <3> QED  BY <3>1, <3>2, SeqDef DEF IsSeq, SubscribeFrame, Frame
    <2> HIDE DEF frames
    <2>3. CASE e # c \/ socket[e] # "open"
      BY <2>1, <2>3 DEF Transmit, TypeOK, LogStep, LogKept
    <2>4. CASE e = c /\ socket[e] = "open"
      <3>1. up'[c] = up[c] \o frames
        BY <2>1, <2>4 DEF Transmit, TypeOK
      <3> QED  BY <2>1, <2>2, <2>4, <3>1 DEF LogStep, LogGoesOn
    <2> QED  BY <2>3, <2>4
  <1>9. ASSUME NEW d \in Clients, Ping(d) PROVE LogStep(c)
    <2>1. CASE Recorded(d)
      BY <1>9, <2>1 DEF Ping, LogStep, LogKept
    <2>2. CASE ~Recorded(d)
      BY <1>9, <2>2, TransmitStep DEF Ping, Frame
    <2> QED  BY <2>1, <2>2
  <1>10. ASSUME NEW d \in Clients, ServerAccepts(d) \/ ServerSends(d) \/ ServerBeats(d) \/ ServerDies(d)
         PROVE  LogStep(c)
    BY <1>10 DEF ServerAccepts, ServerSends, ServerBeats, ServerDies, client, LogStep, LogKept
  <1> QED  BY <1>1, <1>2, <1>3, <1>4, <1>5, <1>6, <1>7, <1>8, <1>9, <1>10 DEF Next

\* A log stays a conversation.
LEMMA LoggedStep ==
  ASSUME NEW c \in Clients, Logged(c), LogStep(c)
  PROVE  Logged(c)'
  <1>1. CASE LogKept(c)
    BY <1>1 DEF LogKept, Logged
  <1>2. CASE LogBegins(c)
    <2>1. PICK f : f.command = "CONNECT" /\ up'[c] = Append(up[c], f)
      BY <1>2 DEF LogBegins
    <2>2. Len(up[c]) = 0
      BY <1>2 DEF LogBegins, Logged
    <2> QED  BY <1>2, <2>1, <2>2, AppendSeq DEF LogBegins, Logged, Commands
  <1>3. CASE LogGoesOn(c)
    <2>1. PICK frames : /\ IsSeq(frames) /\ up'[c] = up[c] \o frames
                        /\ \A i \in DOMAIN frames: frames[i].command \in {"SUBSCRIBE", "SEND", "PING"}
      BY <1>3 DEF LogGoesOn
    <2>2. /\ IsSeq(up'[c]) /\ Len(up'[c]) = Len(up[c]) + Len(frames)
          /\ DOMAIN up'[c] = 1..(Len(up[c]) + Len(frames))
          /\ DOMAIN up[c] = 1..Len(up[c]) /\ Len(up[c]) \in Nat
          /\ DOMAIN frames = 1..Len(frames) /\ Len(frames) \in Nat
          /\ \A i \in 1..Len(up[c]): up'[c][i] = up[c][i]
          /\ \A i \in 1..Len(frames): up'[c][Len(up[c]) + i] = frames[i]
      <3>1. Joined(up[c], frames)
        BY <2>1, ConcatSeq DEF Logged
      <3> QED  BY <2>1, <3>1, Zenon DEF Joined
    <2>3. Len(up[c]) > 0
      BY <1>3, <2>2 DEF Logged, LogGoesOn, IsSeq
    <2> QED  BY <1>3, <2>1, <2>2, <2>3 DEF LogGoesOn, Logged, Commands
  <1>4. CASE LogEnds(c)
    <2>1. PICK f : f.command = "DISCONNECT" /\ up'[c] = up[c] \o <<f>>
      BY <1>4 DEF LogEnds
    <2>2. /\ IsSeq(up'[c]) /\ Len(up'[c]) = Len(up[c]) + 1
          /\ DOMAIN up'[c] = 1..(Len(up[c]) + 1) /\ DOMAIN up[c] = 1..Len(up[c]) /\ Len(up[c]) \in Nat
          /\ \A i \in 1..Len(up[c]): up'[c][i] = up[c][i]
          /\ up'[c][Len(up[c]) + 1] = f
      <3>1. IsSeq(<<f>>) /\ Len(<<f>>) = 1 /\ <<f>>[1] = f
        BY OneFrame
      <3>2. Joined(up[c], <<f>>)
        BY <3>1, ConcatSeq DEF Logged
      <3> QED  BY <2>1, <3>1, <3>2 DEF Joined
    <2>3. Len(up[c]) > 0
      BY <1>4, <2>2 DEF Logged, LogEnds, IsSeq
    <2> QED  BY <1>4, <2>1, <2>2, <2>3 DEF LogEnds, Logged, Commands
  <1> QED  BY <1>1, <1>2, <1>3, <1>4 DEF LogStep

-----------------------------------------------------------------------------
(* Types. *)

LEMMA Constants ==
  /\ 0 \notin Clients /\ Clients \subseteq Nat
  /\ Outgoing \in Nat /\ Incoming \in Nat /\ MaxDelay \in Nat /\ MaxMessages \in Nat
  /\ Offers \subseteq [Clients -> Nat \X Nat]
  /\ Incoming > 0 => MaxDelay <= Incoming
  /\ Len(Destinations) = 2
  <1>1. Cardinality(Clients) \in Nat /\ Clients = 1..Cardinality(Clients)
    BY ClientAssumption, FS_CardinalityType
  <1>2. 0 \notin Clients /\ Clients \subseteq Nat
    BY <1>1
  <1>3. Len(Destinations) = 2
    BY DEF Destinations
  <1> QED  BY <1>2, <1>3, ClientAssumption, DelayAssumption

LEMMA OffIsTimer ==
  /\ Off \in Timer /\ Off.ttl = 0 /\ Off.due = 0
  /\ \A n \in Nat: Every(n) \in Timer /\ Every(n).ttl = n /\ Every(n).due = n
  /\ \A m, n \in Nat: Larger(m, n) \in Nat /\ Larger(m, n) >= m /\ Larger(m, n) >= n
  BY DEF Off, Every, Timer, Larger

\* Removing the head, adding one at the end.
LEMMA TailSeq ==
  ASSUME NEW X, NEW s \in Seq(X), s # <<>>
  PROVE  /\ Tail(s) \in Seq(X) /\ Len(Tail(s)) = Len(s) - 1 /\ Len(s) \in Nat \ {0}
         /\ DOMAIN s = 1..Len(s) /\ DOMAIN Tail(s) = 1..(Len(s) - 1)
         /\ Head(s) = s[1] /\ Head(s) \in X
         /\ \A i \in 1..(Len(s) - 1): Tail(s)[i] = s[i + 1]
  OBVIOUS

LEMMA AddSeq ==
  ASSUME NEW X, NEW s \in Seq(X), NEW e \in X
  PROVE  /\ Append(s, e) \in Seq(X) /\ Len(Append(s, e)) = Len(s) + 1
         /\ DOMAIN s = 1..Len(s) /\ DOMAIN Append(s, e) = 1..(Len(s) + 1) /\ Len(s) \in Nat
         /\ Append(s, e)[Len(s) + 1] = e
         /\ \A i \in 1..Len(s): Append(s, e)[i] = s[i]
  OBVIOUS

LEMMA InitSound == Init => Sound
  <1> SUFFICES ASSUME Init PROVE Sound
    OBVIOUS
  <1>1. TypeOK
    <2>1. [pinger |-> Off, ponger |-> Off] \in [pinger: Timer, ponger: Timer]
      BY OffIsTimer
    <2>2. NewSession \in [alive: BOOLEAN, accepted: BOOLEAN, sent: Nat, beat: Timer]
      BY OffIsTimer DEF NewSession
    <2>3. offer \in [Clients -> Nat \X Nat]
      BY Constants DEF Init
    <2>4. /\ shown \in [Clients -> [1..MaxMessages -> Nat]] /\ socket \in [Clients -> States]
          /\ hooked \in [Clients -> BOOLEAN] /\ connected \in [Clients -> BOOLEAN]
          /\ subscriptions \in [Clients -> SUBSET Nat] /\ counter \in [Clients -> Nat]
          /\ silent \in [Clients -> Nat] /\ down \in [Clients -> Seq(Arrival)]
      BY DEF Init, States
    <2>5. DOMAIN up = Clients /\ \A c \in Clients: \A i \in DOMAIN up[c]: up[c][i].command \in Commands
      BY DEF Init
    <2>6. stompClient \in {0} \cup Clients /\ uiConnected \in BOOLEAN /\ overlapped \in BOOLEAN
      BY DEF Init
    <2>7. /\ timers \in [Clients -> [pinger: Timer, ponger: Timer]]
          /\ server \in [Clients -> [alive: BOOLEAN, accepted: BOOLEAN, sent: Nat, beat: Timer]]
      BY <2>1, <2>2 DEF Init
    <2> QED  BY <2>3, <2>4, <2>5, <2>6, <2>7 DEF TypeOK
  <1>2. ASSUME NEW c \in Clients PROVE Logged(c) /\ Numbered(c) /\ Hooked(c) /\ Beating(c) /\ InTime(c)
    <2>1. Logged(c)
      BY NothingIsSeq DEF Init, Logged
    <2>2. Numbered(c) /\ Hooked(c)
      BY DEF Init, Numbered, Hooked, NoTimers
    <2>3. Beating(c) /\ InTime(c)
      BY DEF Init, Beating, InTime, NewSession, Beats
    <2> QED  BY <2>1, <2>2, <2>3
  <1>3. ASSUME NEW c \in Clients PROVE Followed(c) /\ ShownOnce(c)
    BY DEF Init, Followed, ShownOnce, NewSession
  <1> QED  BY <1>1, <1>2, <1>3 DEF Sound

\* Types are preserved, the log aside.
Intervals == [pinger: Timer, ponger: Timer]
Sessions == [alive: BOOLEAN, accepted: BOOLEAN, sent: Nat, beat: Timer]
Typed ==
    /\ stompClient \in {0} \cup Clients /\ uiConnected \in BOOLEAN /\ overlapped \in BOOLEAN
    /\ shown \in [Clients -> [1..MaxMessages -> Nat]]
    /\ socket \in [Clients -> States]
    /\ hooked \in [Clients -> BOOLEAN] /\ connected \in [Clients -> BOOLEAN]
    /\ subscriptions \in [Clients -> SUBSET Nat] /\ counter \in [Clients -> Nat]
    /\ timers \in [Clients -> Intervals] /\ silent \in [Clients -> Nat]
    /\ DOMAIN up = Clients
    /\ down \in [Clients -> Seq(Arrival)]
    /\ server \in [Clients -> Sessions]

LEMMA CallsTyped ==
  ASSUME Typed, offer \in [Clients -> Nat \X Nat]
  PROVE  /\ \A d: \A frames: Transmit(d, frames) => DOMAIN up' = Clients
         /\ \A d: CleanUp(d) => /\ connected' \in [Clients -> BOOLEAN]
                                /\ timers' \in [Clients -> Intervals]
         /\ \A d \in Clients: SetupHeartbeat(d) => timers' \in [Clients -> Intervals]
  <1>1. ASSUME NEW d, NEW frames, Transmit(d, frames) PROVE DOMAIN up' = Clients
    BY <1>1 DEF Transmit, Typed
  <1>2. ASSUME NEW d, CleanUp(d)
        PROVE  connected' \in [Clients -> BOOLEAN] /\ timers' \in [Clients -> Intervals]
    <2>1. [pinger |-> Off, ponger |-> Off] \in Intervals
      BY OffIsTimer DEF Intervals
    <2> QED  BY <1>2, <2>1 DEF CleanUp, Stopped, Typed
  <1>3. ASSUME NEW d \in Clients, SetupHeartbeat(d)
        PROVE  timers' \in [Clients -> Intervals]
    <2>1. /\ Every(Larger(Outgoing, offer[d][2])) \in Timer
          /\ Every(Larger(Incoming, offer[d][1])) \in Timer
      BY OffIsTimer, Constants
    <2>2. timers[d].pinger \in Timer /\ timers[d].ponger \in Timer
      BY DEF Typed, Intervals
    <2> QED  BY <1>3, <2>1, <2>2 DEF SetupHeartbeat, Typed, Intervals
  <1> QED  BY <1>1, <1>2, <1>3

LEMMA SessionFields ==
  ASSUME NEW x \in Sessions
  PROVE  /\ x.alive \in BOOLEAN /\ x.accepted \in BOOLEAN /\ x.sent \in Nat /\ x.beat \in Timer
         /\ [x EXCEPT !.alive = FALSE] \in Sessions
         /\ [x EXCEPT !.sent = @ + 1] \in Sessions
         /\ \A t \in Timer: /\ [x EXCEPT !.beat = t] \in Sessions
                            /\ [x EXCEPT !.accepted = TRUE, !.beat = t] \in Sessions
         /\ [x EXCEPT !.beat.due = x.beat.ttl] \in Sessions
  <1>1. x.alive \in BOOLEAN /\ x.accepted \in BOOLEAN /\ x.sent \in Nat /\ x.beat \in Timer
    BY DEF Sessions
  <1>2. [x.beat EXCEPT !.due = x.beat.ttl] \in Timer
    BY <1>1 DEF Timer
  <1>3. [x EXCEPT !.alive = FALSE] \in Sessions
    BY DEF Sessions
  <1>4. [x EXCEPT !.sent = @ + 1] \in Sessions
    BY DEF Sessions
  <1>5. ASSUME NEW t \in Timer
        PROVE  [x EXCEPT !.beat = t] \in Sessions /\ [x EXCEPT !.accepted = TRUE, !.beat = t] \in Sessions
    BY DEF Sessions
  <1>6. [x EXCEPT !.beat.due = x.beat.ttl] \in Sessions
    BY <1>2 DEF Sessions
  <1> QED  BY <1>1, <1>3, <1>4, <1>5, <1>6

LEMMA IntervalFields ==
  ASSUME NEW x \in Intervals
  PROVE  /\ x.pinger \in Timer /\ x.ponger \in Timer
         /\ [x EXCEPT !.pinger.due = x.pinger.ttl] \in Intervals
         /\ [x EXCEPT !.ponger.due = x.ponger.ttl] \in Intervals
  <1>1. x.pinger \in Timer /\ x.ponger \in Timer
    BY DEF Intervals
  <1>2. [x.pinger EXCEPT !.due = x.pinger.ttl] \in Timer /\ [x.ponger EXCEPT !.due = x.ponger.ttl] \in Timer
    BY <1>1 DEF Timer
  <1> QED  BY <1>1, <1>2 DEF Intervals

LEMMA ArrivesTyped ==
  ASSUME Typed, NEW c \in Clients, NEW cmd, Arrives(c, cmd)
  PROVE  /\ down' \in [Clients -> Seq(Arrival)] /\ silent' \in [Clients -> Nat]
         /\ Head(down[c]) \in Arrival /\ Head(down[c]).command = cmd
  <1>1. down[c] \in Seq(Arrival) /\ down[c] # <<>>
    BY DEF Typed, Arrives
  <1>2. Tail(down[c]) \in Seq(Arrival) /\ Head(down[c]) \in Arrival
    BY <1>1, TailSeq
  <1> QED  BY <1>2 DEF Typed, Arrives

LEMMA ReachTyped ==
  ASSUME Typed, NEW c \in Clients, NEW cmd \in {"CONNECTED", "PONG"}, Reach(c, cmd)
  PROVE  down' \in [Clients -> Seq(Arrival)]
  <1>1. [command |-> cmd, age |-> 0] \in Arrival
    BY Constants DEF Arrival
  <1>2. Append(down[c], [command |-> cmd, age |-> 0]) \in Seq(Arrival)
    BY <1>1, AddSeq DEF Typed
  <1> QED  BY <1>2 DEF Reach, Typed

\* What a broadcast puts on the way.
Broadcast(c) == {[command |-> "MESSAGE", id |-> id, age |-> 0, message |-> server[c].sent + 1]:
                     id \in {id \in Ids(c): id % Len(Destinations) = 1}}
LEMMA BroadcastIsSeq ==
  ASSUME Typed, NEW c \in Clients, Numbered(c), ServerSends(c)
  PROVE  /\ SetToSeq(Broadcast(c)) \in Seq(Broadcast(c)) /\ Broadcast(c) \subseteq Arrival
         /\ down' = [down EXCEPT ![c] = @ \o SetToSeq(Broadcast(c))]
  <1>1. IsFiniteSet({id \in Ids(c): id % Len(Destinations) = 1})
    <2>1. IsFiniteSet(0..(counter[c] - 1))
      BY FS_Interval DEF Typed
    <2> QED  BY <2>1, FS_Subset DEF Numbered, Ids
  <1>2. IsFiniteSet(Broadcast(c))
    <2> DEFINE T == {id \in Ids(c): id % Len(Destinations) = 1}
               f == [id \in T |-> [command |-> "MESSAGE", id |-> id, age |-> 0, message |-> server[c].sent + 1]]
    <2>1. f \in Surjection(T, Broadcast(c))
      BY DEF Surjection, Broadcast
    <2> QED  BY <1>1, <2>1, FS_Surjection
  <1>3. Broadcast(c) \subseteq Arrival
    <2>1. server[c].sent + 1 \in 1..MaxMessages
      <3>1. server[c].sent \in Nat /\ server[c].sent < MaxMessages
        BY SessionFields DEF ServerSends, Typed
      <3> QED  BY <3>1, Constants
    <2>2. Ids(c) \subseteq Nat
      BY DEF Ids, Typed
    <2> QED  BY <2>1, <2>2, Constants DEF Broadcast, Arrival
  <1> QED  BY <1>2, <1>3, SetToSeqIsSeq DEF ServerSends, Broadcast

LEMMA TypedStep ==
  ASSUME Typed, offer \in [Clients -> Nat \X Nat],
         \A c \in Clients: Numbered(c) /\ InTime(c), Next
  PROVE  Typed'
  <1>1. CASE ClickConnect
    BY <1>1 DEF ClickConnect, Typed, States
  <1>2. CASE ClickDisconnect
    <2>1. /\ DOMAIN up' = Clients /\ connected' \in [Clients -> BOOLEAN]
          /\ timers' \in [Clients -> Intervals]
      BY <1>2, CallsTyped DEF ClickDisconnect
    <2> QED  BY <1>2, <2>1 DEF ClickDisconnect, Typed, States
  <1>3. CASE ClickSend \/ ClickConfirm
    <2>1. PICK h : Send(h)
      BY <1>3 DEF ClickSend, ClickConfirm
    <2>2. DOMAIN up' = Clients
      BY <2>1, CallsTyped DEF Send
    <2> QED  BY <2>1, <2>2 DEF Send, Typed, page
  <1>4. CASE Tick
    <2>1. ASSUME NEW t \in Timer, t.ttl > 0 => t.due # 0 PROVE Minus(t) \in Timer
      BY <2>1 DEF Minus, Timer
    <2>2. timers' \in [Clients -> Intervals]
      <3>1. \A c \in Clients: timers[c].pinger \in Timer /\ timers[c].ponger \in Timer
        BY IntervalFields DEF Typed
      <3>2. \A c \in Clients: Minus(timers[c].pinger) \in Timer /\ Minus(timers[c].ponger) \in Timer
        BY <1>4, <2>1, <3>1 DEF Tick, Due
      <3> QED  BY <1>4, <3>2 DEF Tick, Intervals
    <2>3. server' \in [Clients -> Sessions]
      <3>1. \A c \in Clients: server[c] \in Sessions /\ server[c].beat \in Timer
        BY SessionFields DEF Typed
      <3>2. \A c \in Clients: Beats(c) => Minus(server[c].beat) \in Timer
        <4>1. \A c \in Clients: Beats(c) => server[c].beat.due > 0
          BY <1>4 DEF Tick
        <4>2. \A c \in Clients: Beats(c) => server[c].beat.due # 0
          BY <4>1
        <4> QED  BY <2>1, <3>1, <4>2
      <3>3. \A c \in Clients: Beats(c) => [server[c] EXCEPT !.beat = Minus(@)] \in Sessions
        BY <3>1, <3>2, SessionFields
      <3> QED  BY <1>4, <3>1, <3>3 DEF Tick
    <2>4. down' \in [Clients -> Seq(Arrival)]
      <3>1. ASSUME NEW c \in Clients, Beats(c)
            PROVE  [i \in DOMAIN down[c] |-> [down[c][i] EXCEPT !.age = @ + 1]] \in Seq(Arrival)
        <4>1. down[c] \in Seq(Arrival) /\ DOMAIN down[c] = 1..Len(down[c]) /\ Len(down[c]) \in Nat
          BY DEF Typed
        <4>2. ASSUME NEW i \in DOMAIN down[c] PROVE [down[c][i] EXCEPT !.age = @ + 1] \in Arrival
          <5>1. down[c][1].age < MaxDelay
            BY <1>4, <3>1, <4>1, <4>2 DEF Tick
          <5>2. down[c][i].age <= down[c][1].age /\ down[c][i] \in Arrival
            BY <4>1, <4>2 DEF InTime
          <5>3. down[c][i].age \in 0..MaxDelay /\ down[c][1].age \in 0..MaxDelay
            <6>1. down[c][1] \in Arrival
              BY <4>1, <4>2
            <6> QED  BY <5>2, <6>1 DEF Arrival
          <5>4. down[c][i].age + 1 \in 0..MaxDelay
            BY <5>1, <5>2, <5>3, Constants
          <5> QED  BY <5>2, <5>4 DEF Arrival
        <4>3. [i \in 1..Len(down[c]) |-> [down[c][i] EXCEPT !.age = @ + 1]] \in [1..Len(down[c]) -> Arrival]
          BY <4>1, <4>2
        <4> QED  BY <4>1, <4>3, SeqDef
      <3> QED  BY <1>4, <3>1 DEF Tick, Typed
    <2>5. silent' \in [Clients -> Nat]
      BY <1>4 DEF Tick, Typed
    <2> QED  BY <1>4, <2>2, <2>3, <2>4, <2>5 DEF Tick, Typed, page
  <1>5. ASSUME NEW d \in Clients, SocketOpens(d) \/ SocketEnds(d) PROVE Typed'
    BY <1>5 DEF SocketOpens, SocketEnds, Typed, States, page
  <1>6. ASSUME NEW d \in Clients, SocketClosed(d) PROVE Typed'
    <2>1. connected' \in [Clients -> BOOLEAN] /\ timers' \in [Clients -> Intervals]
      BY <1>6, CallsTyped DEF SocketClosed, Typed
    <2>2. NewSession \in Sessions
      BY OffIsTimer DEF NewSession, Sessions
    <2>3. socket' \in [Clients -> States] /\ down' \in [Clients -> Seq(Arrival)]
          /\ server' \in [Clients -> Sessions]
      BY <1>6, <2>2 DEF SocketClosed, Typed, States
    <2> QED  BY <1>6, <2>1, <2>3 DEF SocketClosed, Typed, page
  <1>7. ASSUME NEW d \in Clients, ReceivePong(d) PROVE Typed'
    BY <1>7, ArrivesTyped DEF ReceivePong, Arrives, Typed
  <1>8. ASSUME NEW d \in Clients, ReceiveConnected(d) PROVE Typed'
    <2>1. down' \in [Clients -> Seq(Arrival)] /\ silent' \in [Clients -> Nat]
      BY <1>8, ArrivesTyped DEF ReceiveConnected
    <2>2. timers' \in [Clients -> Intervals] /\ DOMAIN up' = Clients
      BY <1>8, CallsTyped DEF ReceiveConnected, SubscribeAll
    <2>3. subscriptions' \in [Clients -> SUBSET Nat] /\ counter' \in [Clients -> Nat]
      <3> DEFINE e == stompClient
                 n == IF Throws(e) THEN 1 ELSE Len(Destinations)
                 more == {counter[e] + k - 1: k \in 1..n}
      <3>1. /\ subscriptions' = [subscriptions EXCEPT ![e] = @ \cup more]
            /\ counter' = [counter EXCEPT ![e] = @ + n] /\ n \in {1, 2}
        BY <1>8, Constants DEF ReceiveConnected, SubscribeAll
      <3>2. e \in Clients => more \subseteq Nat /\ counter[e] + n \in Nat
        <4>1. e \in Clients => counter[e] \in Nat
          BY DEF Typed
        <4>2. n \in {1, 2}
          BY <3>1
        <4> HIDE DEF n
        <4>3. e \in Clients => \A k \in 1..n : counter[e] + k - 1 \in Nat
          BY <4>1, <4>2
        <4> QED  BY <3>1, <4>1, <4>3
      <3> HIDE DEF more, n
      <3> QED  BY <3>1, <3>2 DEF Typed
    <2> QED  BY <1>8, <2>1, <2>2, <2>3 DEF ReceiveConnected, Arrives, Typed
  <1>9. ASSUME NEW d \in Clients, ReceiveMessage(d) PROVE Typed'
    <2>1. down' \in [Clients -> Seq(Arrival)] /\ silent' \in [Clients -> Nat]
      BY <1>9, ArrivesTyped DEF ReceiveMessage
    <2>2. Head(down[d]).message \in 1..MaxMessages
      BY <1>9, ArrivesTyped DEF ReceiveMessage, Arrival
    <2>3. shown' \in [Clients -> [1..MaxMessages -> Nat]]
      <3>1. \A m \in 1..MaxMessages: [shown[d] EXCEPT ![m] = @ + 1] \in [1..MaxMessages -> Nat]
        <4>1. shown[d] \in [1..MaxMessages -> Nat]
          BY DEF Typed
        <4> SUFFICES ASSUME NEW m \in 1..MaxMessages
                     PROVE  [shown[d] EXCEPT ![m] = shown[d][m] + 1] \in [1..MaxMessages -> Nat]
          OBVIOUS
        <4>2. shown[d][m] \in Nat
          BY <4>1, Zenon
        <4>3. shown[d][m] + 1 \in Nat
          BY <4>2
        <4> QED  BY <4>1, <4>3
      <3> QED  BY <1>9, <2>2, <3>1 DEF ReceiveMessage, Typed
    <2> QED  BY <1>9, <2>1, <2>3 DEF ReceiveMessage, Arrives, Typed
  <1>10. ASSUME NEW d \in Clients, Ping(d) \/ Pong(d) PROVE Typed'
    <2>1. \A t \in {"pinger", "ponger"}: Again(d, t) \in [Clients -> Intervals]
      BY IntervalFields DEF Again, Typed
    <2>2. timers' \in [Clients -> Intervals]
      BY <1>10, <2>1 DEF Ping, Pong
    <2>3. DOMAIN up' = Clients
      BY <1>10, CallsTyped DEF Ping, Pong, Typed
    <2> QED  BY <1>10, <2>2, <2>3 DEF Ping, Pong, Typed, States, page
  <1>11. ASSUME NEW d \in Clients, ServerAccepts(d) \/ ServerBeats(d) PROVE Typed'
    <2>1. down' \in [Clients -> Seq(Arrival)]
      BY <1>11, ReachTyped DEF ServerAccepts, ServerBeats
    <2>2. server[d] \in Sessions /\ Every(Larger(Incoming, offer[d][1])) \in Timer /\ Off \in Timer
      BY OffIsTimer, Constants DEF Typed
    <2>3. server' \in [Clients -> Sessions]
      <3>1. PICK x \in Sessions : server' = [server EXCEPT ![d] = x]
        <4>1. CASE ServerAccepts(d)
          <5>1. PICK t \in Timer : server' = [server EXCEPT ![d].accepted = TRUE, ![d].beat = t]
            BY <4>1, <2>2, Zenon DEF ServerAccepts
          <5>2. server' = [server EXCEPT ![d] = [server[d] EXCEPT !.accepted = TRUE, !.beat = t]]
            BY <5>1 DEF Typed
          <5> QED  BY <2>2, <5>2, SessionFields
        <4>2. CASE ServerBeats(d)
          <5>1. server' = [server EXCEPT ![d] = [server[d] EXCEPT !.beat.due = server[d].beat.ttl]]
            BY <4>2 DEF ServerBeats
          <5> QED  BY <2>2, <5>1, SessionFields
        <4> QED  BY <1>11, <4>1, <4>2
      <3> QED  BY <3>1 DEF Typed
    <2> QED  BY <1>11, <2>1, <2>3 DEF ServerAccepts, ServerBeats, Typed, page, client
  <1>12. ASSUME NEW d \in Clients, ServerSends(d) PROVE Typed'
    <2>1. down[d] \o SetToSeq(Broadcast(d)) \in Seq(Arrival)
      <3>1. SetToSeq(Broadcast(d)) \in Seq(Broadcast(d)) /\ Broadcast(d) \subseteq Arrival
        BY <1>12, BroadcastIsSeq
      <3>2. SetToSeq(Broadcast(d)) \in Seq(Arrival) /\ down[d] \in Seq(Arrival)
        BY <3>1 DEF Typed
      <3> QED  BY <3>2, ConcatProperties
    <2>2. down' \in [Clients -> Seq(Arrival)]
      <3>1. down' = [down EXCEPT ![d] = down[d] \o SetToSeq(Broadcast(d))]
        BY <1>12, BroadcastIsSeq
      <3> QED  BY <2>1, <3>1 DEF Typed
    <2>3. server' \in [Clients -> Sessions]
      BY <1>12, SessionFields DEF ServerSends, Typed
    <2> QED  BY <1>12, <2>2, <2>3 DEF ServerSends, Typed, page, client
  <1>13. ASSUME NEW d \in Clients, ServerDies(d) PROVE Typed'
    <2>1. server' \in [Clients -> Sessions] /\ down' \in [Clients -> Seq(Arrival)]
      <3>1. server' = [server EXCEPT ![d] = [server[d] EXCEPT !.alive = FALSE]] /\ server[d] \in Sessions
        BY <1>13 DEF ServerDies, Typed
      <3>2. [server[d] EXCEPT !.alive = FALSE] \in Sessions
        BY <3>1, SessionFields
      <3> QED  BY <1>13, <3>1, <3>2 DEF ServerDies, Typed
    <2> QED  BY <1>13, <2>1 DEF ServerDies, Typed, page, client
  <1> QED
    BY <1>1, <1>2, <1>3, <1>4, <1>5, <1>6, <1>7, <1>8, <1>9, <1>10, <1>11, <1>12, <1>13 DEF Next

-----------------------------------------------------------------------------
(* Subscriptions and timers. *)

LEMMA NumberedStep ==
  ASSUME Typed, Next, NEW c \in Clients, Numbered(c)
  PROVE  Numbered(c)'
  <1>1. CASE UNCHANGED <<subscriptions, counter>>
    BY <1>1 DEF Numbered
  <1>2. CASE SubscribeAll(stompClient)
    <2>1. CASE stompClient # c
      BY <1>2, <2>1 DEF SubscribeAll, Numbered, Typed
    <2>2. CASE stompClient = c
      <3> DEFINE n == IF Throws(c) THEN 1 ELSE Len(Destinations)
                 more == {counter[c] + k - 1: k \in 1..n}
      <3>1. subscriptions'[c] = subscriptions[c] \cup more /\ counter'[c] = counter[c] + n
        BY <1>2, <2>2 DEF SubscribeAll, Typed
      <3>2. n \in {1, 2} /\ counter[c] \in Nat
        BY Constants DEF Typed
      <3> HIDE DEF n
      <3>3. more = counter[c]..(counter[c] + n - 1)
        BY <3>2
      <3> HIDE DEF more
      <3>4. subscriptions[c] \cup more = 0..(counter[c] + n - 1)
        BY <3>2, <3>3 DEF Numbered
      <3> QED  BY <3>1, <3>2, <3>4 DEF Numbered
    <2> QED  BY <2>1, <2>2
  <1>3. UNCHANGED <<subscriptions, counter>> \/ SubscribeAll(stompClient)
    BY DEF Next, ClickConnect, ClickDisconnect, ClickSend, ClickConfirm, Send, Tick, SocketOpens, SocketEnds,
           SocketClosed, ReceivePong, ReceiveConnected, ReceiveMessage, Ping, Pong, ServerAccepts, ServerSends,
           ServerBeats, ServerDies, client
  <1> QED  BY <1>1, <1>2, <1>3

\* A timer that is off stays off when time passes, and is never due.
LEMMA TimerOff ==
  ASSUME NEW t \in Timer
  PROVE  /\ Minus(Off) = Off
         /\ t.ttl > 0 => t # Off
         /\ Minus(t).ttl = t.ttl
         /\ t.ttl > 0 => Minus(t).due = t.due - 1
         /\ t.ttl = 0 => Minus(t) = t
         /\ t.ttl \in Nat /\ t.due \in Nat
  BY DEF Minus, Off, Timer

LEMMA HookedStep ==
  ASSUME Typed, Next, NEW c \in Clients, Hooked(c)
  PROVE  Hooked(c)'
  <1> USE DEF NoTimers
  <1>0. timers[c].pinger \in Timer /\ timers[c].ponger \in Timer
    BY IntervalFields DEF Typed
  <1>1. CASE ClickConnect
    BY <1>1 DEF ClickConnect, Typed, States, Hooked
  <1>2. CASE ClickDisconnect
    BY <1>2 DEF ClickDisconnect, Throws, CleanUp, Stopped, Typed, States, Hooked
  <1>3. CASE ClickSend \/ ClickConfirm
    BY <1>3 DEF ClickSend, ClickConfirm, Send, Hooked
  <1>4. CASE Tick
    <2>1. /\ timers'[c] = [pinger |-> Minus(timers[c].pinger), ponger |-> Minus(timers[c].ponger)]
          /\ UNCHANGED <<socket, hooked, connected>>
      BY <1>4 DEF Tick
    <2>2. timers[c] = NoTimers => timers'[c] = NoTimers
      BY <2>1, <1>0, TimerOff
    <2> QED  BY <2>1, <2>2 DEF Hooked
  <1>5. ASSUME NEW d \in Clients, SocketOpens(d) \/ SocketEnds(d) PROVE Hooked(c)'
    BY <1>5 DEF SocketOpens, SocketEnds, Typed, States, Hooked
  <1>6. ASSUME NEW d \in Clients, SocketClosed(d) PROVE Hooked(c)'
    BY <1>6 DEF SocketClosed, CleanUp, Stopped, Typed, States, Hooked
  <1>7. ASSUME NEW d \in Clients, ReceivePong(d) \/ ReceiveMessage(d) PROVE Hooked(c)'
    BY <1>7 DEF ReceivePong, ReceiveMessage, Arrives, Hooked
  <1>8. ASSUME NEW d \in Clients, ReceiveConnected(d) PROVE Hooked(c)'
    BY <1>8 DEF ReceiveConnected, Arrives, SetupHeartbeat, Typed, States, Hooked
  <1>9. ASSUME NEW d \in Clients, Ping(d) \/ Pong(d) PROVE Hooked(c)'
    <2>1. CASE c # d
      BY <1>9, <2>1 DEF Ping, Pong, Again, Typed, States, Hooked
    <2>2. CASE c = d
      <3>1. timers[c].pinger # Off \/ timers[c].ponger # Off
        BY <1>0, <1>9, <2>2, TimerOff DEF Ping, Pong, Due
      <3>2. timers[c] # NoTimers
        BY <3>1
      <3>3. /\ socket'[c] = socket[c] \/ (socket[c] = "open" /\ socket'[c] = "closing")
            /\ UNCHANGED <<hooked, connected>>
        BY <1>9, <2>2 DEF Ping, Pong, Typed
      <3> QED  BY <3>2, <3>3 DEF Hooked
    <2> QED  BY <2>1, <2>2
  <1>10. ASSUME NEW d \in Clients, ServerAccepts(d) \/ ServerSends(d) \/ ServerBeats(d) \/ ServerDies(d)
         PROVE  Hooked(c)'
    BY <1>10 DEF ServerAccepts, ServerSends, ServerBeats, ServerDies, client, Hooked
  <1> QED  BY <1>1, <1>2, <1>3, <1>4, <1>5, <1>6, <1>7, <1>8, <1>9, <1>10 DEF Next

-----------------------------------------------------------------------------
(* Heart-beats. *)

\* What is told of one connection; no event of another one changes it.
Connection(c) == <<socket[c], timers[c], silent[c], down[c], server[c], offer[c]>>

LEMMA OtherConnection ==
  ASSUME Typed, NEW c \in Clients, NEW d \in Clients, c # d, UNCHANGED offer,
         \/ SocketOpens(d) \/ SocketEnds(d) \/ SocketClosed(d)
         \/ ReceivePong(d) \/ ReceiveConnected(d) \/ ReceiveMessage(d) \/ Ping(d) \/ Pong(d)
         \/ ServerAccepts(d) \/ ServerSends(d) \/ ServerBeats(d) \/ ServerDies(d)
  PROVE  UNCHANGED Connection(c)
  <1>1. CASE SocketOpens(d) \/ SocketEnds(d) \/ SocketClosed(d)
    <2>1. CASE SocketOpens(d) \/ SocketEnds(d)
      BY <2>1 DEF SocketOpens, SocketEnds, Typed, Connection
    <2>2. CASE SocketClosed(d)
      <3>1. socket'[c] = socket[c] /\ timers'[c] = timers[c]
        BY <2>2 DEF SocketClosed, CleanUp, Stopped, Typed
      <3>2. silent'[c] = silent[c] /\ down'[c] = down[c] /\ server'[c] = server[c]
        BY <2>2 DEF SocketClosed, CleanUp, Stopped, Typed
      <3> QED  BY <3>1, <3>2 DEF Connection
    <2> QED  BY <1>1, <2>1, <2>2
  <1>2. CASE ReceivePong(d) \/ ReceiveConnected(d) \/ ReceiveMessage(d)
    BY <1>2 DEF ReceivePong, ReceiveConnected, ReceiveMessage, Arrives, SetupHeartbeat, Typed, Connection
  <1>3. CASE Ping(d) \/ Pong(d)
    BY <1>3 DEF Ping, Pong, Again, Typed, Connection
  <1>4. CASE ServerAccepts(d) \/ ServerBeats(d)
    <2>1. server'[c] = server[c]
      BY <1>4, Zenon DEF ServerAccepts, ServerBeats, Typed
    <2>2. down'[c] = down[c]
      BY <1>4 DEF ServerAccepts, ServerBeats, Reach, Typed
    <2> QED  BY <1>4, <2>1, <2>2 DEF ServerAccepts, ServerBeats, Connection, client
  <1>5. CASE ServerSends(d) \/ ServerDies(d)
    BY <1>5 DEF ServerSends, ServerDies, Typed, Connection, client
  <1> QED  BY <1>1, <1>2, <1>3, <1>4, <1>5

\* The client takes the first frame; the server puts more on the way.
Taken(c) ==
    /\ socket[c] = "open" /\ socket'[c] = "open" /\ silent'[c] = 0
    /\ server'[c] = server[c] /\ down[c] # <<>>
    /\ DOMAIN down[c] = 1..Len(down[c]) /\ Len(down[c]) \in Nat \ {0} /\ Head(down[c]) = down[c][1]
    /\ DOMAIN down'[c] = 1..Len(down'[c]) /\ Len(down'[c]) = Len(down[c]) - 1
    /\ \A i \in DOMAIN down'[c]: i \in DOMAIN down[c] /\ i + 1 \in DOMAIN down[c] /\ down'[c][i] = down[c][i + 1]
    /\ down'[c] = <<>> <=> Len(down[c]) = 1
    /\ down'[c] # <<>> => Head(down'[c]) = down[c][2]
More(c, S) ==
    /\ socket[c] = "open" /\ socket'[c] = "open" /\ silent'[c] = silent[c]
    /\ timers'[c] = timers[c]
    /\ DOMAIN down[c] = 1..Len(down[c]) /\ Len(down[c]) \in Nat
    /\ DOMAIN down'[c] = 1..Len(down'[c]) /\ Len(down'[c]) \in Nat /\ Len(down'[c]) >= Len(down[c])
    /\ \A i \in DOMAIN down'[c]: IF i \in DOMAIN down[c] THEN down'[c][i] = down[c][i] ELSE down'[c][i] \in S
    /\ down[c] # <<>> => Head(down'[c]) = Head(down[c])
    /\ S \subseteq Arrival

LEMMA TakenStep ==
  ASSUME Typed, NEW c \in Clients, NEW cmd, Arrives(c, cmd)
  PROVE  Taken(c) /\ down[c][1].command = cmd
  <1>1. down[c] \in Seq(Arrival) /\ down[c] # <<>> /\ down'[c] = Tail(down[c])
    BY DEF Typed, Arrives
  <1>2. /\ Len(down'[c]) = Len(down[c]) - 1 /\ Len(down[c]) \in Nat \ {0}
        /\ DOMAIN down[c] = 1..Len(down[c]) /\ DOMAIN down'[c] = 1..(Len(down[c]) - 1)
        /\ Head(down[c]) = down[c][1] /\ down'[c] \in Seq(Arrival)
        /\ \A i \in 1..(Len(down[c]) - 1): down'[c][i] = down[c][i + 1]
    BY <1>1, TailSeq
  <1>3. /\ down'[c] = <<>> <=> Len(down[c]) = 1
        /\ down'[c] # <<>> => Head(down'[c]) = down'[c][1]
    <2>1. down'[c] = <<>> <=> Len(down'[c]) = 0
      BY <1>2, EmptySeq
    <2> QED  BY <1>2, <2>1
  <1> QED  BY <1>1, <1>2, <1>3 DEF Arrives, Taken, Typed

LEMMA ReachStep ==
  ASSUME Typed, NEW c \in Clients, NEW cmd \in {"CONNECTED", "PONG"}, Reach(c, cmd), UNCHANGED client,
         socket[c] = "open"
  PROVE  More(c, {[command |-> cmd, age |-> 0]}) /\ Len(down'[c]) = Len(down[c]) + 1
  <1> DEFINE f == [command |-> cmd, age |-> 0]
  <1>1. f \in Arrival
    BY Constants DEF Arrival
  <1>2. down[c] \in Seq(Arrival) /\ down'[c] = Append(down[c], f)
    BY DEF Typed, Reach
  <1> HIDE DEF f
  <1>3. /\ Len(down'[c]) = Len(down[c]) + 1 /\ Len(down[c]) \in Nat
        /\ DOMAIN down[c] = 1..Len(down[c]) /\ DOMAIN down'[c] = 1..(Len(down[c]) + 1)
        /\ down'[c][Len(down[c]) + 1] = f
        /\ \A i \in 1..Len(down[c]): down'[c][i] = down[c][i]
        /\ down'[c] \in Seq(Arrival)
    BY <1>1, <1>2, AddSeq
  <1>4. down[c] # <<>> => Head(down'[c]) = Head(down[c])
    BY <1>2, <1>3
  <1> QED  BY <1>1, <1>3, <1>4 DEF More, client, f

LEMMA SendsStep ==
  ASSUME Typed, NEW c \in Clients, Numbered(c), ServerSends(c)
  PROVE  /\ More(c, Broadcast(c)) /\ Len(down'[c]) = Len(down[c]) + Len(SetToSeq(Broadcast(c)))
         /\ Len(SetToSeq(Broadcast(c))) \in Nat
         /\ \A f \in Broadcast(c): f.command = "MESSAGE" /\ f.age = 0 /\ f.message = server[c].sent + 1
  <1> DEFINE t == SetToSeq(Broadcast(c))
  <1>1. t \in Seq(Broadcast(c)) /\ Broadcast(c) \subseteq Arrival /\ down[c] \in Seq(Arrival)
        /\ down'[c] = down[c] \o t
    BY BroadcastIsSeq DEF Typed
  <1>2. t \in Seq(Arrival) /\ \A i \in 1..Len(t): t[i] \in Broadcast(c)
    BY <1>1
  <1> HIDE DEF t
  <1>3. /\ Len(down'[c]) = Len(down[c]) + Len(t) /\ Len(down[c]) \in Nat /\ Len(t) \in Nat
        /\ down'[c] \in Seq(Arrival)
        /\ DOMAIN down[c] = 1..Len(down[c]) /\ DOMAIN down'[c] = 1..(Len(down[c]) + Len(t))
        /\ \A i \in 1..Len(down[c]): down'[c][i] = down[c][i]
        /\ \A i \in 1..Len(t): down'[c][Len(down[c]) + i] = t[i]
    BY <1>1, <1>2, ConcatProperties, LenProperties
  <1>4. \A i \in DOMAIN down'[c]: i \notin DOMAIN down[c] => down'[c][i] \in Broadcast(c)
    <2> SUFFICES ASSUME NEW i \in DOMAIN down'[c], i \notin DOMAIN down[c] PROVE down'[c][i] \in Broadcast(c)
      OBVIOUS
    <2>1. PICK j \in 1..Len(t) : i = Len(down[c]) + j
      <3>1. i - Len(down[c]) \in 1..Len(t) /\ i = Len(down[c]) + (i - Len(down[c]))
        BY <1>3
      <3> QED  BY <3>1
    <2> QED  BY <1>2, <1>3, <2>1
  <1>5. down[c] # <<>> => Head(down'[c]) = Head(down[c])
    BY <1>1, <1>3
  <1>6. \A f \in Broadcast(c): f.command = "MESSAGE" /\ f.age = 0 /\ f.message = server[c].sent + 1
    BY DEF Broadcast
  <1>7. More(c, Broadcast(c))
    BY <1>1, <1>3, <1>4, <1>5 DEF More, ServerSends, client
  <1> QED  BY <1>3, <1>6, <1>7 DEF t

\* The interval is fixed, and positive when both sides want heart-beats.
LEMMA IntervalFixed ==
  ASSUME NEW c \in Clients, offer \in [Clients -> Nat \X Nat], UNCHANGED offer
  PROVE  /\ Interval(c)' = Interval(c) /\ Agreed(c)' = Agreed(c)
         /\ Interval(c) \in Nat /\ Interval(c) >= Incoming
         /\ Agreed(c) => Interval(c) > 0 /\ Incoming > 0
         /\ Every(Interval(c)).ttl = Interval(c) /\ Every(Interval(c)).due = Interval(c)
  <1>1. offer[c][1] \in Nat /\ Incoming \in Nat
    BY Constants
  <1>2. Interval(c) \in Nat /\ Interval(c) >= Incoming
    BY <1>1, OffIsTimer DEF Interval
  <1>3. Every(Interval(c)).ttl = Interval(c) /\ Every(Interval(c)).due = Interval(c)
    BY <1>2, OffIsTimer
  <1>4. Agreed(c) => Interval(c) > 0 /\ Incoming > 0
    BY <1>1, <1>2 DEF Agreed
  <1>5. Interval(c)' = Interval(c) /\ Agreed(c)' = Agreed(c)
    BY DEF Interval, Agreed
  <1> QED  BY <1>2, <1>3, <1>4, <1>5

LEMMA BeatingSame ==
  ASSUME NEW c \in Clients, Beating(c), UNCHANGED Connection(c)
  PROVE  Beating(c)'
  BY DEF Connection, Beating, Interval, Agreed

LEMMA BeatingStep ==
  ASSUME Typed, Next, offer \in [Clients -> Nat \X Nat], UNCHANGED offer,
         NEW c \in Clients, Numbered(c), Hooked(c), Beating(c)
  PROVE  Beating(c)'
  <1>a. /\ Interval(c)' = Interval(c) /\ Agreed(c)' = Agreed(c)
        /\ Interval(c) \in Nat /\ (Agreed(c) => Interval(c) > 0)
        /\ Every(Interval(c)).ttl = Interval(c) /\ Every(Interval(c)).due = Interval(c)
    BY IntervalFixed
  <1>b. /\ timers[c] \in Intervals /\ timers[c].pinger \in Timer /\ timers[c].ponger \in Timer
        /\ server[c] \in Sessions /\ server[c].beat \in Timer /\ silent[c] \in Nat
    BY IntervalFields, SessionFields DEF Typed
  <1>c. /\ timers[c].ponger.ttl \in Nat /\ timers[c].ponger.due \in Nat /\ Off.ttl = 0
        /\ server[c].beat.ttl \in Nat /\ server[c].beat.due \in Nat
    BY <1>b DEF Timer, Off
  <1>1. CASE ClickConnect
    <2>1. CASE socket[c] = "none"
      BY <1>1, <1>a, <2>1 DEF ClickConnect, Typed, Beating
    <2>2. CASE socket[c] # "none"
      <3>1. UNCHANGED Connection(c)
        BY <1>1, <2>2 DEF ClickConnect, Typed, Connection
      <3> QED  BY <3>1, BeatingSame
    <2> QED  BY <2>1, <2>2
  <1>2. CASE ClickDisconnect
    <2>1. CASE stompClient = c
      <3>1. /\ timers'[c] = NoTimers /\ socket'[c] \in {"none", "closing", "closed"}
            /\ socket'[c] = "none" => socket[c] = "none"
            /\ UNCHANGED <<silent, server, down>>
        BY <1>2, <2>1 DEF ClickDisconnect, Throws, CleanUp, Stopped, NoTimers, Typed, States
      <3> QED  BY <1>a, <3>1 DEF Beating, NoTimers
    <2>2. CASE stompClient # c
      <3>1. UNCHANGED Connection(c)
        BY <1>2, <2>2 DEF ClickDisconnect, CleanUp, Stopped, Typed, Connection
      <3> QED  BY <3>1, BeatingSame
    <2> QED  BY <2>1, <2>2
  <1>3. CASE ClickSend \/ ClickConfirm
    BY <1>3, BeatingSame DEF ClickSend, ClickConfirm, Send, Connection
  <1>4. CASE Tick
    <2>1. /\ UNCHANGED socket
          /\ timers'[c] = [pinger |-> Minus(timers[c].pinger), ponger |-> Minus(timers[c].ponger)]
          /\ timers[c].ponger = Off => silent'[c] = silent[c]
          /\ Beats(c) => server'[c] = [server[c] EXCEPT !.beat = Minus(@)]
          /\ Beats(c) => server[c].beat.due > 0
          /\ ~Beats(c) => server'[c] = server[c] /\ down'[c] = down[c]
          /\ timers[c].ponger.ttl > 0 => timers[c].ponger.due # 0
      BY <1>4 DEF Tick, Due
    <2>2. timers'[c].ponger = Minus(timers[c].ponger)
      BY <2>1
    <2>3. /\ timers[c].ponger = Off => timers'[c].ponger = Off
          /\ timers[c].ponger # Off => /\ timers'[c].ponger # Off
                                       /\ timers'[c].ponger.ttl = Interval(c)
                                       /\ timers'[c].ponger.due <= Interval(c)
      <3>1. CASE timers[c].ponger = Off
        BY <2>2, <3>1, TimerOff, OffIsTimer
      <3>2. CASE timers[c].ponger # Off
        <4>1. Agreed(c) /\ timers[c].ponger.ttl = Interval(c) /\ timers[c].ponger.due <= Interval(c)
          BY <3>2 DEF Beating
        <4>2. timers'[c].ponger.ttl = Interval(c) /\ timers'[c].ponger.due = timers[c].ponger.due - 1
          BY <1>a, <1>b, <2>2, <4>1, TimerOff
        <4>3. timers'[c].ponger # Off
          BY <1>a, <1>c, <4>1, <4>2
        <4> QED  BY <1>a, <1>c, <3>2, <4>1, <4>2, <4>3
      <3> QED  BY <3>1, <3>2
    <2>4. /\ server'[c].accepted = server[c].accepted
          /\ server[c].beat = Off => server'[c].beat = Off
          /\ ~server[c].accepted /\ socket[c] = "open" => server[c].beat = Off /\ down'[c] = down[c]
          /\ server[c].beat.ttl = Interval(c) /\ server[c].beat.due <= Interval(c) /\ Interval(c) > 0 =>
             server'[c].beat.ttl = Interval(c) /\ server'[c].beat.due <= Interval(c)
      <3>1. CASE Beats(c)
        <4>1. server'[c].accepted = server[c].accepted /\ server'[c].beat = Minus(server[c].beat)
          BY <2>1, <3>1, <1>b DEF Sessions
        <4>2. server[c].beat # Off
          BY <3>1 DEF Beats
        <4>3. ~server[c].accepted => socket[c] # "open"
          BY <4>2 DEF Beating
        <4>4. server[c].beat.ttl = Interval(c) /\ server[c].beat.due <= Interval(c) /\ Interval(c) > 0 =>
              server'[c].beat.ttl = Interval(c) /\ server'[c].beat.due <= Interval(c)
          BY <1>a, <1>b, <4>1, TimerOff
        <4> QED  BY <4>1, <4>2, <4>3, <4>4
      <3>2. CASE ~Beats(c)
        BY <2>1, <3>2 DEF Beating
      <3> QED  BY <3>1, <3>2
    <2>5. ~Beats(c) \/ socket[c] = "open"
      BY DEF Beats
    <2>6. timers[c].ponger # Off => socket[c] \in {"open", "closing"}
      BY DEF Hooked, NoTimers
    <2>7. socket'[c] \in {"none", "connecting"} => silent'[c] = 0 /\ server'[c] = NewSession /\ down'[c] = <<>>
      BY <2>1, <2>5, <2>6 DEF Beating
    <2>8. socket[c] = "open" =>
            /\ timers'[c].ponger = Off => silent'[c] = 0
            /\ timers'[c].ponger # Off => server'[c].accepted
            /\ server'[c].accepted /\ Agreed(c) =>
                  server'[c].beat.ttl = Interval(c) /\ server'[c].beat.due <= Interval(c)
            /\ ~(server'[c].accepted /\ Agreed(c)) => server'[c].beat = Off
            /\ ~server'[c].accepted =>
                  \A i \in DOMAIN down'[c]: down'[c][i].age = 0 /\ down'[c][i].command # "CONNECTED"
      <3> HAVE socket[c] = "open"
      <3>1. /\ timers[c].ponger = Off => silent[c] = 0
            /\ timers[c].ponger # Off => server[c].accepted
            /\ server[c].accepted /\ Agreed(c) =>
                  server[c].beat.ttl = Interval(c) /\ server[c].beat.due <= Interval(c)
            /\ ~(server[c].accepted /\ Agreed(c)) => server[c].beat = Off
            /\ ~server[c].accepted =>
                  \A i \in DOMAIN down[c]: down[c][i].age = 0 /\ down[c][i].command # "CONNECTED"
        BY DEF Beating
      <3>2. /\ timers'[c].ponger = Off => silent'[c] = 0
            /\ timers'[c].ponger # Off => server'[c].accepted
        BY <2>1, <2>3, <2>4, <3>1
      <3>3. /\ server'[c].accepted /\ Agreed(c) =>
                  server'[c].beat.ttl = Interval(c) /\ server'[c].beat.due <= Interval(c)
            /\ ~(server'[c].accepted /\ Agreed(c)) => server'[c].beat = Off
        BY <1>a, <2>4, <3>1
      <3>4. ~server'[c].accepted =>
                  \A i \in DOMAIN down'[c]: down'[c][i].age = 0 /\ down'[c][i].command # "CONNECTED"
        BY <2>4, <3>1
      <3> QED  BY <3>2, <3>3, <3>4
    <2>9. timers'[c].ponger # Off =>
            Agreed(c) /\ timers'[c].ponger.ttl = Interval(c) /\ timers'[c].ponger.due <= Interval(c)
      BY <2>3 DEF Beating
    <2> QED  BY <1>a, <2>1, <2>7, <2>8, <2>9 DEF Beating
  <1>5. ASSUME NEW d \in Clients,
               \/ SocketOpens(d) \/ SocketEnds(d) \/ SocketClosed(d)
               \/ ReceivePong(d) \/ ReceiveConnected(d) \/ ReceiveMessage(d) \/ Ping(d) \/ Pong(d)
               \/ ServerAccepts(d) \/ ServerSends(d) \/ ServerBeats(d) \/ ServerDies(d)
        PROVE  Beating(c)'
    <2>1. CASE c # d
      BY <1>5, <2>1, OtherConnection, BeatingSame
    <2> SUFFICES ASSUME c = d PROVE Beating(c)'
      BY <2>1
    <2>2. CASE SocketOpens(c)
      <3>1. /\ socket[c] = "connecting" /\ socket'[c] = "open"
            /\ UNCHANGED <<timers, silent, down, server>>
        BY <2>2 DEF SocketOpens, Typed
      <3>2. timers[c] = NoTimers
        BY <3>1 DEF Hooked
      <3> QED  BY <1>a, <3>1, <3>2 DEF Beating, NoTimers, NewSession
    <2>3. CASE SocketEnds(c)
      BY <1>a, <2>3 DEF SocketEnds, Typed, Beating
    <2>4. CASE SocketClosed(c)
      BY <1>a, <2>4 DEF SocketClosed, CleanUp, Stopped, Typed, Beating
    <2>5. CASE ReceivePong(c) \/ ReceiveMessage(c)
      <3>1. Taken(c) /\ UNCHANGED timers
        BY <2>5, TakenStep DEF ReceivePong, ReceiveMessage
      <3>2. ~server[c].accepted =>
              \A i \in DOMAIN down'[c]: down'[c][i].age = 0 /\ down'[c][i].command # "CONNECTED"
        BY <3>1 DEF Taken, Beating
      <3>3. socket[c] = "open" /\ socket'[c] = "open" /\ silent'[c] = 0 /\ server'[c] = server[c]
        BY <3>1 DEF Taken
      <3> QED  BY <1>a, <3>1, <3>2, <3>3 DEF Beating
    <2>6. CASE ReceiveConnected(c)
      <3>1. Taken(c) /\ down[c][1].command = "CONNECTED"
        BY <2>6, TakenStep DEF ReceiveConnected
      <3>2. server[c].accepted
        BY <3>1 DEF Taken, Beating
      <3>3. timers'[c].ponger = IF Agreed(c) THEN Every(Interval(c)) ELSE timers[c].ponger
        BY <2>6 DEF ReceiveConnected, SetupHeartbeat, Typed, Agreed, Interval
      <3>4. timers'[c].ponger # Off =>
              /\ Agreed(c) /\ timers'[c].ponger.ttl = Interval(c) /\ timers'[c].ponger.due <= Interval(c)
        BY <1>a, <1>c, <3>3 DEF Beating
      <3>5. /\ socket'[c] = "open" /\ silent'[c] = 0 /\ server'[c] = server[c] /\ socket[c] = "open"
        BY <3>1 DEF Taken
      <3> QED  BY <1>a, <3>2, <3>4, <3>5 DEF Beating
    <2>7. CASE Ping(c) \/ Pong(c)
      <3>1. /\ timers'[c].ponger.ttl = timers[c].ponger.ttl
            /\ timers'[c].ponger.due \in {timers[c].ponger.due, timers[c].ponger.ttl}
            /\ timers'[c].ponger = timers[c].ponger \/ (timers[c].ponger.ttl > 0 /\ timers'[c].ponger.ttl > 0)
        <4>1. CASE Ping(c)
          BY <2>7, <4>1, <1>b DEF Ping, Again, Typed, Intervals
        <4>2. CASE Pong(c)
          <5>1. timers'[c].ponger = [timers[c].ponger EXCEPT !.due = timers[c].ponger.ttl]
            BY <4>2, <1>b DEF Pong, Again, Typed, Intervals
          <5>2. timers[c].ponger.ttl > 0
            BY <4>2 DEF Pong, Due
          <5> QED  BY <1>b, <5>1, <5>2 DEF Timer
        <4> QED  BY <2>7, <4>1, <4>2
      <3>2. timers'[c].ponger # Off <=> timers[c].ponger # Off
        BY <1>c, <3>1
      <3>3. /\ UNCHANGED <<silent, down, server>>
            /\ socket'[c] = socket[c] \/ (socket[c] = "open" /\ socket'[c] = "closing")
        BY <2>7 DEF Ping, Pong, Typed
      <3>4. timers'[c].ponger # Off =>
              /\ Agreed(c) /\ timers'[c].ponger.ttl = Interval(c) /\ timers'[c].ponger.due <= Interval(c)
        BY <1>a, <1>c, <3>1, <3>2 DEF Beating
      <3> QED  BY <1>a, <3>2, <3>3, <3>4 DEF Beating
    <2>8. CASE ServerAccepts(c)
      <3>1. More(c, {[command |-> "CONNECTED", age |-> 0]})
        BY <2>8, ReachStep DEF ServerAccepts
      <3>2. /\ server'[c].accepted
            /\ server'[c].beat = IF Agreed(c) THEN Every(Interval(c)) ELSE Off
        BY <2>8, <1>b DEF ServerAccepts, Typed, Sessions, Agreed, Interval
      <3>3. timers[c].ponger = Off
        BY <2>8 DEF ServerAccepts, Beating
      <3>4. UNCHANGED <<socket, silent, timers>> /\ socket[c] = "open"
        BY <2>8 DEF ServerAccepts, client
      <3>5. silent[c] = 0
        BY <3>3, <3>4 DEF Beating
      <3>6. /\ Agreed(c) => server'[c].beat.ttl = Interval(c) /\ server'[c].beat.due <= Interval(c)
            /\ ~Agreed(c) => server'[c].beat = Off
        BY <1>a, <3>2
      <3> QED  BY <1>a, <3>2, <3>3, <3>4, <3>5, <3>6 DEF Beating
    <2>9. CASE ServerSends(c)
      <3>1. /\ More(c, Broadcast(c))
            /\ \A f \in Broadcast(c): f.command = "MESSAGE" /\ f.age = 0 /\ f.message = server[c].sent + 1
        BY <2>9, SendsStep
      <3>2. server'[c].accepted = server[c].accepted /\ server'[c].beat = server[c].beat
        BY <2>9, <1>b DEF ServerSends, Typed, Sessions
      <3> QED  BY <1>a, <3>1, <3>2 DEF More, Beating
    <2>10. CASE ServerBeats(c)
      <3>1. More(c, {[command |-> "PONG", age |-> 0]})
        BY <2>10, ReachStep DEF ServerBeats, Beats
      <3>2. /\ server'[c].accepted = server[c].accepted /\ server'[c].beat.ttl = server[c].beat.ttl
            /\ server'[c].beat.due = server[c].beat.ttl /\ server[c].beat # Off
        BY <2>10, <1>b DEF ServerBeats, Beats, Typed, Sessions, Timer
      <3>3. server[c].accepted /\ Agreed(c)
        BY <2>10, <3>2 DEF Beating, ServerBeats, Beats
      <3>4. UNCHANGED <<socket, silent, timers>> /\ socket[c] = "open"
        BY <2>10 DEF ServerBeats, Beats, client
      <3>5. server[c].beat.ttl = Interval(c)
        BY <3>3, <3>4 DEF Beating
      <3>6. server'[c].beat.ttl = Interval(c) /\ server'[c].beat.due <= Interval(c) /\ server'[c].accepted
        BY <1>a, <3>2, <3>3, <3>5
      <3> QED  BY <1>a, <3>3, <3>4, <3>6 DEF Beating
    <2>11. CASE ServerDies(c)
      <3>1. server'[c].accepted = server[c].accepted /\ server'[c].beat = server[c].beat /\ down'[c] = <<>>
        BY <2>11, <1>b DEF ServerDies, Typed, Sessions
      <3>2. UNCHANGED <<socket, timers, silent>> /\ socket[c] = "open"
        BY <2>11 DEF ServerDies, Beats, client
      <3> QED  BY <1>a, <3>1, <3>2 DEF Beating
    <2> QED  BY <1>5, <2>2, <2>3, <2>4, <2>5, <2>6, <2>7, <2>8, <2>9, <2>10, <2>11
  <1> QED  BY <1>1, <1>2, <1>3, <1>4, <1>5 DEF Next

-----------------------------------------------------------------------------
(* Silence. *)

LEMMA ArrivalFields ==
  ASSUME NEW f \in Arrival
  PROVE  f.age \in Nat /\ f.age <= MaxDelay
  BY Constants DEF Arrival

LEMMA InTimeSame ==
  ASSUME NEW c \in Clients, InTime(c), UNCHANGED Connection(c)
  PROVE  InTime(c)'
  BY DEF Connection, InTime, Interval, Beats

LEMMA InTimeStep ==
  ASSUME Typed, Next, offer \in [Clients -> Nat \X Nat], UNCHANGED offer,
         NEW c \in Clients, Numbered(c), Hooked(c), Beating(c), InTime(c), Beating(c)', Typed'
  PROVE  InTime(c)'
  <1> DEFINE Ordered == \A i, j \in DOMAIN down[c]: i <= j => down[c][j].age <= down[c][i].age
             Heard == Beats(c) => /\ down[c] = <<>> => silent[c] <= Interval(c) - server[c].beat.due
                                  /\ down[c] # <<>> => silent[c] <= Head(down[c]).age + Interval(c)
             Patient == socket[c] = "open" /\ timers[c].ponger # Off =>
                            silent[c] + timers[c].ponger.due <= 3 * Interval(c)
             I == Interval(c)
  <1>a. I' = I /\ I \in Nat
    BY IntervalFixed
  <1>b. /\ timers[c].ponger.ttl \in Nat /\ timers[c].ponger.due \in Nat /\ silent[c] \in Nat
        /\ server[c].beat.ttl \in Nat /\ server[c].beat.due \in Nat /\ Off.ttl = 0 /\ timers[c] \in Intervals
        /\ timers[c].pinger \in Timer /\ timers[c].ponger \in Timer /\ server[c].beat \in Timer /\ server[c] \in Sessions
    BY IntervalFields, SessionFields DEF Typed, Timer, Off
  <1>c. /\ down[c] \in Seq(Arrival) /\ DOMAIN down[c] = 1..Len(down[c]) /\ Len(down[c]) \in Nat
        /\ \A i \in DOMAIN down[c]: down[c][i].age \in Nat
    BY ArrivalFields, ElementOfSeq, LenProperties DEF Typed
  <1>d. Ordered /\ Heard /\ Patient
    BY DEF InTime
  <1>e. Beats(c) => server[c].beat.due <= I /\ server[c].accepted /\ socket[c] = "open"
    BY DEF Beats, Beating
  <1>f. SUFFICES Ordered' /\ Heard' /\ Patient'
    BY DEF InTime
  <1>1. CASE ClickConnect
    <2>1. /\ UNCHANGED <<timers, silent, down, server>>
          /\ socket'[c] = socket[c] \/ socket'[c] # "open"
      BY <1>1 DEF ClickConnect, Typed
    <2> QED  BY <1>a, <1>d, <2>1 DEF Beats
  <1>2. CASE ClickDisconnect
    <2>1. CASE stompClient = c
      <3>1. UNCHANGED <<silent, down, server>> /\ socket'[c] # "open"
        BY <1>2, <2>1 DEF ClickDisconnect, Throws, Typed, States
      <3> QED  BY <1>a, <1>d, <3>1 DEF Beats
    <2>2. CASE stompClient # c
      <3>1. UNCHANGED Connection(c)
        BY <1>2, <2>2 DEF ClickDisconnect, CleanUp, Stopped, Typed, Connection
      <3> QED  BY <3>1, InTimeSame DEF InTime
    <2> QED  BY <2>1, <2>2
  <1>3. CASE ClickSend \/ ClickConfirm
    <2>1. UNCHANGED Connection(c)
      BY <1>3 DEF ClickSend, ClickConfirm, Send, Connection
    <2> QED  BY <2>1, InTimeSame DEF InTime
  <1>4. CASE Tick
    <2>1. /\ UNCHANGED socket
          /\ timers'[c] = [pinger |-> Minus(timers[c].pinger), ponger |-> Minus(timers[c].ponger)]
          /\ silent'[c] = silent[c] \/ (silent'[c] = silent[c] + 1 /\ timers[c].ponger # Off)
          /\ Beats(c) => server'[c] = [server[c] EXCEPT !.beat = Minus(@)]
          /\ Beats(c) => server[c].beat.due > 0
          /\ Beats(c) => down'[c] = [i \in DOMAIN down[c] |-> [down[c][i] EXCEPT !.age = @ + 1]]
          /\ ~Beats(c) => server'[c] = server[c] /\ down'[c] = down[c]
          /\ timers[c].ponger.ttl > 0 => timers[c].ponger.due # 0
      BY <1>4 DEF Tick, Due
    <2>2. Patient'
      <3> SUFFICES ASSUME socket'[c] = "open", timers'[c].ponger # Off
                   PROVE  silent'[c] + timers'[c].ponger.due <= 3 * I
        BY <1>a
      <3>1. timers'[c].ponger = Minus(timers[c].ponger) /\ timers[c].ponger # Off
        BY <2>1, TimerOff, <1>b
      <3>2. timers[c].ponger.ttl > 0
        BY <1>b, <3>1, IntervalFixed DEF Beating
      <3>3. timers'[c].ponger.due = timers[c].ponger.due - 1
        BY <1>b, <3>1, <3>2, TimerOff
      <3>4. silent[c] + timers[c].ponger.due <= 3 * I
        BY <1>d, <2>1, <3>1
      <3>5. silent'[c] \in Nat /\ silent'[c] <= silent[c] + 1
        BY <1>b, <2>1
      <3> HIDE DEF I
      <3> QED  BY <1>a, <1>b, <3>3, <3>4, <3>5
    <2>3. CASE Beats(c)
      <3>1. /\ DOMAIN down'[c] = DOMAIN down[c]
            /\ \A i \in DOMAIN down[c]: down'[c][i] = [down[c][i] EXCEPT !.age = @ + 1]
        BY <2>1, <2>3
      <3>2. \A i \in DOMAIN down[c]: down'[c][i].age = down[c][i].age + 1
        <4>1. \A i \in DOMAIN down[c]: down[c][i] \in Arrival
          BY <1>c, ElementOfSeq
        <4> QED  BY <3>1, <4>1 DEF Arrival
      <3>3. Ordered'
        BY <1>c, <1>d, <3>1, <3>2
      <3>4. server'[c].beat.due = server[c].beat.due - 1
        <4>1. server[c].beat.ttl > 0
          BY <2>3, <1>b, <1>e, IntervalFixed DEF Beats, Beating
        <4>2. server'[c].beat = Minus(server[c].beat)
          BY <2>1, <2>3, <1>b DEF Sessions
        <4> QED  BY <1>b, <4>1, <4>2, TimerOff
      <3>5. /\ down'[c] = <<>> <=> down[c] = <<>>
            /\ down[c] # <<>> => Head(down'[c]) = down'[c][1] /\ 1 \in DOMAIN down[c] /\ Head(down[c]) = down[c][1]
        <4>1. down'[c] \in Seq(Arrival) /\ down[c] \in Seq(Arrival)
          BY DEF Typed
        <4> QED  BY <1>c, <3>1, <4>1
      <3>6. Heard'
        <4>1. silent'[c] \in Nat /\ silent'[c] <= silent[c] + 1
          BY <1>b, <2>1
        <4>2. CASE down[c] = <<>>
          <5>1. silent[c] <= I - server[c].beat.due
            BY <1>d, <2>3, <4>2
          <5>2. silent'[c] <= I - server'[c].beat.due
            BY <1>a, <1>b, <3>4, <4>1, <5>1
          <5> QED  BY <1>a, <3>5, <4>2, <5>2
        <4>3. CASE down[c] # <<>>
          <5>1. silent[c] <= Head(down[c]).age + I /\ Head(down[c]).age \in Nat
            BY <1>c, <1>d, <2>3, <3>5, <4>3
          <5>2. Head(down'[c]).age = Head(down[c]).age + 1
            BY <3>2, <3>5, <4>3
          <5>3. silent'[c] <= Head(down'[c]).age + I
            BY <1>a, <1>b, <4>1, <5>1, <5>2
          <5> QED  BY <1>a, <3>5, <4>3, <5>3
        <4> QED  BY <4>2, <4>3
      <3> QED  BY <1>a, <2>2, <3>3, <3>6
    <2>4. CASE ~Beats(c)
      <3>1. ~Beats(c)'
        BY <2>1, <2>4 DEF Beats
      <3> QED  BY <1>d, <2>1, <2>2, <2>4, <3>1
    <2> QED  BY <2>3, <2>4
  <1>5. ASSUME NEW d \in Clients,
               \/ SocketOpens(d) \/ SocketEnds(d) \/ SocketClosed(d)
               \/ ReceivePong(d) \/ ReceiveConnected(d) \/ ReceiveMessage(d) \/ Ping(d) \/ Pong(d)
               \/ ServerAccepts(d) \/ ServerSends(d) \/ ServerBeats(d) \/ ServerDies(d)
        PROVE  Ordered' /\ Heard' /\ Patient'
    <2>1. CASE c # d
      BY <1>5, <2>1, OtherConnection, InTimeSame DEF InTime
    <2> SUFFICES ASSUME c = d PROVE Ordered' /\ Heard' /\ Patient'
      BY <2>1
    <2>2. CASE SocketOpens(c)
      <3>1. socket[c] = "connecting" /\ UNCHANGED <<timers, silent, down, server>>
        BY <2>2 DEF SocketOpens
      <3>2. timers[c].ponger = Off
        BY <3>1 DEF Hooked, NoTimers
      <3>3. server[c].beat = Off
        BY <3>1 DEF Beating, NewSession
      <3> QED  BY <1>a, <1>d, <3>1, <3>2, <3>3 DEF Beats
    <2>3. CASE SocketEnds(c)
      <3>1. UNCHANGED <<timers, silent, down, server>> /\ socket'[c] = "closing"
        BY <2>3 DEF SocketEnds, Typed
      <3> QED  BY <1>a, <1>d, <3>1 DEF Beats
    <2>4. CASE SocketClosed(c)
      <3>1. down'[c] = <<>> /\ socket'[c] = "closed"
        BY <2>4 DEF SocketClosed, Typed
      <3> QED  BY <3>1 DEF Beats
    <2>5. CASE ReceivePong(c) \/ ReceiveConnected(c) \/ ReceiveMessage(c)
      <3>1. Taken(c)
        BY <2>5, TakenStep DEF ReceivePong, ReceiveConnected, ReceiveMessage
      <3>2. Ordered'
        <4> SUFFICES ASSUME NEW i \in DOMAIN down'[c], NEW j \in DOMAIN down'[c], i <= j
                     PROVE  down'[c][j].age <= down'[c][i].age
          OBVIOUS
        <4>1. /\ i + 1 \in DOMAIN down[c] /\ j + 1 \in DOMAIN down[c]
              /\ down'[c][i] = down[c][i + 1] /\ down'[c][j] = down[c][j + 1]
          BY <3>1 DEF Taken
        <4>2. i \in Int /\ j \in Int
          BY <3>1 DEF Taken
        <4>3. i + 1 <= j + 1
          BY <4>2
        <4> QED  BY <1>d, <4>1, <4>3
      <3>3. Heard'
        <4>1. silent'[c] = 0 /\ server'[c] = server[c] /\ Beats(c)' = Beats(c)
          BY <3>1 DEF Taken, Beats
        <4>2. down'[c] # <<>> => Head(down'[c]).age \in Nat
          BY <1>c, <3>1 DEF Taken
        <4> QED  BY <1>a, <1>b, <1>e, <4>1, <4>2
      <3>4. Patient'
        <4>1. timers'[c].ponger # Off => timers'[c].ponger.due <= I
          BY <1>a DEF Beating
        <4>2. timers'[c].ponger.due \in Nat
          BY IntervalFields DEF Typed, Timer
        <4> QED  BY <1>a, <3>1, <4>1, <4>2 DEF Taken
      <3> QED  BY <3>2, <3>3, <3>4
    <2>6. CASE Ping(c)
      <3>1. timers'[c].ponger = timers[c].ponger /\ UNCHANGED <<socket, silent, down, server>>
        BY <2>6, <1>b DEF Ping, Again, Typed, Intervals
      <3> QED  BY <1>a, <1>d, <3>1 DEF Beats
    <2>7. CASE Pong(c)
      <3>1. /\ timers'[c].ponger.due = timers[c].ponger.ttl /\ UNCHANGED <<silent, down, server>>
            /\ socket'[c] = IF TooSilent(c) /\ socket[c] = "open" THEN "closing" ELSE socket[c]
            /\ timers[c].ponger.ttl > 0
        BY <2>7, <1>b DEF Pong, Due, Again, Typed, Intervals, Timer
      <3>2. timers[c].ponger # Off => timers[c].ponger.ttl = I
        BY DEF Beating
      <3>3. timers[c].ponger # Off
        BY <1>b, <3>1
      <3>4. Patient'
        BY <1>a, <1>b, <3>1, <3>2, <3>3 DEF TooSilent
      <3> QED  BY <1>a, <1>d, <3>1, <3>4 DEF Beats
    <2>8. ASSUME NEW S, More(c, S), \A f \in S: f.age = 0 PROVE Ordered' /\ Patient'
      <3>1. Patient'
        BY <1>a, <1>d, <2>8 DEF More
      <3>2. SUFFICES ASSUME NEW i \in DOMAIN down'[c], NEW j \in DOMAIN down'[c], i <= j
                     PROVE  down'[c][j].age <= down'[c][i].age
        BY <3>1
      <3>3. down'[c][i].age \in Nat
        BY <1>c, <2>8 DEF More
      <3>4. CASE j \in DOMAIN down[c]
        <4>1. i \in DOMAIN down[c]
          <5>1. DOMAIN down'[c] = 1..Len(down'[c]) /\ Len(down'[c]) \in Nat
            BY <2>8 DEF More
          <5>2. i \in Int /\ i >= 1 /\ j \in 1..Len(down[c])
            BY <1>c, <3>4, <5>1
          <5> QED  BY <1>c, <3>2, <5>2
        <4>2. down'[c][i] = down[c][i] /\ down'[c][j] = down[c][j]
          BY <2>8, <3>4, <4>1 DEF More
        <4>3. down[c][j].age <= down[c][i].age
          BY <1>d, <3>2, <3>4, <4>1
        <4> QED  BY <4>2, <4>3
      <3>5. CASE j \notin DOMAIN down[c]
        <4>1. down'[c][j].age = 0
          BY <2>8, <3>5 DEF More
        <4> QED  BY <3>3, <4>1
      <3> QED  BY <3>4, <3>5
    <2>9. ASSUME NEW S, More(c, S), \A f \in S: f.age = 0, silent[c] <= I,
                 down[c] # <<>> => silent[c] <= Head(down[c]).age + I
          PROVE  down'[c] # <<>> => silent'[c] <= Head(down'[c]).age + I
      <3>1. CASE down[c] # <<>>
        BY <2>9, <3>1 DEF More
      <3>2. CASE down[c] = <<>>
        <4>1. down'[c] # <<>> => Head(down'[c]) = down'[c][1] /\ 1 \in DOMAIN down'[c]
          BY <2>9 DEF More, Typed
        <4>2. down'[c] # <<>> => down'[c][1] \in S
          BY <2>9, <3>2, <4>1 DEF More
        <4> QED  BY <1>a, <1>b, <2>9, <4>1, <4>2 DEF More
      <3> QED  BY <3>1, <3>2
    <2>10. CASE ServerAccepts(c)
      <3> DEFINE S == {[command |-> "CONNECTED", age |-> 0]}
      <3>1. More(c, S) /\ Len(down'[c]) = Len(down[c]) + 1
        BY <2>10, ReachStep DEF ServerAccepts
      <3>2. silent[c] = 0
        BY <2>10 DEF ServerAccepts, Beating
      <3>3. down'[c] # <<>>
        BY <1>c, <3>1
      <3>4. down[c] # <<>> => Head(down[c]).age \in Nat
        BY <1>c
      <3> HIDE DEF S
      <3>5. \A f \in S: f.age = 0
        BY DEF S
      <3>6. silent'[c] <= Head(down'[c]).age + I
        BY <1>a, <2>9, <3>1, <3>2, <3>3, <3>4, <3>5
      <3> QED  BY <1>a, <2>8, <3>1, <3>3, <3>5, <3>6
    <2>11. CASE ServerSends(c)
      <3> DEFINE S == Broadcast(c)
      <3>1. More(c, S) /\ \A f \in S: f.age = 0
        BY <2>11, SendsStep
      <3> HIDE DEF S
      <3>2. Beats(c)' = Beats(c) /\ server'[c].beat = server[c].beat
        BY <2>11, <1>b DEF ServerSends, Beats, Typed, Sessions, client
      <3>3. ASSUME Beats(c) PROVE /\ down'[c] = <<>> => silent'[c] <= I - server'[c].beat.due
                                  /\ down'[c] # <<>> => silent'[c] <= Head(down'[c]).age + I
        <4>1. CASE down[c] = <<>>
          <5>1. silent[c] <= I - server[c].beat.due
            BY <1>d, <3>3, <4>1
          <5>2. silent[c] <= I
            BY <1>a, <1>b, <5>1
          <5> QED  BY <2>9, <3>1, <3>2, <4>1, <5>1, <5>2 DEF More
        <4>2. CASE down[c] # <<>>
          <5>1. down'[c] # <<>>
            BY <1>c, <3>1, <4>2 DEF More
          <5> QED  BY <1>d, <3>1, <3>3, <4>2, <5>1 DEF More
        <4> QED  BY <4>1, <4>2
      <3> QED  BY <1>a, <2>8, <3>1, <3>2, <3>3
    <2>12. CASE ServerBeats(c)
      <3> DEFINE S == {[command |-> "PONG", age |-> 0]}
      <3>1. More(c, S) /\ Len(down'[c]) = Len(down[c]) + 1
        BY <2>12, ReachStep DEF ServerBeats, Beats
      <3>2. down'[c] # <<>> /\ Beats(c) /\ server[c].beat.due = 0
        BY <1>c, <2>12, <3>1 DEF ServerBeats
      <3> HIDE DEF S
      <3>3. \A f \in S: f.age = 0
        BY DEF S
      <3>4. silent'[c] <= Head(down'[c]).age + I
        <4>1. CASE down[c] = <<>>
          <5>1. silent[c] <= I
            BY <1>a, <1>b, <1>d, <3>2, <4>1
          <5> QED  BY <2>9, <3>1, <3>2, <3>3, <4>1, <5>1
        <4>2. CASE down[c] # <<>>
          BY <1>d, <3>1, <3>2, <4>2 DEF More
        <4> QED  BY <4>1, <4>2
      <3> QED  BY <1>a, <2>8, <3>1, <3>2, <3>3, <3>4
    <2>13. CASE ServerDies(c)
      <3>1. down'[c] = <<>> /\ ~server'[c].alive /\ UNCHANGED <<socket, timers, silent>>
        BY <2>13, <1>b DEF ServerDies, Typed, Sessions, client
      <3> QED  BY <1>a, <1>d, <3>1 DEF Beats
    <2> QED  BY <1>5, <2>2, <2>3, <2>4, <2>5, <2>6, <2>7, <2>10, <2>11, <2>12, <2>13
  <1> QED  BY <1>1, <1>2, <1>3, <1>4, <1>5 DEF Next

-----------------------------------------------------------------------------
(* The page. *)

\* Without overlapping attempts, the client that is open or connecting is the
\* page's, and nobody is connected once the button is enabled again.
LEMMA FollowedStep ==
  ASSUME Typed, Next, Typed', ~overlapped', NEW c \in Clients,
         \A d \in Clients: Followed(d) /\ Beating(d) /\ Numbered(d)
  PROVE  Followed(c)'
  <1>a. /\ server[c] \in Sessions /\ server[c].accepted \in BOOLEAN /\ Followed(c)
        /\ down[c] \in Seq(Arrival) /\ DOMAIN down[c] = 1..Len(down[c]) /\ Len(down[c]) \in Nat
        /\ stompClient \in {0} \cup Clients
    <2>1. server[c] \in Sessions /\ down[c] \in Seq(Arrival) /\ stompClient \in {0} \cup Clients
      BY DEF Typed
    <2>2. server[c].accepted \in BOOLEAN
      BY <2>1, SessionFields
    <2> QED  BY <2>1, <2>2, LenProperties
  <1>1. CASE ClickConnect
    <2>1. \A d \in Clients: ~connected[d] /\ socket[d] \notin {"connecting", "open"}
      <3>1. \A d \in Clients: ~connected[d]
        BY <1>1 DEF ClickConnect, Followed
      <3>2. \A d \in Clients: ~Pending(d)
        BY <1>1 DEF ClickConnect
      <3> QED  BY <3>1, <3>2 DEF Pending
    <2>2. PICK d \in Clients : /\ socket[d] = "none" /\ stompClient' = d
                               /\ socket' = [socket EXCEPT ![d] = "connecting"]
                               /\ UNCHANGED <<connected, subscriptions, counter, down, server>>
      BY <1>1 DEF ClickConnect
    <2>3. socket'[c] = IF c = d THEN "connecting" ELSE socket[c]
      BY <2>2 DEF Typed
    <2> QED  BY <1>a, <2>1, <2>2, <2>3 DEF Followed
  <1>2. CASE ClickDisconnect
    <2>1. connected'[c] = IF c = stompClient THEN FALSE ELSE connected[c]
      BY <1>2 DEF ClickDisconnect, CleanUp, Typed
    <2>2. ~connected'[c]
      BY <1>a, <2>1 DEF Followed, Typed
    <2>3. socket'[c] = IF c = stompClient /\ socket[c] = "open" THEN "closing" ELSE socket[c]
      BY <1>2 DEF ClickDisconnect, Typed
    <2>4. UNCHANGED <<stompClient, subscriptions, counter, down, server>>
      BY <1>2 DEF ClickDisconnect
    <2> QED  BY <1>a, <2>2, <2>3, <2>4 DEF Followed
  <1>3. CASE ClickSend \/ ClickConfirm
    BY <1>3, <1>a DEF ClickSend, ClickConfirm, Send, page, Followed
  <1>4. CASE Tick
    <2>1. UNCHANGED <<stompClient, uiConnected, socket, connected, subscriptions, counter>>
      BY <1>4 DEF Tick, page
    <2>2. server'[c].accepted = server[c].accepted
      BY <1>4, <1>a DEF Tick, Sessions
    <2>3. DOMAIN down'[c] = DOMAIN down[c] /\ \A i \in DOMAIN down[c]: down'[c][i].command = down[c][i].command
      <3>1. CASE Beats(c)
        <4>1. down'[c] = [i \in DOMAIN down[c] |-> [down[c][i] EXCEPT !.age = @ + 1]]
          BY <1>4, <3>1 DEF Tick
        <4>2. \A i \in DOMAIN down[c]: down[c][i] \in Arrival
          BY <1>a, ElementOfSeq
        <4> QED  BY <4>1, <4>2 DEF Arrival
      <3>2. CASE ~Beats(c)
        BY <1>4, <3>2 DEF Tick
      <3> QED  BY <3>1, <3>2
    <2> QED  BY <1>a, <2>1, <2>2, <2>3 DEF Followed
  <1>5. ASSUME NEW d \in Clients, SocketOpens(d) PROVE Followed(c)'
    <2>1. /\ UNCHANGED <<stompClient, uiConnected, connected, subscriptions, counter, down, server>>
          /\ socket'[c] = socket[c] \/ (socket[c] = "connecting" /\ socket'[c] = "open")
      BY <1>5 DEF SocketOpens, page, Typed
    <2> QED  BY <1>a, <2>1 DEF Followed
  <1>6. ASSUME NEW d \in Clients, SocketEnds(d) PROVE Followed(c)'
    <2>1. /\ UNCHANGED <<stompClient, uiConnected, connected, subscriptions, counter, down, server>>
          /\ socket'[c] = socket[c] \/ socket'[c] = "closing"
      BY <1>6 DEF SocketEnds, page, Typed
    <2> QED  BY <1>a, <2>1 DEF Followed
  <1>7. ASSUME NEW d \in Clients, SocketClosed(d) PROVE Followed(c)'
    <2>1. /\ UNCHANGED <<stompClient, uiConnected, subscriptions, counter>>
          /\ socket'[c] = IF c = d THEN "closed" ELSE socket[c]
          /\ connected'[c] => connected[c]
          /\ down'[c] = IF c = d THEN <<>> ELSE down[c]
          /\ c # d => server'[c] = server[c]
      BY <1>7 DEF SocketClosed, CleanUp, page, Typed
    <2> QED  BY <1>a, <2>1 DEF Followed
  <1>8. ASSUME NEW d \in Clients, ReceivePong(d) \/ ReceiveMessage(d) PROVE Followed(c)'
    <2>1. UNCHANGED <<stompClient, uiConnected, connected, subscriptions, counter, socket, server>>
      BY <1>8 DEF ReceivePong, ReceiveMessage, Arrives
    <2>2. CASE c = d
      <3>1. Taken(c)
        BY <1>8, <2>2, TakenStep DEF ReceivePong, ReceiveMessage
      <3>2. \A i \in DOMAIN down'[c]: i \in Int /\ i + 1 \in DOMAIN down[c] /\ down'[c][i] = down[c][i + 1]
        BY <3>1 DEF Taken
      <3>3. ASSUME NEW i \in DOMAIN down'[c], down'[c][i].command = "CONNECTED"
            PROVE  /\ subscriptions[c] = {} /\ counter[c] = 0
                   /\ \A j \in DOMAIN down'[c]: down'[c][j].command = "CONNECTED" => i = j
        <4>1. i + 1 \in DOMAIN down[c] /\ down[c][i + 1].command = "CONNECTED"
          BY <3>2, <3>3
        <4>2. \A j \in DOMAIN down'[c]: down'[c][j].command = "CONNECTED" => i + 1 = j + 1
          BY <1>a, <3>2, <4>1 DEF Followed
        <4>3. \A j \in DOMAIN down'[c]: down'[c][j].command = "CONNECTED" => i = j
          BY <3>2, <4>2
        <4> QED  BY <1>a, <4>1, <4>3 DEF Followed
      <3> QED  BY <1>a, <2>1, <3>3 DEF Followed
    <2>3. CASE c # d
      <3>1. down'[c] = down[c]
        BY <1>8, <2>3 DEF ReceivePong, ReceiveMessage, Arrives, Typed
      <3> QED  BY <1>a, <2>1, <3>1 DEF Followed
    <2> QED  BY <2>2, <2>3
  <1>9. ASSUME NEW d \in Clients, ReceiveConnected(d) PROVE Followed(c)'
    <2>1. /\ Taken(d) /\ down[d][1].command = "CONNECTED" /\ 1 \in DOMAIN down[d]
          /\ UNCHANGED <<stompClient, socket, server>> /\ uiConnected'
      <3>1. Taken(d) /\ down[d][1].command = "CONNECTED"
        BY <1>9, TakenStep DEF ReceiveConnected
      <3> QED  BY <1>9, <3>1 DEF ReceiveConnected, Arrives, Taken
    <2>2. d = stompClient /\ socket[d] = "open" /\ subscriptions[d] = {} /\ counter[d] = 0
      BY <2>1 DEF Followed, Taken
    <2>3. CASE c # d
      <3>1. down'[c] = down[c] /\ connected'[c] = connected[c]
        BY <1>9, <2>3 DEF ReceiveConnected, Arrives, Typed
      <3>2. subscriptions'[c] = subscriptions[c] /\ counter'[c] = counter[c]
        BY <1>9, <2>2, <2>3 DEF ReceiveConnected, SubscribeAll, Typed
      <3> QED  BY <1>a, <2>1, <3>1, <3>2 DEF Followed
    <2>4. CASE c = d
      <3>1. ~Throws(stompClient)
        BY <2>2 DEF Throws
      <3>2. subscriptions'[c] = {counter[c] + k - 1: k \in 1..2}
        BY <1>9, <2>2, <2>4, <3>1, Constants DEF ReceiveConnected, SubscribeAll, Typed
      <3>3. subscriptions'[c] = {0, 1}
        BY <2>2, <2>4, <3>2
      <3>4. server'[c].accepted
        BY <2>1, <2>2, <2>4 DEF Beating
      <3>5. \A i \in DOMAIN down'[c]: down'[c][i].command # "CONNECTED"
        <4> SUFFICES ASSUME NEW i \in DOMAIN down'[c], down'[c][i].command = "CONNECTED" PROVE FALSE
          OBVIOUS
        <4>1. i + 1 \in DOMAIN down[c] /\ down[c][i + 1].command = "CONNECTED" /\ i \in Nat /\ i # 0
          <5>1. /\ i + 1 \in DOMAIN down[c] /\ down'[c][i] = down[c][i + 1]
                /\ DOMAIN down'[c] = 1..Len(down'[c])
            BY <2>1, <2>4 DEF Taken
          <5> QED  BY <5>1
        <4>2. i + 1 = 1
          BY <1>a, <2>1, <2>4, <4>1 DEF Followed
        <4> QED  BY <4>1, <4>2
      <3> QED  BY <2>1, <2>2, <2>4, <3>3, <3>4, <3>5 DEF Followed
    <2> QED  BY <2>3, <2>4
  <1>10. ASSUME NEW d \in Clients, Ping(d) \/ Pong(d) PROVE Followed(c)'
    <2>1. /\ UNCHANGED <<stompClient, uiConnected, connected, subscriptions, counter, down, server>>
          /\ socket'[c] = socket[c] \/ socket'[c] = "closing"
      BY <1>10 DEF Ping, Pong, page, Typed
    <2> QED  BY <1>a, <2>1 DEF Followed
  <1>11. ASSUME NEW d \in Clients, ServerAccepts(d) \/ ServerSends(d) \/ ServerBeats(d) \/ ServerDies(d)
         PROVE  Followed(c)'
    <2>1. UNCHANGED <<stompClient, uiConnected, connected, subscriptions, counter, socket>>
      BY <1>11 DEF ServerAccepts, ServerSends, ServerBeats, ServerDies, page, client
    <2>2. CASE c # d
      <3>1. server'[c] = server[c]
        BY <1>11, <2>2, Zenon DEF ServerAccepts, ServerSends, ServerBeats, ServerDies, Typed
      <3>2. down'[c] = down[c]
        BY <1>11, <2>2 DEF ServerAccepts, ServerSends, ServerBeats, ServerDies, Reach, Typed
      <3> QED  BY <1>a, <2>1, <3>1, <3>2 DEF Followed
    <2>3. CASE c = d /\ ServerAccepts(d)
      <3> DEFINE S == {[command |-> "CONNECTED", age |-> 0]}
      <3>1. More(c, S) /\ Len(down'[c]) = Len(down[c]) + 1
        BY <2>3, ReachStep DEF ServerAccepts
      <3>2. \A i \in DOMAIN down'[c]: down'[c][i].command = "CONNECTED" => i = Len(down[c]) + 1
        <4>1. \A i \in DOMAIN down[c]: down[c][i].command # "CONNECTED"
          BY <2>3 DEF ServerAccepts, Beating
        <4> HIDE DEF S
        <4> QED  BY <1>a, <3>1, <4>1 DEF More
      <3>3. subscriptions[c] = {} /\ counter[c] = 0 /\ socket[c] = "open"
        BY <1>a, <2>3 DEF ServerAccepts, Followed
      <3> QED  BY <1>a, <2>1, <3>2, <3>3 DEF Followed
    <2>4. ASSUME NEW S, More(c, S), \A f \in S: f.command # "CONNECTED", server'[c].accepted = server[c].accepted
          PROVE  Followed(c)'
      <3>1. \A i \in DOMAIN down'[c]: down'[c][i].command = "CONNECTED" =>
                i \in DOMAIN down[c] /\ down[c][i].command = "CONNECTED"
        BY <2>4 DEF More
      <3> QED  BY <1>a, <2>1, <2>4, <3>1 DEF Followed
    <2>5. CASE c = d /\ ServerSends(d)
      <3>1. More(c, Broadcast(c)) /\ \A f \in Broadcast(c): f.command = "MESSAGE"
        BY <2>5, SendsStep
      <3>2. server'[c].accepted = server[c].accepted
        BY <1>a, <2>5 DEF ServerSends, Typed, Sessions
      <3> QED  BY <2>4, <3>1, <3>2
    <2>6. CASE c = d /\ ServerBeats(d)
      <3> DEFINE S == {[command |-> "PONG", age |-> 0]}
      <3>1. More(c, S)
        BY <2>6, ReachStep DEF ServerBeats, Beats
      <3>2. server'[c].accepted = server[c].accepted
        BY <1>a, <2>6 DEF ServerBeats, Typed, Sessions
      <3>3. \A f \in S: f.command # "CONNECTED"
        OBVIOUS
      <3> HIDE DEF S
      <3> QED  BY <2>4, <3>1, <3>2, <3>3
    <2>7. CASE c = d /\ ServerDies(d)
      <3>1. server'[c].accepted = server[c].accepted /\ down'[c] = <<>>
        BY <1>a, <2>7 DEF ServerDies, Typed, Sessions
      <3> QED  BY <1>a, <2>1, <3>1 DEF Followed
    <2> QED  BY <1>11, <2>2, <2>3, <2>5, <2>6, <2>7
  <1> QED  BY <1>1, <1>2, <1>3, <1>4, <1>5, <1>6, <1>7, <1>8, <1>9, <1>10, <1>11 DEF Next

\* A broadcast is one frame for a client with one subscription for it.
LEMMA OneBroadcast ==
  ASSUME Typed, NEW c \in Clients, Followed(c), Numbered(c), ServerSends(c)
  PROVE  /\ More(c, Broadcast(c)) /\ Len(down'[c]) = Len(down[c]) + 1
         /\ \A f \in Broadcast(c): f.command = "MESSAGE" /\ f.age = 0 /\ f.message = server[c].sent + 1
  <1> DEFINE T == {id \in Ids(c): id % Len(Destinations) = 1}
             f == [command |-> "MESSAGE", id |-> 1, age |-> 0, message |-> server[c].sent + 1]
  <1>1. T \subseteq {1} /\ T # {}
    <2>1. T \subseteq {0, 1}
      BY DEF Followed, Ids
    <2>2. 0 % 2 = 0
      OBVIOUS
    <2>3. 0 \notin T
      BY <2>2, Constants
    <2>4. T # {}
      BY DEF ServerSends
    <2> QED  BY <2>1, <2>3, <2>4
  <1>2. T = {1}
    BY <1>1
  <1>3. Broadcast(c) = {f}
    BY <1>2 DEF Broadcast
  <1>4. Len(SetToSeq(Broadcast(c))) = 1
    <2> HIDE DEF f
    <2>1. SetToSeq(Broadcast(c)) = <<f>>
      BY <1>3, SetToSeqOne
    <2> QED  BY <2>1, OneFrame
  <1> QED  BY <1>4, SendsStep

LEMMA ShownOnceStep ==
  ASSUME Typed, Next, Typed', ~overlapped', NEW c \in Clients,
         \A d \in Clients: Followed(d) /\ Beating(d) /\ Numbered(d) /\ ShownOnce(d)
  PROVE  ShownOnce(c)'
  <1>a. /\ server[c] \in Sessions /\ server[c].sent \in Nat /\ ShownOnce(c)
        /\ down[c] \in Seq(Arrival) /\ DOMAIN down[c] = 1..Len(down[c]) /\ Len(down[c]) \in Nat
        /\ shown[c] \in [1..MaxMessages -> Nat]
    <2>1. server[c] \in Sessions /\ down[c] \in Seq(Arrival) /\ shown[c] \in [1..MaxMessages -> Nat]
      BY DEF Typed
    <2>2. server[c].sent \in Nat
      BY <2>1, SessionFields
    <2> QED  BY <2>1, <2>2, LenProperties
  <1>b. \A i \in DOMAIN down[c]: down[c][i] \in Arrival
    BY <1>a, ElementOfSeq
  <1>c. \A i \in DOMAIN down[c]: down[c][i].command = "MESSAGE" => down[c][i].message \in 1..MaxMessages
    BY <1>b DEF Arrival
  <1>d. MaxMessages \in Nat
    BY Constants
  \* Nothing shown is added, and no message is sent.
  <1>e. ASSUME \A m \in 1..MaxMessages: shown'[c][m] = shown[c][m] \/ shown'[c][m] = 0,
               down'[c] = <<>> \/
               (/\ DOMAIN down'[c] = DOMAIN down[c]
                /\ \A i \in DOMAIN down[c]: down[c][i].command = "MESSAGE" \/ down'[c][i].command = "MESSAGE" =>
                       down'[c][i].command = down[c][i].command /\ down'[c][i].message = down[c][i].message),
               server'[c].sent = server[c].sent \/ (socket'[c] # "open" /\ down'[c] = <<>>),
               socket'[c] = "open" => socket[c] \in {"connecting", "open"},
               socket'[c] \in {"none", "connecting"} => socket[c] \in {"none", "connecting"}
        PROVE  ShownOnce(c)'
    <2>1. \A m \in 1..MaxMessages:
            /\ shown'[c][m] <= 1
            /\ shown'[c][m] = 1 /\ socket'[c] = "open" => m <= server'[c].sent
            /\ socket'[c] \in {"none", "connecting"} => shown'[c][m] = 0
      <3> SUFFICES ASSUME NEW m \in 1..MaxMessages
                   PROVE  /\ shown'[c][m] <= 1
                          /\ shown'[c][m] = 1 /\ socket'[c] = "open" => m <= server'[c].sent
                          /\ socket'[c] \in {"none", "connecting"} => shown'[c][m] = 0
        OBVIOUS
      <3>1. shown[c][m] <= 1 /\ shown[c][m] \in Nat
        BY <1>a DEF ShownOnce
      <3>2. shown'[c][m] = shown[c][m] \/ shown'[c][m] = 0
        BY <1>e
      <3>3. shown[c][m] = 1 /\ socket[c] = "open" => m <= server[c].sent
        BY <1>a DEF ShownOnce
      <3>4. socket[c] \in {"none", "connecting"} => shown[c][m] = 0
        BY <1>a DEF ShownOnce
      <3>5. shown'[c][m] <= 1 /\ (socket'[c] \in {"none", "connecting"} => shown'[c][m] = 0)
        BY <1>e, <3>1, <3>2, <3>4
      <3>6. shown'[c][m] = 1 /\ socket'[c] = "open" => m <= server'[c].sent
        BY <1>e, <3>2, <3>3, <3>4
      <3> QED  BY <3>5, <3>6
    <2>2. CASE down'[c] = <<>>
      BY <2>1, <2>2 DEF ShownOnce
    <2>3. CASE down'[c] # <<>>
      <3>1. ASSUME NEW i \in DOMAIN down'[c], down'[c][i].command = "MESSAGE"
            PROVE  /\ down'[c][i].message <= server'[c].sent
                   /\ shown'[c][down'[c][i].message] = 0
                   /\ \A j \in DOMAIN down'[c]:
                        down'[c][j].command = "MESSAGE" /\ down'[c][j].message = down'[c][i].message => i = j
        <4>1. /\ i \in DOMAIN down[c] /\ down[c][i].command = "MESSAGE" /\ down'[c][i].message = down[c][i].message
              /\ server'[c].sent = server[c].sent
          BY <1>e, <2>3, <3>1
        <4>2. /\ down[c][i].message <= server[c].sent /\ shown[c][down[c][i].message] = 0
              /\ \A j \in DOMAIN down[c]:
                   down[c][j].command = "MESSAGE" /\ down[c][j].message = down[c][i].message => i = j
          BY <1>a, <4>1 DEF ShownOnce
        <4>3. shown'[c][down[c][i].message] = 0
          BY <1>c, <1>e, <4>1, <4>2
        <4>4. \A j \in DOMAIN down'[c]: j \in DOMAIN down[c] /\ (down'[c][j].command = "MESSAGE" =>
                down[c][j].command = "MESSAGE" /\ down'[c][j].message = down[c][j].message)
          BY <1>e, <2>3
        <4> QED  BY <4>1, <4>2, <4>3, <4>4
      <3> QED  BY <2>1, <3>1 DEF ShownOnce
    <2> QED  BY <2>2, <2>3
  <1>1. CASE ClickConnect
    <2>1. /\ UNCHANGED <<shown, down, server>>
          /\ socket'[c] = socket[c] \/ (socket[c] = "none" /\ socket'[c] = "connecting")
      BY <1>1 DEF ClickConnect, Typed
    <2> QED  BY <1>e, <2>1
  <1>2. CASE ClickDisconnect
    <2>1. /\ \A m \in 1..MaxMessages: shown'[c][m] = 0
          /\ UNCHANGED <<down, server>>
          /\ socket'[c] = socket[c] \/ socket'[c] = "closing"
      BY <1>2 DEF ClickDisconnect, Typed
    <2> QED  BY <1>e, <2>1
  <1>3. CASE ClickSend \/ ClickConfirm
    <2>1. UNCHANGED <<shown, down, server, socket>>
      BY <1>3 DEF ClickSend, ClickConfirm, Send, page
    <2> QED  BY <1>e, <2>1
  <1>4. CASE Tick
    <2>1. UNCHANGED <<shown, socket>> /\ server'[c].sent = server[c].sent
      BY <1>4, <1>a DEF Tick, page, Sessions
    <2>2. /\ DOMAIN down'[c] = DOMAIN down[c]
          /\ \A i \in DOMAIN down[c]: /\ down'[c][i].command = down[c][i].command
                                      /\ down[c][i].command = "MESSAGE" => down'[c][i].message = down[c][i].message
      <3>1. CASE Beats(c)
        <4>1. down'[c] = [i \in DOMAIN down[c] |-> [down[c][i] EXCEPT !.age = @ + 1]]
          BY <1>4, <3>1 DEF Tick
        <4> QED  BY <1>b, <4>1 DEF Arrival
      <3>2. CASE ~Beats(c)
        BY <1>4, <3>2 DEF Tick
      <3> QED  BY <3>1, <3>2
    <2> QED  BY <1>e, <2>1, <2>2
  <1>5. ASSUME NEW d \in Clients, SocketOpens(d) \/ SocketEnds(d) \/ Ping(d) \/ Pong(d) PROVE ShownOnce(c)'
    <2>1. /\ UNCHANGED <<shown, down, server>>
          /\ \/ socket'[c] = socket[c] \/ socket'[c] = "closing"
             \/ socket[c] = "connecting" /\ socket'[c] = "open"
      BY <1>5 DEF SocketOpens, SocketEnds, Ping, Pong, page, Typed
    <2> QED  BY <1>e, <2>1
  <1>6. ASSUME NEW d \in Clients, SocketClosed(d) PROVE ShownOnce(c)'
    <2>1. /\ UNCHANGED shown
          /\ socket'[c] = IF c = d THEN "closed" ELSE socket[c]
          /\ down'[c] = IF c = d THEN <<>> ELSE down[c]
          /\ c # d => server'[c] = server[c]
      BY <1>6 DEF SocketClosed, page, Typed
    <2> QED  BY <1>e, <2>1
  <1>7. ASSUME NEW d \in Clients, d # c,
               \/ ReceivePong(d) \/ ReceiveConnected(d) \/ ReceiveMessage(d)
               \/ ServerAccepts(d) \/ ServerSends(d) \/ ServerBeats(d) \/ ServerDies(d)
        PROVE  ShownOnce(c)'
    <2>1. UNCHANGED socket
      BY <1>7 DEF ReceivePong, ReceiveConnected, ReceiveMessage, ServerAccepts, ServerSends, ServerBeats, ServerDies,
                  Arrives, page, client
    <2>2. server'[c] = server[c]
      BY <1>7, Zenon DEF ReceivePong, ReceiveConnected, ReceiveMessage, ServerAccepts, ServerSends, ServerBeats,
                         ServerDies, Arrives, Typed
    <2>3. down'[c] = down[c]
      BY <1>7 DEF ReceivePong, ReceiveConnected, ReceiveMessage, ServerAccepts, ServerSends, ServerBeats,
                  ServerDies, Arrives, Reach, Typed
    <2>4. \A m \in 1..MaxMessages: shown'[c][m] = shown[c][m] \/ shown'[c][m] = 0
      <3>1. CASE ReceiveMessage(d)
        <4>1. shown'[c] = shown[c]
          BY <1>7, <3>1 DEF ReceiveMessage, Typed
        <4> QED  BY <4>1
      <3>2. CASE ReceiveConnected(d)
        BY <3>2 DEF ReceiveConnected
      <3> QED  BY <1>7, <3>1, <3>2 DEF ReceivePong, ServerAccepts, ServerSends, ServerBeats, ServerDies, page
    <2> QED  BY <1>e, <2>1, <2>2, <2>3, <2>4
  <1>8. CASE ReceivePong(c) \/ ReceiveConnected(c) \/ ReceiveMessage(c)
    <2>1. Taken(c) /\ UNCHANGED <<socket, server>> /\ socket[c] = "open"
      BY <1>8, TakenStep DEF ReceivePong, ReceiveConnected, ReceiveMessage, Arrives
    <2>2. /\ DOMAIN down'[c] = 1..Len(down'[c])
          /\ \A i \in DOMAIN down'[c]: i \in DOMAIN down[c] /\ i + 1 \in DOMAIN down[c] /\ down'[c][i] = down[c][i + 1]
      BY <2>1 DEF Taken
    \* What is left was there before, at another place.
    <2>3. ASSUME NEW i \in DOMAIN down'[c], down'[c][i].command = "MESSAGE"
          PROVE  /\ down'[c][i].message \in 1..MaxMessages
                 /\ down'[c][i].message <= server[c].sent /\ shown[c][down'[c][i].message] = 0
                 /\ \A j \in DOMAIN down'[c]:
                      down'[c][j].command = "MESSAGE" /\ down'[c][j].message = down'[c][i].message => i = j
                 /\ down[c][1].command = "MESSAGE" => down[c][1].message # down'[c][i].message
      <3>1. i + 1 \in DOMAIN down[c] /\ down'[c][i] = down[c][i + 1] /\ i \in Nat /\ i # 0
        BY <2>2
      <3>2. /\ down[c][i + 1].message <= server[c].sent /\ shown[c][down[c][i + 1].message] = 0
            /\ \A j \in DOMAIN down[c]:
                 down[c][j].command = "MESSAGE" /\ down[c][j].message = down[c][i + 1].message => i + 1 = j
        BY <1>a, <2>3, <3>1 DEF ShownOnce
      <3>3. ASSUME NEW j \in DOMAIN down'[c], down'[c][j].command = "MESSAGE",
                   down'[c][j].message = down'[c][i].message
            PROVE  i = j
        <4>1. j + 1 \in DOMAIN down[c] /\ down'[c][j] = down[c][j + 1] /\ j \in Nat
          BY <2>2
        <4>2. i + 1 = j + 1
          BY <3>1, <3>2, <3>3, <4>1
        <4> QED  BY <3>1, <4>1, <4>2
      <3>4. down[c][1].command = "MESSAGE" => down[c][1].message # down'[c][i].message
        <4>1. 1 \in DOMAIN down[c] /\ i + 1 # 1
          BY <3>1, <1>a
        <4> QED  BY <3>1, <3>2, <4>1
      <3>5. down[c][i + 1].message \in 1..MaxMessages
        BY <1>c, <2>3, <3>1
      <3> QED  BY <3>1, <3>2, <3>3, <3>4, <3>5
    <2>4. CASE \A m \in 1..MaxMessages: shown'[c][m] = shown[c][m] \/ shown'[c][m] = 0
      <3>1. \A m \in 1..MaxMessages:
              /\ shown'[c][m] <= 1
              /\ shown'[c][m] = 1 => m <= server[c].sent
        BY <1>a, <2>1, <2>4 DEF ShownOnce
      <3>2. \A i \in DOMAIN down'[c]: down'[c][i].command = "MESSAGE" => shown'[c][down'[c][i].message] = 0
        BY <2>3, <2>4
      <3> QED  BY <2>1, <2>3, <3>1, <3>2 DEF ShownOnce
    <2>5. CASE ~\A m \in 1..MaxMessages: shown'[c][m] = shown[c][m] \/ shown'[c][m] = 0
      <3> DEFINE n == down[c][1].message
      <3>1. ReceiveMessage(c)
        <4>1. ReceivePong(c) => shown' = shown
          BY DEF ReceivePong
        <4>2. ReceiveConnected(c) => \A m \in 1..MaxMessages: shown'[c][m] = 0
          BY DEF ReceiveConnected
        <4> QED  BY <1>8, <2>5, <4>1, <4>2
      <3>2. down[c][1].command = "MESSAGE" /\ 1 \in DOMAIN down[c] /\ Head(down[c]) = down[c][1]
        BY <2>1, <3>1, TakenStep DEF ReceiveMessage, Taken
      <3>3. n \in 1..MaxMessages /\ n <= server[c].sent /\ shown[c][n] = 0
        BY <1>a, <1>c, <3>2 DEF ShownOnce
      <3>4. shown' = [shown EXCEPT ![c][n] = @ + 1]
        BY <2>5, <3>1, <3>2 DEF ReceiveMessage
      <3>5. \A m \in 1..MaxMessages: shown'[c][m] = IF m = n THEN 1 ELSE shown[c][m]
        <4>1. shown'[c] = [shown[c] EXCEPT ![n] = shown[c][n] + 1]
          BY <3>4 DEF Typed
        <4>2. \A m \in 1..MaxMessages: shown'[c][m] = IF m = n THEN shown[c][n] + 1 ELSE shown[c][m]
          BY <1>a, <4>1, Zenon
        <4> QED  BY <3>3, <4>2
      <3> HIDE DEF n
      <3>6. \A m \in 1..MaxMessages: shown'[c][m] <= 1 /\ (shown'[c][m] = 1 => m <= server[c].sent)
        BY <1>a, <2>1, <3>3, <3>5 DEF ShownOnce
      <3>7. ASSUME NEW i \in DOMAIN down'[c], down'[c][i].command = "MESSAGE"
            PROVE  shown'[c][down'[c][i].message] = 0
        BY <2>3, <3>2, <3>5, <3>7 DEF n
      <3> QED  BY <2>1, <2>3, <3>6, <3>7 DEF ShownOnce
    <2> QED  BY <2>4, <2>5
  <1>9. CASE ServerAccepts(c) \/ ServerBeats(c)
    <2>1. PICK cmd \in {"CONNECTED", "PONG"} : Reach(c, cmd)
      BY <1>9 DEF ServerAccepts, ServerBeats
    <2>2. UNCHANGED <<shown, client>> /\ socket[c] = "open"
      BY <1>9 DEF ServerAccepts, ServerBeats, Beats, page
    <2>3. server'[c].sent = server[c].sent
      <3>1. CASE ServerAccepts(c)
        <4>1. PICK t : server' = [server EXCEPT ![c].accepted = TRUE, ![c].beat = t]
          BY <3>1, Zenon DEF ServerAccepts
        <4> QED  BY <1>a, <4>1 DEF Typed, Sessions
      <3>2. CASE ServerBeats(c)
        BY <1>a, <3>2 DEF ServerBeats, Typed, Sessions
      <3> QED  BY <1>9, <3>1, <3>2
    <2> DEFINE S == {[command |-> cmd, age |-> 0]}
    <2>4. More(c, S)
      BY <2>1, <2>2, ReachStep
    <2>5. \A f \in S: f.command # "MESSAGE"
      OBVIOUS
    <2> HIDE DEF S
    <2>6. \A i \in DOMAIN down'[c]: down'[c][i].command = "MESSAGE" => i \in DOMAIN down[c] /\ down'[c][i] = down[c][i]
      BY <2>4, <2>5 DEF More
    <2>7. socket' = socket /\ shown' = shown
      BY <2>2 DEF client
    <2> QED  BY <1>a, <2>3, <2>6, <2>7 DEF ShownOnce
  <1>10. CASE ServerDies(c)
    <2>1. UNCHANGED <<shown, client>> /\ down'[c] = <<>> /\ server'[c].sent = server[c].sent
      BY <1>10, <1>a DEF ServerDies, page, Typed, Sessions
    <2>2. UNCHANGED socket
      BY <2>1 DEF client
    <2> QED  BY <1>e, <2>1, <2>2
  <1>11. CASE ServerSends(c)
    <2> DEFINE n == server[c].sent + 1
               S == Broadcast(c)
    <2>1. /\ More(c, S) /\ Len(down'[c]) = Len(down[c]) + 1
          /\ \A f \in S: f.command = "MESSAGE" /\ f.age = 0 /\ f.message = n
      BY <1>11, OneBroadcast
    <2>2. UNCHANGED <<shown, socket>> /\ socket[c] = "open" /\ server'[c].sent = n /\ n \in 1..MaxMessages
      BY <1>11, <1>a, <1>d DEF ServerSends, page, client, Typed, Sessions
    <2> HIDE DEF S
    <2>3. shown[c][n] = 0
      <3>1. shown[c][n] \in Nat /\ shown[c][n] <= 1 /\ (shown[c][n] = 1 => n <= server[c].sent)
        BY <1>a, <2>2 DEF ShownOnce
      <3>2. ~(n <= server[c].sent)
        BY <1>a
      <3> QED  BY <3>1, <3>2
    <2>4. ASSUME NEW i \in DOMAIN down'[c], i \in DOMAIN down[c], down'[c][i].command = "MESSAGE"
          PROVE  /\ down'[c][i] = down[c][i] /\ down'[c][i].message <= server[c].sent
                 /\ down'[c][i].message \in 1..MaxMessages /\ down'[c][i].message # n
                 /\ shown[c][down'[c][i].message] = 0
      <3>1. down'[c][i] = down[c][i]
        BY <2>1, <2>4 DEF More
      <3>2. down[c][i].message <= server[c].sent /\ shown[c][down[c][i].message] = 0
        BY <1>a, <2>4, <3>1 DEF ShownOnce
      <3>3. down[c][i].message \in 1..MaxMessages
        BY <1>c, <2>4, <3>1
      <3>4. down[c][i].message # n
        BY <1>a, <3>2, <3>3
      <3> QED  BY <3>1, <3>2, <3>3, <3>4
    <2>5. ASSUME NEW i \in DOMAIN down'[c], i \notin DOMAIN down[c]
          PROVE  i = Len(down[c]) + 1 /\ down'[c][i].message = n
      BY <1>a, <2>1, <2>5 DEF More
    <2>6. ASSUME NEW i \in DOMAIN down'[c], down'[c][i].command = "MESSAGE"
          PROVE  /\ down'[c][i].message <= n /\ shown[c][down'[c][i].message] = 0
                 /\ \A j \in DOMAIN down'[c]:
                      down'[c][j].command = "MESSAGE" /\ down'[c][j].message = down'[c][i].message => i = j
      <3>1. CASE i \in DOMAIN down[c]
        <4>1. down'[c][i].message <= n
          BY <1>a, <2>4, <2>6, <3>1
        <4>2. ASSUME NEW j \in DOMAIN down'[c], down'[c][j].command = "MESSAGE",
                     down'[c][j].message = down'[c][i].message
              PROVE  i = j
          <5>1. j \in DOMAIN down[c]
            BY <2>4, <2>5, <2>6, <3>1, <4>2
          <5>2. down'[c][j] = down[c][j] /\ down'[c][i] = down[c][i]
            BY <2>4, <2>6, <3>1, <4>2, <5>1
          <5> QED  BY <1>a, <2>6, <3>1, <4>2, <5>1, <5>2 DEF ShownOnce
        <4> QED  BY <2>4, <2>6, <3>1, <4>1, <4>2
      <3>2. CASE i \notin DOMAIN down[c]
        <4>1. i = Len(down[c]) + 1 /\ down'[c][i].message = n
          BY <2>5, <3>2
        <4>2. ASSUME NEW j \in DOMAIN down'[c], down'[c][j].command = "MESSAGE",
                     down'[c][j].message = down'[c][i].message
              PROVE  i = j
          <5>1. j \notin DOMAIN down[c]
            BY <2>4, <4>1, <4>2
          <5> QED  BY <2>5, <4>1, <5>1
        <4> QED  BY <1>a, <2>3, <4>1, <4>2
      <3> QED  BY <3>1, <3>2
    <2>7. \A m \in 1..MaxMessages: shown[c][m] <= 1 /\ (shown[c][m] = 1 => m <= n)
      BY <1>a, <2>2 DEF ShownOnce
    <2> QED  BY <2>2, <2>6, <2>7 DEF ShownOnce
  <1> QED  BY <1>1, <1>2, <1>3, <1>4, <1>5, <1>6, <1>7, <1>8, <1>9, <1>10, <1>11 DEF Next

-----------------------------------------------------------------------------
(* The invariant and what follows from it. *)

LEMMA TypeParts ==
  /\ Sound => Typed /\ offer \in [Clients -> Nat \X Nat]
  /\ Typed /\ offer \in [Clients -> Nat \X Nat] /\ (\A c \in Clients: Logged(c)) => TypeOK
  BY DEF Sound, TypeOK, Typed, Logged, Intervals, Sessions

LEMMA OverlapStays ==
  ASSUME Typed, Next, ~overlapped'
  PROVE  ~overlapped
  <1>1. CASE ClickConnect
    BY <1>1 DEF ClickConnect
  <1>2. CASE ClickDisconnect \/ ClickSend \/ ClickConfirm \/ Tick
    BY <1>2 DEF ClickDisconnect, ClickSend, ClickConfirm, Send, Tick, page
  <1>3. CASE ~(ClickConnect \/ ClickDisconnect \/ ClickSend \/ ClickConfirm \/ Tick)
    BY <1>3 DEF Next, SocketOpens, SocketEnds, SocketClosed, ReceivePong, ReceiveConnected, ReceiveMessage, Arrives,
                Ping, Pong, ServerAccepts, ServerSends, ServerBeats, ServerDies, page
  <1> QED  BY <1>1, <1>2, <1>3

LEMMA StepSound == Sound /\ [Next /\ UNCHANGED offer]_vars => Sound'
  <1> SUFFICES ASSUME Sound, [Next /\ UNCHANGED offer]_vars PROVE Sound'
    OBVIOUS
  <1>1. CASE UNCHANGED vars
    <2>1. UNCHANGED <<stompClient, uiConnected, overlapped, shown, socket, hooked, connected, subscriptions,
                      counter, timers, silent, up, down, server, offer>>
      BY <1>1 DEF vars, page, client
    <2>2. TypeOK'
      BY <2>1 DEF Sound, TypeOK
    <2>3. \A c \in Clients: Logged(c)' /\ Numbered(c)' /\ Hooked(c)'
      BY <2>1 DEF Sound, Logged, Numbered, Hooked
    <2>4. \A c \in Clients: Beating(c)' /\ InTime(c)'
      BY <2>1, BeatingSame, InTimeSame DEF Sound, Connection
    <2>5. ~overlapped' => \A c \in Clients: Followed(c)' /\ ShownOnce(c)'
      BY <2>1 DEF Sound, Followed, ShownOnce
    <2> QED  BY <2>2, <2>3, <2>4, <2>5 DEF Sound
  <1>2. CASE Next /\ UNCHANGED offer
    <2>1. /\ Typed /\ offer \in [Clients -> Nat \X Nat] /\ TypeOK
          /\ \A c \in Clients: Logged(c) /\ Numbered(c) /\ Hooked(c) /\ Beating(c) /\ InTime(c)
      BY TypeParts DEF Sound
    <2>2. Typed'
      BY <1>2, <2>1, TypedStep
    <2>3. \A c \in Clients: Logged(c)'
      BY <1>2, <2>1, LogSteps, LoggedStep
    <2>4. TypeOK'
      <3>1. offer' \in [Clients -> Nat \X Nat]
        BY <1>2, <2>1
      <3>2. DOMAIN up' = Clients /\ \A c \in Clients: \A i \in DOMAIN up'[c]: up'[c][i].command \in Commands
        BY <2>2, <2>3 DEF Typed, Logged
      <3> QED  BY <2>2, <3>1, <3>2 DEF Typed, TypeOK, Intervals, Sessions
    <2>5. \A c \in Clients: Numbered(c)' /\ Hooked(c)'
      BY <1>2, <2>1, NumberedStep, HookedStep
    <2>6. \A c \in Clients: Beating(c)'
      BY <1>2, <2>1, BeatingStep
    <2>7. \A c \in Clients: InTime(c)'
      BY <1>2, <2>1, <2>2, <2>6, InTimeStep
    <2>8. ASSUME ~overlapped' PROVE \A c \in Clients: Followed(c)' /\ ShownOnce(c)'
      <3>1. ~overlapped
        BY <1>2, <2>1, <2>8, OverlapStays
      <3>2. \A c \in Clients: Followed(c) /\ ShownOnce(c)
        BY <3>1 DEF Sound
      <3> QED  BY <1>2, <2>1, <2>2, <2>8, <3>2, FollowedStep, ShownOnceStep
    <2> QED  BY <2>3, <2>4, <2>5, <2>6, <2>7, <2>8 DEF Sound
  <1> QED  BY <1>1, <1>2

LEMMA SoundInvariant == Spec => []Sound
  BY InitSound, StepSound, PTL DEF Spec

\* The page, its clients, their sockets, timers and logs and the frames on the
\* way to them have their types in every state.
THEOREM TypeCorrect == Spec => []TypeOK
  <1>1. Sound => TypeOK
    BY DEF Sound
  <1> QED  BY <1>1, SoundInvariant, PTL

\* CONNECT goes out first and once and nothing follows DISCONNECT, although
\* subscribe, send and the pinger never look at the state (stomp.js 145-162).
THEOREM ConversationHolds == Spec => []Conversation
  <1>1. Sound => Conversation
    BY DEF Sound, Logged, Conversation
  <1> QED  BY <1>1, SoundInvariant, PTL

\* Timers run only while the socket is open, or closing with the onclose that
\* takes them away still in place (stomp.js _cleanUp and onclose).
THEOREM TimersEndHold == Spec => []TimersEnd
  <1>1. Sound => TimersEnd
    BY DEF Sound, Hooked, NoTimers, TimersEnd
  <1> QED  BY <1>1, SoundInvariant, PTL

\* The ponger lets no more than three intervals pass in silence, and closes no
\* socket of a server that beats on time (stomp.js 193-206).
THEOREM NoticedInTimeHolds == Spec => []NoticedInTime
  <1>1. ASSUME Sound PROVE NoticedInTime
    <2> SUFFICES ASSUME NEW c \in Clients, socket[c] = "open", timers[c].ponger # Off
                 PROVE  /\ silent[c] <= 3 * timers[c].ponger.ttl
                        /\ Due(c, "ponger") /\ TooSilent(c) => ~server[c].alive
      BY DEF NoticedInTime
    <2> DEFINE I == Interval(c)
    <2>1. /\ Typed /\ offer \in [Clients -> Nat \X Nat] /\ Beating(c) /\ InTime(c)
      BY <1>1, TypeParts DEF Sound
    <2>2. /\ timers[c].ponger.due \in Nat /\ silent[c] \in Nat /\ server[c].beat.due \in Nat /\ Off.ttl = 0
          /\ server[c].beat \in Timer
      BY <2>1, IntervalFields, SessionFields DEF Typed, Timer, Off
    <2>3. I \in Nat /\ I >= Incoming /\ (Agreed(c) => I > 0 /\ Incoming > 0)
      <3>1. offer[c][1] \in Nat /\ Incoming \in Nat
        BY <2>1, Constants
      <3>2. Larger(Incoming, offer[c][1]) \in Nat /\ Larger(Incoming, offer[c][1]) >= Incoming
        BY <3>1, OffIsTimer
      <3> QED  BY <3>1, <3>2 DEF Interval, Agreed
    <2>4. Agreed(c) /\ timers[c].ponger.ttl = I /\ silent[c] + timers[c].ponger.due <= 3 * I
      BY <2>1 DEF Beating, InTime
    <2>5. server[c].accepted /\ server[c].beat.ttl = I
      BY <2>1, <2>4 DEF Beating
    <2>6. ASSUME server[c].alive PROVE silent[c] <= 2 * I
      <3>1. Beats(c)
        BY <2>2, <2>3, <2>4, <2>5, <2>6 DEF Beats
      <3>2. CASE down[c] = <<>>
        <4>1. silent[c] <= I - server[c].beat.due
          BY <2>1, <3>1, <3>2 DEF InTime
        <4> QED  BY <2>2, <2>3, <4>1
      <3>3. CASE down[c] # <<>>
        <4>1. silent[c] <= Head(down[c]).age + I
          BY <2>1, <3>1, <3>3 DEF InTime
        <4>2. Head(down[c]).age \in Nat /\ Head(down[c]).age <= MaxDelay
          BY <2>1, <3>3, ArrivalFields, TailSeq DEF Typed
        <4> QED  BY <2>2, <2>3, <2>4, <4>1, <4>2, Constants
      <3> QED  BY <3>2, <3>3
    <2> HIDE DEF I
    <2>7. silent[c] <= 3 * I
      BY <2>2, <2>3, <2>4
    <2>8. silent[c] <= 2 * I => ~TooSilent(c)
      BY <2>2, <2>3, <2>4 DEF TooSilent
    <2> QED  BY <2>4, <2>6, <2>7, <2>8
  <1> QED  BY <1>1, SoundInvariant, PTL

\* Without overlapping attempts only the page's own client has a connection,
\* it subscribes once per destination, and no message is shown twice
\* (app.js 15-34).
THEOREM PageFollowsClientHolds == Spec => []PageFollowsClient
  <1>1. ASSUME Sound PROVE PageFollowsClient
    <2>1. Cardinality({}) = 0 /\ Cardinality({0, 1}) = 2
      <3>1. IsFiniteSet({0}) /\ Cardinality({0}) = 1 /\ 1 \notin {0}
        BY FS_Singleton
      <3>2. Cardinality({0} \cup {1}) = Cardinality({0}) + 1
        BY <3>1, FS_AddElement
      <3>3. {0} \cup {1} = {0, 1}
        OBVIOUS
      <3> QED  BY <3>1, <3>2, <3>3, FS_EmptySet
    <2> SUFFICES ASSUME ~overlapped, NEW c \in Clients
                 PROVE  /\ socket[c] \in {"connecting", "open"} => c = stompClient
                        /\ Cardinality(subscriptions[c]) <= Len(Destinations)
                        /\ \A m \in 1..MaxMessages: shown[c][m] <= 1
      BY DEF PageFollowsClient
    <2>2. Followed(c) /\ ShownOnce(c)
      BY <1>1 DEF Sound
    <2>3. Cardinality(subscriptions[c]) <= Len(Destinations)
      <3>1. subscriptions[c] = {} \/ subscriptions[c] = {0, 1}
        BY <2>2 DEF Followed
      <3>2. Cardinality(subscriptions[c]) \in {0, 2}
        BY <2>1, <3>1
      <3> QED  BY <3>2, Constants
    <2> QED  BY <2>2, <2>3 DEF Followed, ShownOnce
  <1> QED  BY <1>1, SoundInvariant, PTL
=============================================================================
