--------------------------- MODULE SockJS_proofs ---------------------------
(***************************************************************************)
(* Proofs about SockJS, for any places and any number of messages.         *)
(*                                                                         *)
(* A handler of the page is a composition of operators on the record of    *)
(* the parts, so the invariant is stated of such a record: Phase (the      *)
(* calls that are still to come fit the ready state), Calm (a transport    *)
(* nobody listens to has nothing running) and Lasting (nothing comes       *)
(* behind the end of an answer) are kept by every operator in turn, and    *)
(* Grows says what the user may see between the first and the last.        *)
(* Mailed is the same for the messages of the user, on their way from the  *)
(* page to the server: an operator that does not send only drops some.     *)
(* UnderWay and Over are the conditions in the middle of a handler, where  *)
(* Phase and Calm do not hold yet.                                         *)
(***************************************************************************)
EXTENDS SockJS, SequenceTheorems, WellFoundedInduction, TLAPS

Parts == [sock: Sockets, tr: Engines, left: SUBSET TransportNames, srv: Sessions]

\* Which calls are still to come in a ready state, and what its user has seen.
Phase(x) ==
    LET s == x.sock IN
    /\ s.ir <=> s.info \in {"scheduled", "asking"}
    /\ s.ir => /\ s.readyState = CONNECTING /\ s.events = <<>> /\ ~s.timer /\ s.stale = 0
               /\ x.tr = NoTransport
    /\ s.transport <=> x.tr.ears
    /\ s.transport <=> s.readyState \in {CONNECTING, OPEN} /\ ~s.ir
    /\ s.timer \/ s.stale > 0 => s.readyState = CONNECTING
    /\ s.closes \in (IF s.readyState = CLOSING THEN {<<TRUE>>, <<FALSE>>} ELSE {<<>>})
    /\ s.closes = <<TRUE>> => s.events = <<>>
    /\ Api!Legal(s.readyState, s.events)

\* What a transport has running when nobody listens to it any more.
Tidy(e) ==
    /\ e.name = "none" => e = NoTransport
    /\ IF Framed(e.name) THEN e.frame # "none"
       ELSE e.frame = "none" /\ e.facade = "none" /\ e.up = <<>> /\ e.down = <<>>
    /\ e.name # "none" /\ Sender(e.name) = "ws" => e.snd = "none"
    /\ e.frame = "gone" => e.rcv = "none" /\ e.snd = "none"
    /\ ~e.ears /\ e.left = "no" => IF Framed(e.name) THEN e.frame \in {"removing", "gone"}
                                  ELSE e.rcv = "none" /\ e.snd = "none"
Calm(x) == Tidy(x.tr) /\ (x.sock.readyState = CLOSED /\ x.tr.left = "no" => x.tr.frame # "removing")

\* Nothing comes behind the end of an answer.
Lasting(x) == \A i \in DOMAIN x.srv.wire: x.srv.wire[i].type = "end" => i = Len(x.srv.wire)

\* What a step may show to the user.
Grows(x, y) ==
    LET q == x.sock.events
        r == y.sock.events
    IN  /\ y.sock.readyState \in x.sock.readyState..CLOSED
        /\ Len(q) <= Len(r) /\ \A i \in 1..Len(q): r[i] = q[i]
        /\ \A i \in (Len(q) + 1)..Len(r): /\ IsMessage(r[i]) => x.sock.readyState < CLOSING
                                          /\ r[i] = <<"open">> => x.sock.readyState = CONNECTING
        /\ x.sock.readyState = CLOSED => r = q

\* A handler of a socket that has not ended may stand here.
UnderWay(x) ==
    LET s == x.sock IN
    /\ s.readyState \in {CONNECTING, OPEN} /\ s.closes = <<>>
    /\ s.ir <=> s.info \in {"scheduled", "asking"}
    /\ s.ir => s.readyState = CONNECTING /\ s.events = <<>> /\ x.tr = NoTransport
    /\ s.transport <=> x.tr.ears
    /\ s.timer \/ s.stale > 0 => s.readyState = CONNECTING
    /\ Api!Legal(s.readyState, s.events)

\* A handler of x ends in y.
Moves(x, y) == y \in Parts /\ Phase(y) /\ Grows(x, y)
-----------------------------------------------------------------------------
(* Induction, with a set for the property. *)

LEMMA Counting ==
  ASSUME NEW T, 0 \in T, \A n \in Nat: n \in T => n + 1 \in T
  PROVE  Nat \subseteq T
  <1> DEFINE Bad == Nat \ T
  <1> SUFFICES ASSUME Bad # {} PROVE FALSE
    OBVIOUS
  <1>1. PICK n \in Bad: \A m \in Bad: ~ (<<m, n>> \in OpToRel(<, Nat))
    BY NatLessThanWellFounded, WFMin
  <1>2. n \in Nat /\ n # 0 /\ n - 1 \in Nat
    OBVIOUS
  <1>3. n - 1 \in Bad
    BY <1>2
  <1>4. <<n - 1, n>> \in OpToRel(<, Nat)
    BY <1>2 DEF OpToRel
  <1> QED  BY <1>1, <1>3, <1>4

-----------------------------------------------------------------------------
(* The transports. *)

LEMMA Names ==
  /\ TransportNames = {"websocket", "xhr-streaming", "xdr-streaming", "eventsource", "iframe-eventsource",
                       "htmlfile", "iframe-htmlfile", "xhr-polling", "xdr-polling", "iframe-xhr-polling",
                       "jsonp-polling"}
  /\ TransportList \in Seq(TransportNames) /\ "none" \notin TransportNames
  <1>1. Len(TransportList) = 11
    BY DEF TransportList, Streaming, Polling
  <1>2. DOMAIN TransportList = 1..11
    BY DEF TransportList, Streaming, Polling
  <1>3. /\ TransportList[1] = "websocket" /\ TransportList[2] = "xhr-streaming"
        /\ TransportList[3] = "xdr-streaming" /\ TransportList[4] = "eventsource"
        /\ TransportList[5] = "iframe-eventsource" /\ TransportList[6] = "htmlfile"
        /\ TransportList[7] = "iframe-htmlfile" /\ TransportList[8] = "xhr-polling"
        /\ TransportList[9] = "xdr-polling" /\ TransportList[10] = "iframe-xhr-polling"
        /\ TransportList[11] = "jsonp-polling"
    BY DEF TransportList, Streaming, Polling
  <1>4. TransportNames = {TransportList[i] : i \in 1..11}
    BY <1>2 DEF TransportNames
  <1>5. \A i \in 1..11: \/ i = 1 \/ i = 2 \/ i = 3 \/ i = 4 \/ i = 5 \/ i = 6
                         \/ i = 7 \/ i = 8 \/ i = 9 \/ i = 10 \/ i = 11
    OBVIOUS
  <1>6. TransportNames = {"websocket", "xhr-streaming", "xdr-streaming", "eventsource", "iframe-eventsource",
                          "htmlfile", "iframe-htmlfile", "xhr-polling", "xdr-polling", "iframe-xhr-polling",
                          "jsonp-polling"}
    BY <1>3, <1>4, <1>5
  <1>7. TransportList \in Seq(TransportNames)
    <2>1. TransportList = [i \in 1..11 |-> TransportList[i]]
      BY <1>2 DEF TransportList, Streaming, Polling
    <2>2. TransportList \in [1..11 -> TransportNames]
      BY <1>4, <2>1
    <2> QED  BY <2>2, SeqDef
  <1> QED  BY <1>6, <1>7

LEMMA Kinds ==
  ASSUME NEW t \in TransportNames
  PROVE  /\ Receiver(t) \in {"ws", "stream", "es", "html", "poll", "jsonp"}
         /\ Sender(t) \in {"ws", "form", "ajax"}
         /\ Framed(t) => Sender(t) = "ajax" /\ Receiver(t) \in {"es", "html", "poll"}
         /\ Sender(t) = "ws" <=> Receiver(t) = "ws"
         /\ Sender(t) = "form" <=> Receiver(t) = "jsonp"
  BY Names DEF Receiver, Sender, Framed, Engine, FacadeTransport

-----------------------------------------------------------------------------
(* Types. *)

LEMMA EmptyTyped ==
  ASSUME NEW S
  PROVE  <<>> \in Seq(S) /\ Len(<<>>) = 0
  BY EmptySeq

LEMMA AppendTyped ==
  ASSUME NEW S, NEW q \in Seq(S), NEW e \in S
  PROVE  Append(q, e) \in Seq(S)
  BY AppendProperties

LEMMA TailTyped ==
  ASSUME NEW S, NEW q \in Seq(S), q # <<>>
  PROVE  Head(q) \in S /\ Tail(q) \in Seq(S)
  BY HeadTailProperties

LEMMA AbortTyped == ASSUME NEW e \in Engines PROVE Abort(e) \in Engines
  BY DEF Abort, Engines
LEMMA StopTyped == ASSUME NEW e \in Engines PROVE Stop(e) \in Engines
  BY EmptyTyped DEF Stop, Engines
LEMMA ScheduleTyped == ASSUME NEW e \in Engines PROVE SendSchedule(e) \in Engines
  BY EmptyTyped DEF SendSchedule, Engines
LEMMA EngineSendTyped == ASSUME NEW e \in Engines, NEW m \in Said PROVE EngineSend(e, m) \in Engines
  <1>1. [e EXCEPT !.flight = Append(@, m)] \in Engines /\ [e EXCEPT !.buf = Append(@, m)] \in Engines
    BY AppendTyped DEF Engines
  <1> QED  BY <1>1, ScheduleTyped DEF EngineSend
LEMMA SendTyped == ASSUME NEW e \in Engines, NEW m \in Said PROVE TransportSend(e, m) \in Engines
  <1>1. [type |-> "m", m |-> m] \in ToFrame
    BY DEF ToFrame
  <1>2. [e EXCEPT !.up = Append(@, [type |-> "m", m |-> m])] \in Engines
    BY <1>1, AppendTyped DEF Engines
  <1> QED  BY <1>2, EngineSendTyped DEF TransportSend
LEMMA EngineCloseTyped == ASSUME NEW e \in Engines PROVE EngineClose(e) \in Engines
  BY AbortTyped, StopTyped DEF EngineClose
LEMMA TransportCloseTyped == ASSUME NEW e \in Engines PROVE TransportClose(e) \in Engines
  <1>1. \A c \in Engines: [c EXCEPT !.ears = FALSE] \in Engines
    BY DEF Engines
  <1>2. [type |-> "c"] \in ToFrame
    BY DEF ToFrame
  <1>3. [e EXCEPT !.ears = FALSE, !.frame = "removing", !.up = Append(@, [type |-> "c"])] \in Engines
    BY <1>2, AppendTyped DEF Engines
  <1> QED  BY <1>1, <1>3, EngineCloseTyped DEF TransportClose
LEMMA NewTyped == ASSUME NEW t \in TransportNames PROVE NewTransport(t) \in Engines
  BY EmptyTyped DEF NewTransport, Engines
LEMMA NoneTyped == NoTransport \in Engines
  <1> DEFINE e == NewTransport("jsonp-polling")
  <1>1. e \in Engines
    BY NewTyped, Names
  <1> HIDE DEF e
  <1> QED  BY <1>1 DEF NoTransport, Engines, e
LEMMA GoneTyped ==
  ASSUME NEW c \in Engines, NEW n \in TransportNames \cup {"none"}, NEW b \in BOOLEAN,
         NEW l \in {"no", "early", "send", "timeout"}
  PROVE  [c EXCEPT !.name = n, !.ears = b, !.left = l, !.frame = "gone"] \in Engines
  BY DEF Engines
LEMMA RemovedTyped == ASSUME NEW e \in Engines PROVE Removed(e) \in Engines
  <1>1. /\ e.name \in TransportNames \cup {"none"} /\ e.ears \in BOOLEAN
        /\ e.left \in {"no", "early", "send", "timeout"}
    BY DEF Engines
  <1> QED  BY <1>1, NoneTyped, GoneTyped, Zenon DEF Removed
LEMMA FacadeTyped ==
  ASSUME NEW e \in Engines
  PROVE  [e EXCEPT !.facade = "hears", !.rcv = "scheduled"] \in Engines
  BY DEF Engines
LEMMA FrameReceivesTyped ==
  ASSUME NEW e \in Engines, e.up # <<>>, NEW refused \in BOOLEAN
  PROVE  FrameReceives(e, Head(e.up), refused) \in Engines
  <1> DEFINE r == [e EXCEPT !.up = Tail(@)]
             msg == Head(e.up)
  <1>1. r \in Engines /\ msg \in ToFrame
    BY TailTyped DEF Engines
  <1> HIDE DEF r
  <1>2. msg.type \in {"s", "m", "c"} /\ (msg.type = "m" => msg.m \in Said)
    BY <1>1 DEF ToFrame
  <1>3. \A c \in Engines: [c EXCEPT !.facade = "none"] \in Engines
    BY DEF Engines
  <1> HIDE DEF msg
  <1> QED  BY <1>1, <1>2, <1>3, FacadeTyped, EngineSendTyped, EngineCloseTyped, Zenon DEF FrameReceives, r, msg

\* The parts a handler changes.
LEMMA Fields ==
  ASSUME NEW x \in Parts
  PROVE  x.sock \in Sockets /\ x.tr \in Engines /\ x.left \subseteq TransportNames /\ x.srv \in Sessions
  BY DEF Parts

LEMMA ToldTyped ==
  ASSUME NEW x \in Parts, NEW e \in Events
  PROVE  dispatchEvent(x, e) \in Parts
  <1>1. [x.sock EXCEPT !.events = Append(@, e)] \in Sockets
    BY Fields, AppendTyped DEF Sockets
  <1> QED  BY <1>1 DEF dispatchEvent, Parts

LEMMA SilencedFields ==
  ASSUME NEW s \in Sockets
  PROVE  /\ Silenced(s) \in Sockets
         /\ ~Silenced(s).ir /\ ~Silenced(s).transport
         /\ Silenced(s).info = IF ~s.ir THEN s.info ELSE IF s.info = "scheduled" THEN "zombie" ELSE "done"
         /\ Silenced(s).readyState = s.readyState /\ Silenced(s).transports = s.transports
         /\ Silenced(s).timer = s.timer /\ Silenced(s).stale = s.stale /\ Silenced(s).closes = s.closes
         /\ Silenced(s).said = s.said /\ Silenced(s).events = s.events
  BY DEF Silenced, Sockets

LEMMA ClosingFields ==
  ASSUME NEW s \in Sockets
  PROVE  /\ Closing(s) \in Sockets
         /\ Closing(s).readyState = CLOSING /\ Closing(s).closes = Append(s.closes, s.ir)
         /\ ~Closing(s).timer /\ Closing(s).stale = 0
         /\ Closing(s).ir = s.ir /\ Closing(s).info = s.info /\ Closing(s).transports = s.transports
         /\ Closing(s).transport = s.transport /\ Closing(s).said = s.said /\ Closing(s).events = s.events
  <1>1. CLOSING \in CONNECTING..CLOSED
    BY DEF CONNECTING, CLOSING, CLOSED
  <1> QED  BY <1>1, AppendTyped DEF Closing, Sockets

\* What _close changes.
LEMMA CloseFields ==
  ASSUME NEW x \in Parts
  PROVE  /\ _close(x) \in Parts
         /\ _close(x).left = x.left /\ _close(x).srv = x.srv
         /\ _close(x).tr = IF x.sock.transport THEN TransportClose(x.tr) ELSE x.tr
         /\ _close(x).sock = Silenced(IF x.sock.readyState = CLOSED THEN x.sock ELSE Closing(x.sock))
  <1>1. TransportClose(x.tr) \in Engines
    BY Fields, TransportCloseTyped
  <1>2. Silenced(IF x.sock.readyState = CLOSED THEN x.sock ELSE Closing(x.sock)) \in Sockets
    BY Fields, SilencedFields, ClosingFields
  <1> QED  BY <1>1, <1>2 DEF _close, Parts

LEMMA UserTyped == ASSUME NEW x \in Parts, NEW does PROVE Handler(x, does) \in Parts /\ send(x) \in Parts /\ close(x) \in Parts
  <1>1. close(x) \in Parts
    BY CloseFields DEF close
  <1>2. send(x) \in Parts
    <2> SUFFICES ASSUME x.sock.said < MaxSaid
                 PROVE  [x EXCEPT !.sock.said = @ + 1, !.tr = TransportSend(@, x.sock.said + 1)] \in Parts
      BY DEF send
    <2>1. x.sock.said + 1 \in Said /\ x.sock.said + 1 \in 0..MaxSaid
      BY Fields, BoundsAssumption DEF Sockets, Said
    <2>2. [x.sock EXCEPT !.said = @ + 1] \in Sockets
      BY Fields, <2>1 DEF Sockets
    <2>3. TransportSend(x.tr, x.sock.said + 1) \in Engines
      BY Fields, <2>1, SendTyped
    <2> QED  BY <2>2, <2>3 DEF Parts
  <1> QED  BY <1>1, <1>2 DEF Handler

LEMMA AttemptingFields ==
  ASSUME NEW s \in Sockets, s.transports # <<>>
  PROVE  /\ Attempting(s) \in Sockets
         /\ Attempting(s).transports = Tail(s.transports) /\ Attempting(s).transport
         /\ Attempting(s).ir = s.ir /\ Attempting(s).info = s.info
         /\ Attempting(s).readyState = s.readyState /\ Attempting(s).closes = s.closes
         /\ Attempting(s).said = s.said /\ Attempting(s).events = s.events
  <1>1. Tail(s.transports) \in Seq(TransportNames)
    BY TailTyped DEF Sockets
  <1>2. PICK n \in Nat: n = s.stale + (IF s.timer THEN 1 ELSE 0)
    BY DEF Sockets
  <1>3. Attempting(s) = [s EXCEPT !.transports = Tail(@), !.transport = TRUE, !.timer = TRUE, !.stale = n]
    BY <1>2, Zenon DEF Attempting
  <1> QED  BY <1>1, <1>3 DEF Sockets

LEMMA OpenedFields ==
  ASSUME NEW s \in Sockets
  PROVE  /\ Opened(s) \in Sockets
         /\ Opened(s).readyState = OPEN /\ ~Opened(s).timer /\ Opened(s).stale = 0
         /\ Opened(s).ir = s.ir /\ Opened(s).info = s.info /\ Opened(s).transports = s.transports
         /\ Opened(s).transport = s.transport /\ Opened(s).closes = s.closes
         /\ Opened(s).said = s.said /\ Opened(s).events = s.events
  <1>1. OPEN \in CONNECTING..CLOSED
    BY DEF CONNECTING, OPEN, CLOSED
  <1> QED  BY <1>1 DEF Opened, Sockets

LEMMA NewSessionTyped ==
  ASSUME NEW n \in 0..MaxMessages
  PROVE  NewSession(n) \in Sessions
  BY EmptyTyped DEF NewSession, Sessions

LEMMA ConnectFields ==
  ASSUME NEW x \in Parts, x.sock.transports # <<>>
  PROVE  /\ _connect(x) \in Parts
         /\ _connect(x).left = x.left /\ _connect(x).srv = NewSession(x.srv.sent)
         /\ _connect(x).tr = NewTransport(Head(x.sock.transports))
         /\ _connect(x).sock = Attempting(x.sock)
         /\ Head(x.sock.transports) \in TransportNames
  <1>1. Attempting(x.sock) \in Sockets
    BY Fields, AttemptingFields
  <1>2. Head(x.sock.transports) \in TransportNames
    BY Fields, TailTyped DEF Sockets
  <1>3. NewTransport(Head(x.sock.transports)) \in Engines
    BY <1>2, NewTyped
  <1>4. NewSession(x.srv.sent) \in Sessions
    BY Fields, NewSessionTyped DEF Sessions
  <1> QED  BY <1>1, <1>2, <1>3, <1>4 DEF _connect, Parts

LEMMA ConnectTyped == ASSUME NEW x \in Parts PROVE _connect(x) \in Parts
  BY ConnectFields, CloseFields DEF _connect

LEMMA InformedFields ==
  ASSUME NEW s \in Sockets
  PROVE  /\ Informed(s) \in Sockets
         /\ ~Informed(s).ir /\ Informed(s).info = "done"
         /\ Informed(s).readyState = s.readyState /\ Informed(s).transports = s.transports
         /\ Informed(s).transport = s.transport /\ Informed(s).timer = s.timer /\ Informed(s).stale = s.stale
         /\ Informed(s).closes = s.closes /\ Informed(s).said = s.said /\ Informed(s).events = s.events
  BY DEF Informed, Sockets

\* The transports that may be tried, in the order of the list.
LEMMA FilterTyped ==
  ASSUME NEW whitelist, NEW b, NEW i, NEW websocket
  PROVE  filterToEnabled(whitelist, b, i, websocket) \in Seq(TransportNames)
  <1> DEFINE takes(t) == /\ t = "websocket" => websocket
                         /\ whitelist = {} \/ t \in whitelist
                         /\ Enabled(t, b, i)
             N == Len(TransportList)
             Main(f, n) == f = [k \in 0..n |->
               IF k = 0 THEN <<>>
               ELSE IF takes(TransportList[k]) THEN Append(f[k - 1], TransportList[k]) ELSE f[k - 1]]
             main == CHOOSE f : Main(f, N)
  <1>1. filterToEnabled(whitelist, b, i, websocket) = main[N]
    BY Zenon DEF filterToEnabled
  <1>2. N \in Nat /\ \A k \in 1..N : TransportList[k] \in TransportNames
    BY Names, ElementOfSeq
  <1> HIDE DEF N, takes
  <1> DEFINE T == {n \in Nat: n <= N => \E f: Main(f, n)}
  <1>3. 0 \in T
    <2> DEFINE f == [k \in 0..0 |-> <<>>]
    <2>1. Main(f, 0)
      OBVIOUS
    <2> QED  BY <2>1
  <1>4. ASSUME NEW n \in Nat, n \in T PROVE n + 1 \in T
    <2> SUFFICES ASSUME n + 1 <= N PROVE \E f: Main(f, n + 1)
      OBVIOUS
    <2>1. PICK f: Main(f, n)
      BY <1>2, <1>4
    <2> DEFINE m == n + 1
               g == [k \in 0..m |-> IF k = m
                        THEN IF takes(TransportList[m]) THEN Append(f[n], TransportList[m]) ELSE f[n]
                        ELSE f[k]]
    <2>2. \A k \in 0..n: g[k] = f[k]
      OBVIOUS
    <2>3. \A k \in 0..m: k # 0 => k - 1 \in 0..n
      OBVIOUS
    <2>4. \A k \in 0..m: g[k] = IF k = 0 THEN <<>>
               ELSE IF takes(TransportList[k]) THEN Append(g[k - 1], TransportList[k]) ELSE g[k - 1]
      <3> TAKE k \in 0..m
      <3>1. CASE k = m
        BY <2>2, <2>3, <3>1
      <3>2. CASE k \in 0..n
        <4>1. g[k] = f[k]
          BY <3>2
        <4>2. k # 0 => g[k - 1] = f[k - 1]
          BY <3>2, <2>2
        <4> QED  BY <2>1, <3>2, <4>1, <4>2
      <3> QED  BY <3>1, <3>2
    <2>5. Main(g, m)
      BY <2>4
    <2> QED  BY <2>5
  <1>5. Main(main, N)
    <2>1. Nat \subseteq T
      BY <1>3, <1>4, Counting
    <2>2. \E f: Main(f, N)
      BY <1>2, <2>1
    <2> QED  BY <2>2
  <1> HIDE DEF main
  <1> DEFINE U == {n \in Nat: n <= N => main[n] \in Seq(TransportNames)}
  <1>6. 0 \in U
    BY <1>2, <1>5, EmptyTyped
  <1>7. ASSUME NEW n \in Nat, n \in U PROVE n + 1 \in U
    <2> SUFFICES ASSUME n + 1 <= N PROVE main[n + 1] \in Seq(TransportNames)
      OBVIOUS
    <2>1. main[n] \in Seq(TransportNames)
      BY <1>2, <1>7
    <2>2. main[n + 1] = IF takes(TransportList[n + 1]) THEN Append(main[n], TransportList[n + 1]) ELSE main[n]
      <3> DEFINE m == n + 1
      <3>1. m \in 0..N /\ m # 0 /\ m - 1 = n
        BY <1>2
      <3>2. \A k \in 0..N: k # 0 =>
              main[k] = IF takes(TransportList[k]) THEN Append(main[k - 1], TransportList[k]) ELSE main[k - 1]
        BY <1>5, Zenon
      <3> HIDE DEF m
      <3>3. main[m] = IF takes(TransportList[m]) THEN Append(main[m - 1], TransportList[m]) ELSE main[m - 1]
        BY <3>1, <3>2
      <3> QED  BY <3>1, <3>3 DEF m
    <2>3. TransportList[n + 1] \in TransportNames
      BY <1>2
    <2> QED  BY <2>1, <2>2, <2>3, AppendTyped
  <1> QED
    <2>1. Nat \subseteq U
      BY <1>6, <1>7, Counting
    <2> QED  BY <1>1, <1>2, <2>1

-----------------------------------------------------------------------------
(* What the user sees. *)

LEMMA EventKinds ==
  ASSUME NEW e \in Events
  PROVE  /\ IsMessage(e) <=> e \notin {<<"open">>, <<"error">>, <<"close">>}
         /\ IsMessage(e) => e[2] \in Messages
  BY DEF Events, IsMessage

LEMMA MessageMade ==
  ASSUME NEW m \in Messages
  PROVE  <<"message", m>> \in Events /\ IsMessage(<<"message", m>>) /\ <<"message", m>>[2] = m
  BY DEF Events, IsMessage

LEMMA TurnsMade == {<<"open">>, <<"error">>, <<"close">>} \subseteq Events
  BY DEF Events

LEMMA LegalTold ==
  ASSUME NEW s \in {CONNECTING, OPEN, CLOSING}, NEW q \in Seq(Events), Api!Legal(s, q),
         NEW r \in Seq(Events), \A i \in DOMAIN r: IsMessage(r[i])
  PROVE  Api!Legal(s, q \o r)
  <1>1. /\ q \o r \in Seq(Events) /\ Len(q \o r) = Len(q) + Len(r)
        /\ DOMAIN (q \o r) = 1..(Len(q) + Len(r)) /\ DOMAIN q = 1..Len(q) /\ DOMAIN r = 1..Len(r)
        /\ \A i \in 1..Len(q): (q \o r)[i] = q[i]
        /\ \A i \in 1..Len(r): (q \o r)[Len(q) + i] = r[i]
    BY ConcatProperties, LenProperties
  <1>2. \A i \in 1..Len(r): r[i] \notin {<<"open">>, <<"error">>, <<"close">>}
    BY <1>1, EventKinds, ElementOfSeq
  <1>3. \A turn \in {"open", "error", "close"}: \A i \in DOMAIN (q \o r):
           (q \o r)[i] = <<turn>> => i \in DOMAIN q /\ q[i] = <<turn>>
    <2> SUFFICES ASSUME NEW turn \in {"open", "error", "close"}, NEW i \in DOMAIN (q \o r),
                        (q \o r)[i] = <<turn>>
                 PROVE  i \in DOMAIN q /\ q[i] = <<turn>>
      OBVIOUS
    <2>1. CASE i \in DOMAIN q
      BY <1>1, <2>1
    <2>2. CASE i \notin DOMAIN q
      <3>1. i - Len(q) \in 1..Len(r) /\ i = Len(q) + (i - Len(q))
        BY <1>1, <2>2, LenProperties
      <3>2. (q \o r)[i] = r[i - Len(q)]
        BY <1>1, <3>1
      <3> QED  BY <1>2, <3>1, <3>2
    <2> QED  BY <2>1, <2>2
  <1>4. \A turn \in {"open", "error", "close"}: \A i \in DOMAIN q: q[i] = <<turn>> =>
           i \in DOMAIN (q \o r) /\ (q \o r)[i] = <<turn>>
    BY <1>1, LenProperties
  <1>5. \A turn \in {"open", "error", "close"}:
           {i \in DOMAIN (q \o r): (q \o r)[i] = <<turn>>} = {i \in DOMAIN q: q[i] = <<turn>>}
    BY <1>3, <1>4
  <1>6. {i \in DOMAIN q: q[i] = <<"close">>} = {}
    BY DEF Api!Legal, Api!CONNECTING, Api!OPEN, Api!CLOSED, CONNECTING, OPEN, CLOSING
  <1>7. {i \in DOMAIN q: q[i] = <<"error">>} = {}
    <2>1. DOMAIN << <<"error">>, <<"close">> >> = {1, 2} /\ << <<"error">>, <<"close">> >>[2] = <<"close">>
      OBVIOUS
    <2> QED  BY <1>6, <2>1 DEF Api!Legal
  <1> QED  BY <1>5, <1>6, <1>7 DEF Api!Legal, Api!CONNECTING, Api!OPEN, Api!CLOSED, CONNECTING, OPEN, CLOSING

LEMMA LegalOpen ==
  ASSUME NEW q \in Seq(Events), Api!Legal(CONNECTING, q)
  PROVE  Api!Legal(OPEN, Append(q, <<"open">>))
  <1> DEFINE r == Append(q, <<"open">>)
  <1>1. /\ r \in Seq(Events) /\ Len(r) = Len(q) + 1 /\ DOMAIN r = 1..Len(q) + 1 /\ DOMAIN q = 1..Len(q)
        /\ \A i \in 1..Len(q): r[i] = q[i]
        /\ r[Len(q) + 1] = <<"open">> /\ Len(q) \in Nat
    BY AppendProperties, LenProperties, TurnsMade
  <1>2. \A turn \in {"open", "error", "close"}: \A i \in DOMAIN q: q[i] # <<turn>>
    <2>1. {i \in DOMAIN q: q[i] = <<"close">>} = {} /\ {i \in DOMAIN q: q[i] = <<"open">>} = {}
      BY DEF Api!Legal, Api!CONNECTING, Api!OPEN, Api!CLOSED, CONNECTING, OPEN
    <2>2. DOMAIN << <<"error">>, <<"close">> >> = {1, 2} /\ << <<"error">>, <<"close">> >>[2] = <<"close">>
      OBVIOUS
    <2>3. {i \in DOMAIN q: q[i] = <<"error">>} = {}
      BY <2>1, <2>2 DEF Api!Legal
    <2> QED  BY <2>1, <2>3
  <1>3. {i \in DOMAIN r: r[i] = <<"open">>} = {Len(q) + 1}
    BY <1>1, <1>2
  <1>4. {i \in DOMAIN r: r[i] = <<"error">>} = {} /\ {i \in DOMAIN r: r[i] = <<"close">>} = {}
    BY <1>1, <1>2
  <1> QED  BY <1>3, <1>4 DEF Api!Legal, Api!CONNECTING, Api!OPEN, Api!CLOSED, CONNECTING, OPEN, CLOSING

LEMMA LegalClosing ==
  ASSUME NEW s \in {CONNECTING, OPEN}, NEW q, Api!Legal(s, q)
  PROVE  Api!Legal(CLOSING, q)
  BY DEF Api!Legal, Api!CONNECTING, Api!OPEN, Api!CLOSED, CONNECTING, OPEN, CLOSING

LEMMA LegalClose ==
  ASSUME NEW q \in Seq(Events), Api!Legal(CLOSING, q)
  PROVE  Api!Legal(CLOSED, Append(q, <<"close">>))
  <1> DEFINE r == Append(q, <<"close">>)
  <1>1. /\ r \in Seq(Events) /\ Len(r) = Len(q) + 1 /\ DOMAIN r = 1..Len(q) + 1 /\ DOMAIN q = 1..Len(q)
        /\ \A i \in 1..Len(q): r[i] = q[i]
        /\ r[Len(q) + 1] = <<"close">> /\ Len(q) \in Nat
    BY AppendProperties, LenProperties, TurnsMade
  <1>2. \A turn \in {"error", "close"}: \A i \in DOMAIN q: q[i] # <<turn>>
    <2>1. {i \in DOMAIN q: q[i] = <<"close">>} = {}
      BY DEF Api!Legal, Api!CONNECTING, Api!OPEN, Api!CLOSED, CLOSING
    <2>2. DOMAIN << <<"error">>, <<"close">> >> = {1, 2} /\ << <<"error">>, <<"close">> >>[2] = <<"close">>
      OBVIOUS
    <2>3. {i \in DOMAIN q: q[i] = <<"error">>} = {}
      BY <2>1, <2>2 DEF Api!Legal
    <2> QED  BY <2>1, <2>3
  <1>3. {i \in DOMAIN r: r[i] = <<"close">>} = {Len(r)} /\ {i \in DOMAIN r: r[i] = <<"error">>} = {}
    BY <1>1, <1>2
  <1>4. {i \in DOMAIN r: r[i] = <<"open">>} = {i \in DOMAIN q: q[i] = <<"open">>}
    BY <1>1
  <1>5. \A i, j \in {i \in DOMAIN q: q[i] = <<"open">>}: i = j
    BY DEF Api!Legal
  <1>6. \A turn \in {"open", "error", "close"}: \A i, j \in {k \in DOMAIN r: r[k] = <<turn>>}: i = j
    <2> TAKE turn \in {"open", "error", "close"}
    <2>1. CASE turn = "open"
      BY <1>4, <1>5, <2>1
    <2>2. CASE turn # "open"
      BY <1>3, <2>2
    <2> QED  BY <2>1, <2>2
  <1> HIDE DEF r
  <1>7. {i \in DOMAIN r: r[i] = <<"close">>} # {}
    BY <1>3
  <1>8. CLOSED # CONNECTING /\ CLOSED # OPEN
    BY DEF CONNECTING, OPEN, CLOSED
  <1>9. Api!CONNECTING = CONNECTING /\ Api!OPEN = OPEN /\ Api!CLOSED = CLOSED
    BY DEF Api!CONNECTING, Api!OPEN, Api!CLOSED, CONNECTING, OPEN, CLOSED
  <1>10. Api!Legal(CLOSED, r)
    BY <1>3, <1>6, <1>7, <1>8, <1>9, Zenon DEF Api!Legal
  <1> QED  BY <1>10 DEF r

LEMMA LegalError == Api!Legal(CLOSED, << <<"error">>, <<"close">> >>)
  <1> DEFINE r == << <<"error">>, <<"close">> >>
  <1>1. DOMAIN r = {1, 2} /\ r[1] = <<"error">> /\ r[2] = <<"close">> /\ Len(r) = 2
    OBVIOUS
  <1>2. /\ {i \in DOMAIN r: r[i] = <<"close">>} = {2} /\ {i \in DOMAIN r: r[i] = <<"error">>} = {1}
        /\ {i \in DOMAIN r: r[i] = <<"open">>} = {}
    BY <1>1
  <1> QED  BY <1>1, <1>2 DEF Api!Legal, Api!CONNECTING, Api!OPEN, Api!CLOSED, CLOSED

LEMMA GrowsTransitive ==
  ASSUME NEW x \in Parts, NEW y \in Parts, NEW z \in Parts, Grows(x, y), Grows(y, z)
  PROVE  Grows(x, z)
  <1>1. /\ x.sock.readyState \in CONNECTING..CLOSED /\ y.sock.readyState \in CONNECTING..CLOSED
        /\ x.sock.events \in Seq(Events) /\ y.sock.events \in Seq(Events) /\ z.sock.events \in Seq(Events)
    BY Fields DEF Sockets
  <1>2. /\ Len(x.sock.events) \in Nat /\ Len(y.sock.events) \in Nat /\ Len(z.sock.events) \in Nat
    BY <1>1, LenProperties
  <1> DEFINE q == x.sock.events
             r == y.sock.events
             u == z.sock.events
  <1>3. /\ Len(q) <= Len(r) /\ Len(r) <= Len(u)
        /\ \A i \in 1..Len(q): r[i] = q[i]
        /\ \A i \in 1..Len(r): u[i] = r[i]
    BY DEF Grows
  <1>4. y.sock.readyState \in x.sock.readyState..CLOSED /\ z.sock.readyState \in y.sock.readyState..CLOSED
    BY DEF Grows
  <1>5. z.sock.readyState \in x.sock.readyState..CLOSED
    BY <1>1, <1>4 DEF CONNECTING, CLOSED
  <1>6. Len(q) <= Len(u) /\ \A i \in 1..Len(q): u[i] = q[i]
    BY <1>2, <1>3
  <1>7. ASSUME NEW i \in (Len(q) + 1)..Len(u)
        PROVE  /\ IsMessage(u[i]) => x.sock.readyState < CLOSING
               /\ u[i] = <<"open">> => x.sock.readyState = CONNECTING
    <2>1. CASE i \in (Len(q) + 1)..Len(r)
      <3>1. u[i] = r[i]
        BY <1>2, <1>3, <2>1
      <3>2. /\ IsMessage(r[i]) => x.sock.readyState < CLOSING
            /\ r[i] = <<"open">> => x.sock.readyState = CONNECTING
        BY <2>1 DEF Grows
      <3> QED  BY <3>1, <3>2
    <2>2. CASE i \in (Len(r) + 1)..Len(u)
      <3>1. /\ IsMessage(u[i]) => y.sock.readyState < CLOSING
            /\ u[i] = <<"open">> => y.sock.readyState = CONNECTING
        BY <2>2 DEF Grows
      <3>2. x.sock.readyState <= y.sock.readyState /\ x.sock.readyState \in Nat /\ y.sock.readyState \in Nat
        BY <1>1, <1>4 DEF CONNECTING, CLOSED
      <3>3. y.sock.readyState = CONNECTING => x.sock.readyState = CONNECTING
        BY <3>2 DEF CONNECTING
      <3>4. y.sock.readyState < CLOSING => x.sock.readyState < CLOSING
        BY <3>2 DEF CLOSING
      <3> QED  BY <3>1, <3>3, <3>4
    <2> QED  BY <1>2, <1>3, <2>1, <2>2
  <1>8. x.sock.readyState = CLOSED => u = q
    BY <1>1, <1>4 DEF Grows, CONNECTING, CLOSED
  <1> QED  BY <1>5, <1>6, <1>7, <1>8 DEF Grows

LEMMA GrowsSame ==
  ASSUME NEW x \in Parts, NEW y \in Parts, y.sock.events = x.sock.events,
         y.sock.readyState \in x.sock.readyState..CLOSED
  PROVE  Grows(x, y)
  <1>1. Len(x.sock.events) \in Nat
    BY Fields, LenProperties DEF Sockets
  <1> QED  BY <1>1 DEF Grows

-----------------------------------------------------------------------------
(* What the operators of a transport leave alone. *)

LEMMA ScheduleKeeps ==
  ASSUME NEW e \in Engines
  PROVE  LET f == SendSchedule(e) IN
         /\ f.name = e.name /\ f.ears = e.ears /\ f.left = e.left /\ f.rcv = e.rcv /\ f.why = e.why
         /\ f.frame = e.frame /\ f.facade = e.facade /\ f.up = e.up /\ f.down = e.down
  BY DEF SendSchedule, Engines

LEMMA EngineSendKeeps ==
  ASSUME NEW e \in Engines, NEW m \in Said
  PROVE  LET f == EngineSend(e, m) IN
         /\ f.name = e.name /\ f.ears = e.ears /\ f.left = e.left /\ f.rcv = e.rcv /\ f.why = e.why
         /\ f.frame = e.frame /\ f.facade = e.facade /\ f.up = e.up /\ f.down = e.down
  <1>1. PICK a: a = [e EXCEPT !.flight = Append(@, m)]
    OBVIOUS
  <1>2. PICK b: b = [e EXCEPT !.buf = Append(@, m)]
    OBVIOUS
  <1>3. /\ a.name = e.name /\ a.ears = e.ears /\ a.left = e.left /\ a.rcv = e.rcv /\ a.why = e.why
        /\ a.frame = e.frame /\ a.facade = e.facade /\ a.up = e.up /\ a.down = e.down
    BY <1>1 DEF Engines
  <1>4. /\ b.name = e.name /\ b.ears = e.ears /\ b.left = e.left /\ b.rcv = e.rcv /\ b.why = e.why
        /\ b.frame = e.frame /\ b.facade = e.facade /\ b.up = e.up /\ b.down = e.down
    BY <1>2 DEF Engines
  <1>5. b \in Engines
    BY <1>2, AppendTyped DEF Engines
  <1>6. EngineSend(e, m) = IF Sender(e.name) = "ws" THEN a ELSE IF e.snd = "none" THEN SendSchedule(b) ELSE b
    BY <1>1, <1>2, Zenon DEF EngineSend
  <1> QED  BY <1>3, <1>4, <1>5, <1>6, ScheduleKeeps

LEMMA AbortKeeps ==
  ASSUME NEW e \in Engines
  PROVE  LET f == Abort(e) IN
         /\ f.name = e.name /\ f.ears = e.ears /\ f.snd = e.snd /\ f.buf = e.buf /\ f.flight = e.flight
         /\ f.frame = e.frame /\ f.facade = e.facade /\ f.up = e.up /\ f.down = e.down
         /\ \/ f.left = "early" /\ f.rcv = e.rcv
            \/ f.left = e.left /\ f.rcv = "none"
  BY DEF Abort, Engines

LEMMA StopKeeps ==
  ASSUME NEW e \in Engines
  PROVE  LET f == Stop(e) IN
         /\ f.name = e.name /\ f.ears = e.ears /\ f.rcv = e.rcv /\ f.buf = e.buf
         /\ f.frame = e.frame /\ f.facade = e.facade /\ f.up = e.up /\ f.down = e.down
         /\ \/ f.left = "early" /\ f.snd = e.snd /\ f.flight = e.flight
            \/ f.left = e.left /\ f.snd = "none" /\ f.flight \in {e.flight, <<>>}
         /\ Sender(e.name) # "ajax" => f.left = e.left \/ e.snd = "scheduled"
         /\ e.snd # "inflight" => f.flight = e.flight
  BY DEF Stop, Engines

LEMMA EngineCloseKeeps ==
  ASSUME NEW e \in Engines
  PROVE  LET f == EngineClose(e) IN
         /\ f.name = e.name /\ f.ears = e.ears /\ f.buf = e.buf
         /\ f.frame = e.frame /\ f.facade = e.facade /\ f.up = e.up /\ f.down = e.down
         /\ f.left = e.left => f.rcv = "none" \/ e.left = "early"
         /\ f.left = e.left => f.snd = "none" \/ e.left = "early"
         /\ f.left \in {e.left, "early"}
         /\ f.rcv \in {e.rcv, "none"} /\ f.snd \in {e.snd, "none"}
         /\ f.flight \in {e.flight, <<>>} /\ (f.flight # e.flight => f.snd = "none")
         /\ e.snd # "inflight" => f.flight = e.flight
  <1>1. Abort(e) \in Engines
    BY AbortTyped
  <1> QED  BY <1>1, AbortKeeps, StopKeeps DEF EngineClose

LEMMA TransportCloseKeeps ==
  ASSUME NEW e \in Engines
  PROVE  LET f == TransportClose(e) IN
         /\ ~f.ears /\ f.name = e.name /\ f.facade = e.facade /\ f.down = e.down /\ f.buf = e.buf
         /\ IF ~Framed(e.name)
            THEN LET c == EngineClose(e) IN
                 /\ f.left = c.left /\ f.rcv = c.rcv /\ f.snd = c.snd /\ f.flight = c.flight
                 /\ f.frame = c.frame /\ f.up = c.up
            ELSE /\ f.left = e.left /\ f.rcv = e.rcv /\ f.snd = e.snd /\ f.flight = e.flight
                 /\ IF e.frame \notin {"loading", "booted", "up"} THEN f.frame = e.frame /\ f.up = e.up
                    ELSE f.frame = "removing" /\ f.up = Append(e.up, [type |-> "c"])
  <1>1. EngineClose(e) \in Engines /\ EngineClose(e).name = e.name /\ EngineClose(e).buf = e.buf
    BY EngineCloseTyped, EngineCloseKeeps
  <1>2. EngineClose(e).facade = e.facade /\ EngineClose(e).down = e.down
    BY EngineCloseKeeps
  <1>3. PICK c \in Engines: c = EngineClose(e)
    BY <1>1
  <1>4. PICK a: a = [c EXCEPT !.ears = FALSE]
    OBVIOUS
  <1>5. PICK b: b = [e EXCEPT !.ears = FALSE]
    OBVIOUS
  <1>6. PICK d: d = [e EXCEPT !.ears = FALSE, !.frame = "removing", !.up = Append(@, [type |-> "c"])]
    OBVIOUS
  <1>7. TransportClose(e) = IF ~Framed(e.name) THEN a
                            ELSE IF e.frame \notin {"loading", "booted", "up"} THEN b ELSE d
    BY <1>3, <1>4, <1>5, <1>6, Zenon DEF TransportClose
  <1>8. /\ ~a.ears /\ a.name = c.name /\ a.facade = c.facade /\ a.down = c.down /\ a.buf = c.buf /\ a.left = c.left
        /\ a.rcv = c.rcv /\ a.snd = c.snd /\ a.flight = c.flight /\ a.frame = c.frame /\ a.up = c.up
    BY <1>4 DEF Engines
  <1>9. /\ ~b.ears /\ b.name = e.name /\ b.facade = e.facade /\ b.down = e.down /\ b.buf = e.buf /\ b.left = e.left
        /\ b.rcv = e.rcv /\ b.snd = e.snd /\ b.flight = e.flight /\ b.frame = e.frame /\ b.up = e.up
    BY <1>5 DEF Engines
  <1>10. /\ ~d.ears /\ d.name = e.name /\ d.facade = e.facade /\ d.down = e.down /\ d.buf = e.buf /\ d.left = e.left
         /\ d.rcv = e.rcv /\ d.snd = e.snd /\ d.flight = e.flight /\ d.frame = "removing"
         /\ d.up = Append(e.up, [type |-> "c"])
    BY <1>6 DEF Engines
  <1> QED  BY <1>1, <1>2, <1>3, <1>7, <1>8, <1>9, <1>10

LEMMA SendKeeps ==
  ASSUME NEW e \in Engines, NEW m \in Said
  PROVE  LET f == TransportSend(e, m) IN
         /\ f.name = e.name /\ f.ears = e.ears /\ f.left = e.left /\ f.rcv = e.rcv /\ f.why = e.why
         /\ f.frame = e.frame /\ f.facade = e.facade /\ f.down = e.down
         /\ IF Framed(e.name)
            THEN f.up = Append(e.up, [type |-> "m", m |-> m]) /\ f.buf = e.buf /\ f.flight = e.flight /\ f.snd = e.snd
            ELSE f.up = e.up /\ f.buf = EngineSend(e, m).buf /\ f.flight = EngineSend(e, m).flight
                 /\ f.snd = EngineSend(e, m).snd
  <1>1. PICK a: a = [e EXCEPT !.up = Append(@, [type |-> "m", m |-> m])]
    OBVIOUS
  <1>2. /\ a.name = e.name /\ a.ears = e.ears /\ a.left = e.left /\ a.rcv = e.rcv /\ a.why = e.why
        /\ a.frame = e.frame /\ a.facade = e.facade /\ a.down = e.down
        /\ a.up = Append(e.up, [type |-> "m", m |-> m]) /\ a.buf = e.buf /\ a.flight = e.flight /\ a.snd = e.snd
    BY <1>1 DEF Engines
  <1>3. TransportSend(e, m) = IF Framed(e.name) THEN a ELSE EngineSend(e, m)
    BY <1>1, Zenon DEF TransportSend
  <1> QED  BY <1>2, <1>3, EngineSendKeeps

-----------------------------------------------------------------------------
(* What the operators of the socket change, and the phases it goes through. *)

LEMMA ToldFields ==
  ASSUME NEW x \in Parts, NEW e
  PROVE  LET y == dispatchEvent(x, e) IN
         /\ y.tr = x.tr /\ y.left = x.left /\ y.srv = x.srv
         /\ y.sock.readyState = x.sock.readyState /\ y.sock.ir = x.sock.ir /\ y.sock.info = x.sock.info
         /\ y.sock.transports = x.sock.transports /\ y.sock.transport = x.sock.transport
         /\ y.sock.timer = x.sock.timer /\ y.sock.stale = x.sock.stale /\ y.sock.closes = x.sock.closes
         /\ y.sock.said = x.sock.said /\ y.sock.events = Append(x.sock.events, e)
  BY DEF dispatchEvent, Parts, Sockets

\* send of an open socket.
LEMMA SendFields ==
  ASSUME NEW x \in Parts
  PROVE  LET y == send(x) IN
         /\ y.left = x.left /\ y.srv = x.srv
         /\ y.sock.readyState = x.sock.readyState /\ y.sock.ir = x.sock.ir /\ y.sock.info = x.sock.info
         /\ y.sock.transports = x.sock.transports /\ y.sock.transport = x.sock.transport
         /\ y.sock.timer = x.sock.timer /\ y.sock.stale = x.sock.stale /\ y.sock.closes = x.sock.closes
         /\ y.sock.events = x.sock.events
         /\ \/ y.tr = x.tr /\ y.sock.said = x.sock.said
            \/ /\ x.sock.readyState = OPEN /\ x.sock.said + 1 \in Said
               /\ y.tr = TransportSend(x.tr, x.sock.said + 1) /\ y.sock.said = x.sock.said + 1
  <1>1. CASE ~ (x.sock.readyState = OPEN /\ x.sock.said < MaxSaid)
    BY <1>1 DEF send
  <1>2. CASE x.sock.readyState = OPEN /\ x.sock.said < MaxSaid
    <2>1. x.sock.said + 1 \in Said
      BY <1>2, Fields, BoundsAssumption DEF Sockets, Said
    <2>2. PICK t: t = TransportSend(x.tr, x.sock.said + 1)
      OBVIOUS
    <2>3. send(x) = [x EXCEPT !.sock.said = @ + 1, !.tr = t]
      BY <1>2, <2>2, Zenon DEF send
    <2> QED  BY <1>2, <2>1, <2>2, <2>3 DEF Parts, Sockets
  <1> QED  BY <1>1, <1>2

LEMMA HandlerKeeps ==
  ASSUME NEW x \in Parts, NEW does
  PROVE  LET y == Handler(x, does) IN
         /\ y.srv = x.srv /\ y.left = x.left /\ y.sock.events = x.sock.events
         /\ y.sock.readyState \in {x.sock.readyState, CLOSING}
         /\ y.sock.transports = x.sock.transports
         /\ y.sock.readyState # x.sock.readyState => x.sock.readyState \in {CONNECTING, OPEN}
  <1>1. Handler(x, does) \in {x, send(x), close(x)} /\ close(x) \in {x, _close(x)}
    BY DEF Handler, close
  <1>2. x.sock.readyState \in {CLOSING, CLOSED} => close(x) = x
    BY DEF close
  <1>3. Closing(x.sock) \in Sockets /\ x.sock \in Sockets
    BY Fields, ClosingFields
  <1>4. PICK s \in Sockets: s = IF x.sock.readyState = CLOSED THEN x.sock ELSE Closing(x.sock)
    BY <1>3
  <1>5. /\ s.events = x.sock.events /\ s.transports = x.sock.transports
        /\ x.sock.readyState # CLOSED => s.readyState = CLOSING
        /\ x.sock.readyState = CLOSED => s.readyState = CLOSED
    BY <1>3, <1>4, ClosingFields
  <1>6. /\ _close(x).sock.events = x.sock.events /\ _close(x).sock.transports = x.sock.transports
        /\ x.sock.readyState # CLOSED => _close(x).sock.readyState = CLOSING
        /\ x.sock.readyState = CLOSED => _close(x).sock.readyState = CLOSED
        /\ _close(x).srv = x.srv /\ _close(x).left = x.left
    BY <1>4, <1>5, CloseFields, SilencedFields
  <1>7. x.sock.readyState \in {CONNECTING, OPEN, CLOSING, CLOSED}
    BY <1>3 DEF Sockets, CONNECTING, OPEN, CLOSING, CLOSED
  <1> QED  BY <1>1, <1>2, <1>6, <1>7, SendFields

LEMMA Around ==
  ASSUME NEW x \in Parts, Phase(x), x.sock.readyState \in {CONNECTING, OPEN}
  PROVE  UnderWay(x)
  BY DEF Phase, UnderWay, CONNECTING, OPEN, CLOSING

LEMMA CloseMoves ==
  ASSUME NEW x \in Parts, UnderWay(x)
  PROVE  _close(x) \in Parts /\ Phase(_close(x)) /\ Grows(x, _close(x))
  <1>1. /\ x.sock.readyState \in {CONNECTING, OPEN} /\ x.sock.closes = <<>> /\ x.sock.ir \in BOOLEAN
        /\ x.sock.info \in {"scheduled", "asking", "done", "zombie"}
    BY Fields DEF UnderWay, Sockets
  <1>2. x.sock.readyState # CLOSED /\ Closing(x.sock) \in Sockets /\ x.sock \in Sockets
    BY <1>1, Fields, ClosingFields DEF CONNECTING, OPEN, CLOSED
  <1>3. PICK s \in Sockets: s = Closing(x.sock)
    BY <1>2
  <1>4. PICK y \in Parts: y = _close(x)
    BY CloseFields
  <1>5. /\ y.sock = Silenced(s) /\ y.left = x.left /\ y.srv = x.srv
        /\ y.tr = IF x.sock.transport THEN TransportClose(x.tr) ELSE x.tr
    BY <1>2, <1>3, <1>4, CloseFields
  <1>6. /\ y.sock.readyState = CLOSING /\ ~y.sock.ir /\ ~y.sock.transport /\ ~y.sock.timer /\ y.sock.stale = 0
        /\ y.sock.closes = <<x.sock.ir>> /\ y.sock.events = x.sock.events
        /\ y.sock.info = IF ~x.sock.ir THEN x.sock.info ELSE IF x.sock.info = "scheduled" THEN "zombie" ELSE "done"
    BY <1>1, <1>2, <1>3, <1>5, SilencedFields, ClosingFields
  <1>7. ~y.tr.ears
    BY <1>5, Fields, TransportCloseKeeps DEF UnderWay
  <1>8. y.sock.info \notin {"scheduled", "asking"}
    BY <1>1, <1>6 DEF UnderWay
  <1>9. Api!Legal(CLOSING, y.sock.events)
    BY <1>1, <1>6, LegalClosing DEF UnderWay
  <1>10. CLOSING \notin {CONNECTING, OPEN} /\ CLOSING \in x.sock.readyState..CLOSED
    BY <1>1 DEF CONNECTING, OPEN, CLOSING, CLOSED
  <1>11. <<x.sock.ir>> \in {<<TRUE>>, <<FALSE>>} /\ (<<x.sock.ir>> = <<TRUE>> => x.sock.ir)
    BY <1>1
  <1>12. x.sock.ir => y.sock.events = <<>>
    BY <1>6 DEF UnderWay
  <1>13. Phase(y)
    <2>1. ~ (y.sock.timer \/ y.sock.stale > 0)
      BY <1>6
    <2>2. y.sock.closes \in (IF y.sock.readyState = CLOSING THEN {<<TRUE>>, <<FALSE>>} ELSE {<<>>})
      BY <1>6, <1>11
    <2>3. y.sock.closes = <<TRUE>> => y.sock.events = <<>>
      BY <1>6, <1>11, <1>12
    <2> QED  BY <1>6, <1>7, <1>8, <1>9, <1>10, <2>1, <2>2, <2>3 DEF Phase
  <1>14. Grows(x, y)
    BY <1>6, <1>10, GrowsSame
  <1> QED  BY <1>4, <1>13, <1>14

LEMMA ConnectMoves ==
  ASSUME NEW x \in Parts, UnderWay(x), x.sock.readyState = CONNECTING, ~x.sock.ir
  PROVE  _connect(x) \in Parts /\ Phase(_connect(x)) /\ Grows(x, _connect(x))
  <1>1. CASE x.sock.transports = <<>>
    BY <1>1, CloseMoves DEF _connect
  <1>2. CASE x.sock.transports # <<>>
    <2>1. PICK y \in Parts: y = _connect(x)
      BY ConnectTyped
    <2>2. /\ y.tr = NewTransport(Head(x.sock.transports)) /\ y.sock = Attempting(x.sock) /\ x.sock \in Sockets
      BY <1>2, <2>1, ConnectFields, Fields
    <2>3. /\ y.sock.readyState = CONNECTING /\ ~y.sock.ir /\ y.sock.transport
          /\ y.sock.closes = <<>> /\ y.sock.events = x.sock.events /\ y.sock.info = x.sock.info
      BY <1>2, <2>2, AttemptingFields DEF UnderWay
    <2>4. y.tr.ears
      BY <2>2 DEF NewTransport
    <2>5. CONNECTING # CLOSING /\ CONNECTING \in x.sock.readyState..CLOSED /\ <<>> # <<TRUE>>
      BY DEF CONNECTING, CLOSING, CLOSED
    <2>6. y.sock.info \notin {"scheduled", "asking"} /\ Api!Legal(CONNECTING, y.sock.events)
      BY <2>3 DEF UnderWay
    <2>7. Phase(y)
      BY <2>3, <2>4, <2>5, <2>6 DEF Phase
    <2> QED  BY <2>1, <2>3, <2>5, <2>7, GrowsSame
  <1> QED  BY <1>1, <1>2

LEMMA HandlerMoves ==
  ASSUME NEW x \in Parts, Phase(x), NEW does
  PROVE  /\ Handler(x, does) \in Parts /\ Phase(Handler(x, does)) /\ Grows(x, Handler(x, does))
         /\ Phase(send(x)) /\ Grows(x, send(x)) /\ Phase(close(x)) /\ Grows(x, close(x))
  <1>1. x.sock.readyState \in {CONNECTING, OPEN, CLOSING, CLOSED} /\ x.sock.readyState \in x.sock.readyState..CLOSED
    BY Fields DEF Sockets, CONNECTING, OPEN, CLOSING, CLOSED
  <1>2. Grows(x, x)
    BY <1>1, GrowsSame
  <1>3. Phase(close(x)) /\ Grows(x, close(x))
    BY <1>1, <1>2, Around, CloseMoves DEF close
  <1>4. PICK y \in Parts: y = send(x)
    BY UserTyped
  <1>5. y.tr.ears = x.tr.ears
    <2>1. \A m \in Said: TransportSend(x.tr, m).ears = x.tr.ears
      BY Fields, SendKeeps
    <2> QED  BY <1>4, <2>1, SendFields
  <1>6. x.sock.ir => y.tr = x.tr
    BY <1>4, SendFields DEF Phase, CONNECTING, OPEN
  <1>7. Phase(y)
    BY <1>4, <1>5, <1>6, SendFields DEF Phase
  <1>8. Grows(x, y)
    BY <1>1, <1>4, SendFields, GrowsSame
  <1> QED  BY <1>2, <1>3, <1>4, <1>7, <1>8, UserTyped DEF Handler

\* Messages told to a socket that has not ended.
LEMMA GrowsOn ==
  ASSUME NEW x \in Parts, NEW y \in Parts, NEW z \in Parts, Grows(x, y), x.sock.readyState < CLOSING,
         NEW r \in Seq(Events), \A i \in 1..Len(r): IsMessage(r[i]),
         z.sock.events = y.sock.events \o r, z.sock.readyState = y.sock.readyState
  PROVE  Grows(x, z)
  <1>1. x.sock.events \in Seq(Events) /\ y.sock.events \in Seq(Events) /\ x.sock.readyState \in 0..3
    BY Fields DEF Sockets, CONNECTING, CLOSED
  <1> DEFINE p == x.sock.events
             q == y.sock.events
             u == z.sock.events
  <1>2. /\ Len(p) \in Nat /\ Len(q) \in Nat /\ Len(r) \in Nat /\ Len(u) = Len(q) + Len(r)
        /\ \A i \in 1..Len(q): u[i] = q[i]
        /\ \A i \in Len(q) + 1..Len(u): u[i] = r[i - Len(q)] /\ i - Len(q) \in 1..Len(r)
    BY <1>1, ConcatProperties, LenProperties
  <1>3. /\ y.sock.readyState \in x.sock.readyState..CLOSED
        /\ Len(p) <= Len(q) /\ \A i \in 1..Len(p): q[i] = p[i]
        /\ \A i \in (Len(p) + 1)..Len(q): q[i] = <<"open">> => x.sock.readyState = CONNECTING
    BY DEF Grows
  <1>4. z.sock.readyState \in x.sock.readyState..CLOSED /\ x.sock.readyState # CLOSED
    BY <1>1, <1>3 DEF CLOSING, CLOSED
  <1>5. Len(p) <= Len(u) /\ \A i \in 1..Len(p): u[i] = p[i]
    BY <1>2, <1>3
  <1>6. ASSUME NEW i \in (Len(p) + 1)..Len(u), u[i] = <<"open">>
        PROVE  x.sock.readyState = CONNECTING
    <2>1. CASE i \in 1..Len(q)
      BY <1>2, <1>3, <1>6, <2>1
    <2>2. CASE i \in (Len(q) + 1)..Len(u)
      <3>1. u[i] = r[i - Len(q)] /\ IsMessage(u[i]) /\ u[i] \in Events
        BY <1>2, <2>2, ElementOfSeq
      <3> QED  BY <1>6, <3>1, EventKinds
    <2> QED  BY <1>2, <2>1, <2>2
  <1> QED  BY <1>4, <1>5, <1>6 DEF Grows

LEMMA PhaseTold ==
  ASSUME NEW x \in Parts, Phase(x), x.sock.readyState \in {CONNECTING, OPEN, CLOSING},
         x.sock.closes # <<TRUE>>, ~x.sock.ir,
         NEW r \in Seq(Events), \A i \in 1..Len(r): IsMessage(r[i]),
         NEW y \in Parts, y = [x EXCEPT !.sock.events = @ \o r]
  PROVE  Phase(y)
  <1>1. /\ y.tr = x.tr
        /\ y.sock.readyState = x.sock.readyState /\ y.sock.ir = x.sock.ir /\ y.sock.info = x.sock.info
        /\ y.sock.transport = x.sock.transport
        /\ y.sock.timer = x.sock.timer /\ y.sock.stale = x.sock.stale /\ y.sock.closes = x.sock.closes
        /\ y.sock.events = x.sock.events \o r
    BY DEF Parts, Sockets
  <1>2. x.sock.events \in Seq(Events) /\ DOMAIN r = 1..Len(r)
    BY Fields, LenProperties DEF Sockets
  <1>3. Api!Legal(x.sock.readyState, x.sock.events \o r)
    BY <1>2, LegalTold DEF Phase
  <1> QED  BY <1>1, <1>3 DEF Phase

LEMMA OpenStep ==
  ASSUME NEW x \in Parts, Phase(x), x.sock.transport, NEW does, x.sock.readyState = CONNECTING
  PROVE  \E z \in Parts: /\ _open(x, does) = Handler(z, does)
                         /\ z.tr = x.tr /\ z.left = x.left /\ z.srv = x.srv /\ z.sock.readyState = OPEN
                         /\ z.sock.said = x.sock.said /\ z.sock.transports = x.sock.transports
                         /\ z.sock.events = Append(x.sock.events, <<"open">>)
                         /\ Phase(z) /\ Grows(x, z)
  <1>1. ~x.sock.ir /\ x.sock.closes = <<>> /\ x.sock \in Sockets
    BY Fields DEF Phase, CONNECTING, OPEN, CLOSING
  <1>2. PICK s \in Sockets: s = Opened(x.sock)
    BY Fields, OpenedFields
  <1>3. PICK y \in Parts: y = [x EXCEPT !.sock = s]
    BY DEF Parts
  <1>4. y.sock = s /\ y.tr = x.tr /\ y.left = x.left /\ y.srv = x.srv
    BY <1>3 DEF Parts
  <1>5. /\ s.readyState = OPEN /\ ~s.timer /\ s.stale = 0 /\ s.ir = x.sock.ir /\ s.info = x.sock.info
        /\ s.transport = x.sock.transport /\ s.closes = x.sock.closes /\ s.events = x.sock.events
        /\ s.said = x.sock.said /\ s.transports = x.sock.transports
    BY <1>1, <1>2, OpenedFields
  <1>6. PICK z \in Parts: z = dispatchEvent(y, <<"open">>)
    BY ToldTyped, TurnsMade
  <1>7. /\ z.tr = y.tr /\ z.left = y.left /\ z.srv = y.srv
        /\ z.sock.readyState = y.sock.readyState /\ z.sock.ir = y.sock.ir /\ z.sock.info = y.sock.info
        /\ z.sock.transport = y.sock.transport /\ z.sock.timer = y.sock.timer /\ z.sock.stale = y.sock.stale
        /\ z.sock.closes = y.sock.closes /\ z.sock.events = Append(y.sock.events, <<"open">>)
        /\ z.sock.said = y.sock.said /\ z.sock.transports = y.sock.transports
    BY <1>6, ToldFields
  <1>8. /\ z.tr = x.tr /\ z.left = x.left /\ z.srv = x.srv
        /\ z.sock.readyState = OPEN /\ ~z.sock.ir /\ z.sock.info = x.sock.info
        /\ z.sock.transport = x.sock.transport /\ ~z.sock.timer /\ z.sock.stale = 0 /\ z.sock.closes = <<>>
        /\ z.sock.said = x.sock.said /\ z.sock.transports = x.sock.transports
        /\ z.sock.events = Append(x.sock.events, <<"open">>)
    BY <1>1, <1>4, <1>5, <1>7
  <1>9. x.sock.events \in Seq(Events) /\ Api!Legal(CONNECTING, x.sock.events)
    BY <1>1 DEF Phase, Sockets
  <1>10. Api!Legal(OPEN, z.sock.events)
    BY <1>8, <1>9, LegalOpen
  <1>11. OPEN # CLOSING /\ OPEN # CONNECTING /\ OPEN \in x.sock.readyState..CLOSED /\ <<>> # <<TRUE>>
    BY DEF CONNECTING, OPEN, CLOSING, CLOSED
  <1>12. Phase(z)
    <2>1. z.sock.transport <=> z.tr.ears
      BY <1>8 DEF Phase
    <2>2. z.sock.transport <=> z.sock.readyState \in {CONNECTING, OPEN} /\ ~z.sock.ir
      BY <1>8
    <2>3. z.sock.info \notin {"scheduled", "asking"}
      BY <1>1, <1>8 DEF Phase
    <2>4. ~ (z.sock.timer \/ z.sock.stale > 0)
      BY <1>8
    <2> QED  BY <1>8, <1>10, <1>11, <2>1, <2>2, <2>3, <2>4 DEF Phase
  <1>13. Grows(x, z)
    <2>1. /\ Len(z.sock.events) = Len(x.sock.events) + 1
          /\ \A i \in 1..Len(x.sock.events): z.sock.events[i] = x.sock.events[i]
          /\ z.sock.events[Len(x.sock.events) + 1] = <<"open">> /\ Len(x.sock.events) \in Nat
      BY <1>8, <1>9, AppendProperties, LenProperties, TurnsMade
    <2>2. CONNECTING < CLOSING /\ CONNECTING # CLOSED
      BY DEF CONNECTING, CLOSING, CLOSED
    <2> QED  BY <1>8, <1>11, <2>1, <2>2 DEF Grows
  <1>14. _open(x, does) = Handler(z, does)
    BY <1>2, <1>3, <1>6, Zenon DEF _open
  <1> QED  BY <1>8, <1>12, <1>13, <1>14

LEMMA OpenMoves ==
  ASSUME NEW x \in Parts, Phase(x), x.sock.transport, NEW does
  PROVE  _open(x, does) \in Parts /\ Phase(_open(x, does)) /\ Grows(x, _open(x, does))
  <1>1. CASE x.sock.readyState # CONNECTING
    BY <1>1, Around, CloseMoves DEF _open, Phase
  <1>2. CASE x.sock.readyState = CONNECTING
    <2>1. PICK z \in Parts: _open(x, does) = Handler(z, does) /\ Phase(z) /\ Grows(x, z)
      BY <1>2, OpenStep
    <2>2. PICK w \in Parts: w = Handler(z, does) /\ Phase(w) /\ Grows(z, w)
      BY <2>1, UserTyped, HandlerMoves
    <2> QED  BY <2>1, <2>2, GrowsTransitive
  <1> QED  BY <1>1, <1>2

LEMMA AllToldFields ==
  ASSUME NEW x \in Parts, NEW msgs \in Seq(Messages), msgs # <<>>, NEW does
  PROVE  LET y == dispatchEvent(x, <<"message", Head(msgs)>>)
             z == Handler(y, does)
             rest == [i \in 1..Len(msgs) - 1 |-> <<"message", msgs[i + 1]>>]
         IN  /\ y \in Parts /\ z \in Parts /\ dispatchAll(x, msgs, does) = [z EXCEPT !.sock.events = @ \o rest]
             /\ dispatchAll(x, msgs, does) \in Parts
             /\ rest \in Seq(Events) /\ Len(rest) = Len(msgs) - 1
             /\ \A i \in 1..Len(rest): IsMessage(rest[i]) /\ rest[i][2] = msgs[i + 1]
             /\ Head(msgs) = msgs[1] /\ Head(msgs) \in Messages
  <1> DEFINE y == dispatchEvent(x, <<"message", Head(msgs)>>)
             z == Handler(y, does)
             rest == [i \in 1..Len(msgs) - 1 |-> <<"message", msgs[i + 1]>>]
  <1>1. Head(msgs) \in Messages /\ Head(msgs) = msgs[1] /\ Len(msgs) \in Nat \ {0}
    BY HeadTailProperties, LenProperties
  <1>2. \A i \in 1..Len(msgs) - 1: msgs[i + 1] \in Messages
    BY <1>1, ElementOfSeq
  <1>3. rest \in [1..Len(msgs) - 1 -> Events]
    BY <1>2, MessageMade
  <1>4. rest \in Seq(Events) /\ Len(rest) = Len(msgs) - 1
    <2>1. PICK n \in Nat: n = Len(msgs) - 1
      BY <1>1
    <2>2. rest \in [1..n -> Events]
      BY <1>3, <2>1
    <2> HIDE DEF rest
    <2>3. rest \in Seq(Events) /\ DOMAIN rest = 1..n
      BY <2>2, SeqDef
    <2>4. Len(rest) = n
      BY <2>1, <2>3, LenProperties
    <2> QED  BY <2>1, <2>3, <2>4
  <1>5. \A i \in 1..Len(rest): IsMessage(rest[i]) /\ rest[i][2] = msgs[i + 1]
    BY <1>2, <1>4, MessageMade
  <1>6. y \in Parts
    BY <1>1, MessageMade, ToldTyped
  <1>7. z \in Parts
    BY <1>6, UserTyped
  <1> HIDE DEF y, z, rest
  <1>8. [z EXCEPT !.sock.events = @ \o rest] \in Parts
    <2>1. z.sock.events \o rest \in Seq(Events)
      BY <1>4, <1>7, Fields, ConcatProperties DEF Sockets
    <2>2. [z.sock EXCEPT !.events = @ \o rest] \in Sockets
      BY <1>7, <2>1, Fields DEF Sockets
    <2> QED  BY <1>7, <2>2 DEF Parts
  <1>9. dispatchAll(x, msgs, does) = [z EXCEPT !.sock.events = @ \o rest]
    BY Zenon DEF dispatchAll, y, z, rest
  <1> QED  BY <1>1, <1>4, <1>5, <1>6, <1>7, <1>8, <1>9 DEF y, z, rest

\* The first message of a frame is told, the user does something, the rest is told.
AllTold(x, msgs, does, y, z, w) ==
    /\ y.tr = x.tr /\ y.left = x.left /\ y.srv = x.srv /\ y.sock.readyState = x.sock.readyState
    /\ y.sock.said = x.sock.said /\ y.sock.transports = x.sock.transports
    /\ y.sock.events = Append(x.sock.events, <<"message", Head(msgs)>>) /\ Phase(y)
    /\ z = Handler(y, does) /\ Phase(z)
    /\ w.tr = z.tr /\ w.left = z.left /\ w.srv = z.srv /\ w.sock.readyState = z.sock.readyState
    /\ w.sock.said = z.sock.said /\ w.sock.transports = z.sock.transports
    /\ w.sock.events = z.sock.events \o [i \in 1..Len(msgs) - 1 |-> <<"message", msgs[i + 1]>>]
    /\ Phase(w) /\ Grows(x, w) /\ w = dispatchAll(x, msgs, does)

LEMMA AllToldStep ==
  ASSUME NEW x \in Parts, Phase(x), x.sock.transport, NEW msgs \in Seq(Messages), msgs # <<>>, NEW does
  PROVE  \E y \in Parts, z \in Parts, w \in Parts: AllTold(x, msgs, does, y, z, w)
  <1>1. /\ x.sock.readyState \in {CONNECTING, OPEN} /\ ~x.sock.ir /\ x.sock.closes = <<>>
        /\ x.sock.readyState < CLOSING /\ x.sock.readyState \in x.sock.readyState..CLOSED
    BY DEF Phase, CONNECTING, OPEN, CLOSING, CLOSED
  <1> DEFINE m == <<"message", Head(msgs)>>
             rest == [i \in 1..Len(msgs) - 1 |-> <<"message", msgs[i + 1]>>]
  <1>2. PICK y \in Parts: y = dispatchEvent(x, m)
    BY AllToldFields
  <1>3. PICK z \in Parts: z = Handler(y, does)
    BY UserTyped
  <1>4. PICK w \in Parts: w = dispatchAll(x, msgs, does)
    BY AllToldFields
  <1>a. rest \in Seq(Events) /\ \A i \in 1..Len(rest): IsMessage(rest[i])
    BY AllToldFields, Zenon
  <1>7. m \in Events /\ IsMessage(m)
    BY AllToldFields, MessageMade
  <1>b. dispatchAll(x, msgs, does) = [Handler(dispatchEvent(x, m), does) EXCEPT !.sock.events = @ \o rest]
    BY Zenon DEF dispatchAll
  <1> HIDE DEF m, rest
  <1>5. PICK r \in Seq(Events): r = rest /\ \A i \in 1..Len(r): IsMessage(r[i])
    BY <1>a
  <1>6. w = [z EXCEPT !.sock.events = @ \o r]
    BY <1>b, <1>2, <1>3, <1>4, <1>5, Zenon
  <1>8. /\ y.tr = x.tr /\ y.sock.readyState = x.sock.readyState /\ y.sock.events = Append(x.sock.events, m)
        /\ y.left = x.left /\ y.srv = x.srv
        /\ y.sock.said = x.sock.said /\ y.sock.transports = x.sock.transports /\ x.sock.events \in Seq(Events)
    BY <1>2, ToldFields, Fields DEF Sockets
  <1>9. <<m>> \in Seq(Events) /\ Len(<<m>>) = 1 /\ <<m>>[1] = m /\ y.sock.events = x.sock.events \o <<m>>
    BY <1>7, <1>8, AppendIsConcat
  <1>10. y = [x EXCEPT !.sock.events = @ \o <<m>>]
    <2>1. x.sock.events \o <<m>> = Append(x.sock.events, m)
      BY <1>8, <1>9
    <2> QED  BY <1>2, <2>1 DEF dispatchEvent, Parts
  <1>11. Phase(y)
    <2>1. <<>> # <<TRUE>> /\ \A i \in 1..Len(<<m>>): IsMessage(<<m>>[i])
      BY <1>7, <1>9
    <2> QED  BY <1>1, <1>9, <1>10, <2>1, PhaseTold
  <1>12. Grows(x, y)
    <2>1. Grows(x, x)
      BY <1>1, GrowsSame
    <2>2. \A i \in 1..Len(<<m>>): IsMessage(<<m>>[i])
      BY <1>7, <1>9
    <2> QED  BY <1>1, <1>8, <1>9, <2>1, <2>2, GrowsOn
  <1>13. Phase(z) /\ Grows(x, z)
    BY <1>3, <1>11, <1>12, HandlerMoves, GrowsTransitive
  <1>14. z.sock.readyState \in {CONNECTING, OPEN, CLOSING} /\ z.sock.events # <<>> /\ z.sock.readyState # CLOSED
    <2>1. z.sock.readyState \in {x.sock.readyState, CLOSING} /\ z.sock.events = y.sock.events
      BY <1>3, <1>8, HandlerKeeps
    <2>2. y.sock.events # <<>>
      BY <1>7, <1>8, AppendProperties
    <2> QED  BY <1>1, <2>1, <2>2 DEF CONNECTING, OPEN, CLOSING, CLOSED
  <1>15. z.sock.closes # <<TRUE>> /\ ~z.sock.ir
    BY <1>13, <1>14 DEF Phase
  <1>16. Phase(w)
    BY <1>5, <1>6, <1>13, <1>14, <1>15, PhaseTold
  <1>17. /\ w.tr = z.tr /\ w.left = z.left /\ w.srv = z.srv /\ w.sock.readyState = z.sock.readyState
         /\ w.sock.said = z.sock.said /\ w.sock.transports = z.sock.transports
         /\ w.sock.events = z.sock.events \o r
    BY <1>6 DEF Parts, Sockets
  <1>18. Grows(x, w)
    BY <1>1, <1>5, <1>13, <1>17, GrowsOn
  <1>19. w.sock.events = z.sock.events \o [i \in 1..Len(msgs) - 1 |-> <<"message", msgs[i + 1]>>]
    BY <1>5, <1>17 DEF rest
  <1>20. y.sock.events = Append(x.sock.events, <<"message", Head(msgs)>>)
    BY <1>8 DEF m
  <1>21. AllTold(x, msgs, does, y, z, w)
    BY <1>3, <1>4, <1>8, <1>11, <1>13, <1>16, <1>17, <1>18, <1>19, <1>20 DEF AllTold
  <1> QED  BY <1>21

LEMMA AllToldMoves ==
  ASSUME NEW x \in Parts, Phase(x), x.sock.transport, NEW msgs \in Seq(Messages), msgs # <<>>, NEW does
  PROVE  Moves(x, dispatchAll(x, msgs, does))
  <1>1. PICK y \in Parts, z \in Parts, w \in Parts: AllTold(x, msgs, does, y, z, w)
    BY AllToldStep
  <1> QED  BY <1>1 DEF AllTold, Moves

LEMMA FrameKinds ==
  ASSUME NEW f \in Frames
  PROVE  f.type \in {"o", "h", "a", "c"} /\ (f.type = "a" => f.msgs \in Seq(Messages) /\ f.msgs # <<>>)
  BY DEF Frames

LEMMA Stays == ASSUME NEW x \in Parts, Phase(x) PROVE Moves(x, x)
  <1>1. x.sock.readyState \in x.sock.readyState..CLOSED
    BY Fields DEF Sockets, CONNECTING, CLOSED
  <1> QED  BY <1>1, GrowsSame DEF Moves

LEMMA MessageMoves ==
  ASSUME NEW x \in Parts, Phase(x), x.sock.transport, NEW frame \in Frames, NEW does
  PROVE  Moves(x, _transportMessage(x, frame, does))
  <1>1. UnderWay(x)
    BY Around DEF Phase
  <1>2. CASE frame.type = "o"
    BY <1>2, OpenMoves DEF _transportMessage, Moves
  <1>3. CASE frame.type = "h"
    BY <1>3, Stays DEF _transportMessage
  <1>4. CASE frame.type = "a"
    BY <1>4, FrameKinds, AllToldMoves DEF _transportMessage
  <1>5. CASE frame.type = "c"
    BY <1>1, <1>5, CloseMoves DEF _transportMessage, Moves
  <1> QED  BY <1>2, <1>3, <1>4, <1>5, FrameKinds

LEMMA DetachedTyped == ASSUME NEW s \in Sockets PROVE [s EXCEPT !.transport = FALSE] \in Sockets
  BY DEF Sockets
LEMMA DeafTyped == ASSUME NEW e \in Engines PROVE [e EXCEPT !.ears = FALSE] \in Engines
  BY DEF Engines

\* A transport that ended is let go.
LetGo(x) == IF x.sock.transport THEN [x EXCEPT !.sock.transport = FALSE, !.tr.ears = FALSE] ELSE x

LEMMA LetGoFields ==
  ASSUME NEW x \in Parts
  PROVE  LET y == LetGo(x) IN
         /\ y \in Parts /\ y.left = x.left /\ y.srv = x.srv /\ ~y.sock.transport
         /\ y.sock.readyState = x.sock.readyState /\ y.sock.ir = x.sock.ir /\ y.sock.info = x.sock.info
         /\ y.sock.transports = x.sock.transports /\ y.sock.timer = x.sock.timer /\ y.sock.stale = x.sock.stale
         /\ y.sock.closes = x.sock.closes /\ y.sock.said = x.sock.said /\ y.sock.events = x.sock.events
         /\ y.tr = IF x.sock.transport THEN [x.tr EXCEPT !.ears = FALSE] ELSE x.tr
         /\ x.sock.transport => ~y.tr.ears
  <1>1. CASE ~x.sock.transport
    BY <1>1 DEF LetGo
  <1>2. CASE x.sock.transport
    <2>1. [x.sock EXCEPT !.transport = FALSE] \in Sockets /\ [x.tr EXCEPT !.ears = FALSE] \in Engines
      BY Fields, DetachedTyped, DeafTyped
    <2>2. PICK s \in Sockets: s = [x.sock EXCEPT !.transport = FALSE]
      BY <2>1
    <2>3. PICK e \in Engines: e = [x.tr EXCEPT !.ears = FALSE]
      BY <2>1
    <2>4. LetGo(x) = [x EXCEPT !.sock = s, !.tr = e]
      BY <1>2, <2>2, <2>3 DEF LetGo, Parts
    <2>5. /\ ~s.transport /\ s.readyState = x.sock.readyState /\ s.ir = x.sock.ir /\ s.info = x.sock.info
          /\ s.transports = x.sock.transports /\ s.timer = x.sock.timer /\ s.stale = x.sock.stale
          /\ s.closes = x.sock.closes /\ s.said = x.sock.said /\ s.events = x.sock.events
      BY <2>2, Fields DEF Sockets
    <2>6. ~e.ears
      BY <2>3, Fields DEF Engines
    <2> QED  BY <1>2, <2>3, <2>4, <2>5, <2>6 DEF Parts
  <1> QED  BY <1>1, <1>2

LEMMA LetGoTyped ==
  ASSUME NEW x \in Parts
  PROVE  LetGo(x) \in Parts
  <1>1. PICK y \in Parts: y = LetGo(x)
    BY LetGoFields
  <1> QED  BY <1>1

LEMMA TransportEndMoves ==
  ASSUME NEW x \in Parts, Phase(x), x.sock.transport, NEW code
  PROVE  Moves(x, _transportClose(x, code))
  <1>1. PICK y \in Parts: y = LetGo(x)
    BY LetGoFields
  <1>2. /\ ~y.sock.transport /\ y.sock.readyState = x.sock.readyState /\ y.sock.ir = x.sock.ir
        /\ y.sock.info = x.sock.info /\ y.sock.timer = x.sock.timer /\ y.sock.stale = x.sock.stale
        /\ y.sock.closes = x.sock.closes /\ y.sock.events = x.sock.events /\ ~y.tr.ears
    BY <1>1, LetGoFields
  <1>3. UnderWay(x) /\ ~x.sock.ir
    BY Around DEF Phase
  <1>4. UnderWay(y)
    BY <1>2, <1>3 DEF UnderWay
  <1>5. x.sock.readyState \in x.sock.readyState..CLOSED
    BY Stays DEF Moves, Grows
  <1>6. Grows(x, y)
    BY <1>2, <1>5, GrowsSame
  <1>7. \/ x.sock.readyState = CONNECTING /\ _transportClose(x, code) = _connect(y)
        \/ _transportClose(x, code) = _close(y)
    BY <1>1 DEF _transportClose, LetGo
  <1>8. y.sock.readyState = CONNECTING => Moves(y, _connect(y))
    BY <1>2, <1>3, <1>4, ConnectMoves DEF Moves
  <1>9. Moves(y, _close(y))
    BY <1>4, CloseMoves DEF Moves
  <1> QED  BY <1>2, <1>6, <1>7, <1>8, <1>9, GrowsTransitive DEF Moves

-----------------------------------------------------------------------------
(* What the objects of a transport emit. *)

LEMMA NoneFields ==
  LET e == NoTransport IN
  /\ e.name = "none" /\ ~e.ears /\ e.left = "no" /\ e.rcv = "none" /\ e.why = "none" /\ e.snd = "none"
  /\ e.buf = <<>> /\ e.flight = <<>> /\ e.frame = "none" /\ e.facade = "none" /\ e.up = <<>> /\ e.down = <<>>
  <1>1. ~Framed("jsonp-polling")
    BY DEF Framed, FacadeTransport
  <1> QED  BY <1>1 DEF NoTransport, NewTransport

LEMMA WithTransport ==
  ASSUME NEW x \in Parts, NEW e \in Engines
  PROVE  LET y == [x EXCEPT !.tr = e] IN
         y \in Parts /\ y.tr = e /\ y.sock = x.sock /\ y.left = x.left /\ y.srv = x.srv
  BY DEF Parts

LEMMA WithSession ==
  ASSUME NEW x \in Parts, NEW s \in Sessions
  PROVE  LET y == [x EXCEPT !.srv = s] IN
         y \in Parts /\ y.srv = s /\ y.sock = x.sock /\ y.left = x.left /\ y.tr = x.tr
  BY DEF Parts

LEMMA WithSocket ==
  ASSUME NEW x \in Parts, NEW s \in Sockets
  PROVE  LET y == [x EXCEPT !.sock = s] IN
         y \in Parts /\ y.sock = s /\ y.tr = x.tr /\ y.left = x.left /\ y.srv = x.srv
  BY DEF Parts

LEMMA PhaseKept ==
  ASSUME NEW x \in Parts, Phase(x), NEW y \in Parts, y.sock = x.sock, y.tr.ears = x.tr.ears,
         x.sock.ir => y.tr = x.tr
  PROVE  Moves(x, y)
  <1>1. Phase(y)
    BY DEF Phase
  <1>2. Grows(x, y)
    BY Stays DEF Moves, Grows
  <1> QED  BY <1>1, <1>2 DEF Moves

LEMMA MovesOn ==
  ASSUME NEW x \in Parts, NEW y, Moves(x, y), NEW z, Moves(y, z)
  PROVE  Moves(x, z)
  BY GrowsTransitive DEF Moves

\* Something is posted to the page.
LEMMA PostedTyped ==
  ASSUME NEW e \in Engines, NEW d \in ToPage
  PROVE  LET f == postMessage(e, d) IN
         /\ f \in Engines /\ f.down = Append(e.down, d)
         /\ f.name = e.name /\ f.ears = e.ears /\ f.left = e.left /\ f.rcv = e.rcv /\ f.why = e.why
         /\ f.snd = e.snd /\ f.buf = e.buf /\ f.flight = e.flight /\ f.frame = e.frame
         /\ f.facade = e.facade /\ f.up = e.up
  <1>1. Append(e.down, d) \in Seq(ToPage)
    BY AppendTyped DEF Engines
  <1> QED  BY <1>1 DEF Engines, postMessage

\* The two ways of what is emitted: to the page or to the socket.
LEMMA EmitsMessage ==
  ASSUME NEW x \in Parts, NEW frame \in Frames, NEW does
  PROVE  LET y == EmitMessage(x, frame, does)
             d == [type |-> "t", frame |-> frame]
         IN  /\ \/ Framed(x.tr.name) /\ x.tr.facade = "hears" /\ y = [x EXCEPT !.tr = postMessage(x.tr, d)]
                \/ ~Framed(x.tr.name) /\ x.tr.ears /\ y = _transportMessage(x, frame, does)
                \/ y = x /\ (Framed(x.tr.name) => x.tr.facade # "hears") /\ (~Framed(x.tr.name) => ~x.tr.ears)
             /\ d \in ToPage
  BY DEF EmitMessage, ToPage

LEMMA EmitsClose ==
  ASSUME NEW x \in Parts, NEW code \in {1000, 1006}
  PROVE  LET y == EmitClose(x, code)
             d == [type |-> "c", code |-> code]
         IN  /\ \/ Framed(x.tr.name) /\ x.tr.facade = "hears" /\ y = [x EXCEPT !.tr = postMessage(x.tr, d)]
                \/ ~Framed(x.tr.name) /\ x.tr.ears /\ y = _transportClose(x, code)
                \/ y = x /\ (Framed(x.tr.name) => x.tr.facade # "hears") /\ (~Framed(x.tr.name) => ~x.tr.ears)
             /\ d \in ToPage
  BY DEF EmitClose, ToPage

LEMMA FramedNotInfo ==
  ASSUME NEW x \in Parts, Phase(x), Framed(x.tr.name)
  PROVE  ~x.sock.ir
  BY NoneFields DEF Phase, Framed, FacadeTransport

LEMMA EmitsToPage ==
  ASSUME NEW x \in Parts, Phase(x), Framed(x.tr.name), NEW d \in ToPage
  PROVE  Moves(x, [x EXCEPT !.tr = postMessage(x.tr, d)])
  <1>1. PICK e \in Engines: e = postMessage(x.tr, d)
    BY Fields, PostedTyped
  <1>2. e.ears = x.tr.ears
    BY <1>1, Fields, PostedTyped
  <1>3. PICK y \in Parts: y = [x EXCEPT !.tr = e]
    BY WithTransport
  <1>4. y.tr = e /\ y.sock = x.sock
    BY <1>3, WithTransport
  <1>5. Moves(x, y)
    BY <1>2, <1>4, FramedNotInfo, PhaseKept
  <1> QED  BY <1>1, <1>3, <1>5

LEMMA EmitMessageMoves ==
  ASSUME NEW x \in Parts, Phase(x), NEW frame \in Frames, NEW does
  PROVE  Moves(x, EmitMessage(x, frame, does))
  <1>1. x.tr.ears => x.sock.transport
    BY DEF Phase
  <1>2. x.tr.ears => Moves(x, _transportMessage(x, frame, does))
    BY <1>1, MessageMoves
  <1>3. [type |-> "t", frame |-> frame] \in ToPage
    BY EmitsMessage
  <1>4. PICK d \in ToPage: d = [type |-> "t", frame |-> frame]
    BY <1>3
  <1>5. Framed(x.tr.name) => Moves(x, [x EXCEPT !.tr = postMessage(x.tr, d)])
    BY EmitsToPage
  <1>6. Moves(x, x)
    BY Stays
  <1> QED  BY <1>2, <1>4, <1>5, <1>6, EmitsMessage, Zenon

LEMMA EmitCloseMoves ==
  ASSUME NEW x \in Parts, Phase(x), NEW code \in {1000, 1006}
  PROVE  Moves(x, EmitClose(x, code))
  <1>1. x.tr.ears => x.sock.transport
    BY DEF Phase
  <1> QED  BY <1>1, EmitsClose, EmitsToPage, TransportEndMoves, Stays

\* A receiver that ended.
LEMMA PollAgainFields ==
  ASSUME NEW x \in Parts
  PROVE  LET y == PollAgain(x) IN
         /\ y \in Parts /\ y.sock = x.sock /\ y.left = x.left /\ y.srv = x.srv
         /\ y.tr.name = x.tr.name /\ y.tr.ears = x.tr.ears /\ y.tr.left = x.tr.left
         /\ y.tr.rcv = IF x.tr.left = "early" THEN "none" ELSE "scheduled"
         /\ y.tr.snd = x.tr.snd /\ y.tr.buf = x.tr.buf /\ y.tr.flight = x.tr.flight /\ y.tr.frame = x.tr.frame
         /\ y.tr.facade = x.tr.facade /\ y.tr.up = x.tr.up /\ y.tr.down = x.tr.down
  <1>1. PICK r \in {"none", "scheduled"}: r = IF x.tr.left = "early" THEN "none" ELSE "scheduled"
    OBVIOUS
  <1>2. PICK e \in Engines: e = [x.tr EXCEPT !.rcv = r, !.why = "none"]
    <2>1. ASSUME NEW c \in Engines PROVE [c EXCEPT !.rcv = r, !.why = "none"] \in Engines
      BY DEF Engines
    <2> QED  BY <2>1, Fields, Zenon
  <1>3. PollAgain(x) = [x EXCEPT !.tr = e]
    BY <1>1, <1>2 DEF PollAgain, Parts
  <1>4. /\ e.name = x.tr.name /\ e.ears = x.tr.ears /\ e.left = x.tr.left /\ e.rcv = r
        /\ e.snd = x.tr.snd /\ e.buf = x.tr.buf /\ e.flight = x.tr.flight /\ e.frame = x.tr.frame
        /\ e.facade = x.tr.facade /\ e.up = x.tr.up /\ e.down = x.tr.down
    BY <1>2, Fields DEF Engines
  <1> QED  BY <1>1, <1>3, <1>4, WithTransport

\* The polling ends: the receiver is gone and the sender stopped.
Finished(e) == EngineClose([e EXCEPT !.rcv = "none", !.why = "none"])

LEMMA FinishedFields ==
  ASSUME NEW e \in Engines
  PROVE  LET f == Finished(e) IN
         /\ f \in Engines /\ f.name = e.name /\ f.ears = e.ears /\ f.buf = e.buf
         /\ f.frame = e.frame /\ f.facade = e.facade /\ f.up = e.up /\ f.down = e.down
         /\ f.rcv = "none" /\ (f.left = e.left => f.snd = "none" \/ e.left = "early")
         /\ f.left \in {e.left, "early"} /\ f.snd \in {e.snd, "none"}
         /\ f.flight \in {e.flight, <<>>} /\ (f.flight # e.flight => f.snd = "none")
         /\ e.snd # "inflight" => f.flight = e.flight
  <1>1. PICK c \in Engines: c = [e EXCEPT !.rcv = "none", !.why = "none"]
    BY DEF Engines
  <1>2. /\ c.name = e.name /\ c.ears = e.ears /\ c.left = e.left /\ c.rcv = "none" /\ c.snd = e.snd
        /\ c.buf = e.buf /\ c.flight = e.flight /\ c.frame = e.frame /\ c.facade = e.facade
        /\ c.up = e.up /\ c.down = e.down
    BY <1>1 DEF Engines
  <1>3. Finished(e) = EngineClose(c)
    BY <1>1 DEF Finished
  <1> QED  BY <1>2, <1>3, EngineCloseTyped, EngineCloseKeeps

LEMMA ReceiverEnds ==
  ASSUME NEW x \in Parts, NEW reason
  PROVE  \/ x.tr.rcv = "none" /\ ReceiverCloses(x, reason) = x
         \/ x.tr.rcv # "none" /\ reason = "network" /\ ReceiverCloses(x, reason) = PollAgain(x)
         \/ /\ x.tr.rcv # "none" /\ reason # "network"
            /\ ReceiverCloses(x, reason) = EmitClose([x EXCEPT !.tr = Finished(x.tr)], 1006)
  <1>1. PollGivesUp(x, 1006) = EmitClose([x EXCEPT !.tr = Finished(x.tr)], 1006)
    BY Zenon DEF PollGivesUp, Finished
  <1> QED  BY <1>1 DEF ReceiverCloses

LEMMA ReceiverClosesMoves ==
  ASSUME NEW x \in Parts, Phase(x), NEW reason
  PROVE  Moves(x, ReceiverCloses(x, reason))
  <1>1. CASE ReceiverCloses(x, reason) = x
    BY <1>1, Stays
  <1>2. x.tr.rcv # "none" => ~x.sock.ir
    BY NoneFields DEF Phase
  <1>3. CASE x.tr.rcv # "none" /\ ReceiverCloses(x, reason) = PollAgain(x)
    BY <1>2, <1>3, PollAgainFields, PhaseKept
  <1>4. CASE x.tr.rcv # "none" /\ ReceiverCloses(x, reason) = EmitClose([x EXCEPT !.tr = Finished(x.tr)], 1006)
    <2>1. PICK e \in Engines: e = Finished(x.tr) /\ e.ears = x.tr.ears
      BY Fields, FinishedFields
    <2>2. PICK y \in Parts: y = [x EXCEPT !.tr = e] /\ y.tr = e /\ y.sock = x.sock
      BY WithTransport
    <2>3. Moves(x, y)
      BY <1>2, <1>4, <2>1, <2>2, PhaseKept
    <2>4. Moves(y, EmitClose(y, 1006))
      BY <2>3, EmitCloseMoves DEF Moves
    <2>5. ReceiverCloses(x, reason) = EmitClose(y, 1006)
      BY <1>4, <2>1, <2>2
    <2> QED  BY <2>3, <2>4, <2>5, MovesOn
  <1> QED  BY <1>1, <1>3, <1>4, ReceiverEnds

LEMMA FrameEmitsMoves ==
  ASSUME NEW x \in Parts, Phase(x), NEW code
  PROVE  Moves(x, FrameEmits(x, code))
  BY TransportEndMoves, Stays DEF FrameEmits, Phase

LEMMA ReceiveInfoMoves ==
  ASSUME NEW x \in Parts, Phase(x), x.sock.ir, NEW got
  PROVE  Moves(x, _receiveInfo(x, got))
  <1> DEFINE list == filterToEnabled(place.whitelist, place.browser, place.info, place.websocket)
  <1>1. PICK q \in Seq(TransportNames): q = list
    BY FilterTyped
  <1> HIDE DEF list
  <1>2. PICK s \in Sockets: s = Informed(x.sock)
    BY Fields, InformedFields
  <1>3. /\ ~s.ir /\ s.info = "done" /\ s.readyState = x.sock.readyState /\ s.transport = x.sock.transport
        /\ s.timer = x.sock.timer /\ s.stale = x.sock.stale /\ s.closes = x.sock.closes /\ s.events = x.sock.events
    BY <1>2, Fields, InformedFields
  <1>4. PICK t \in Sockets: t = [s EXCEPT !.transports = q]
    BY DEF Sockets
  <1>5. /\ ~t.ir /\ t.info = "done" /\ t.readyState = s.readyState /\ t.transport = s.transport
        /\ t.timer = s.timer /\ t.stale = s.stale /\ t.closes = s.closes /\ t.events = s.events
    BY <1>3, <1>4 DEF Sockets
  <1>6. PICK y \in Parts: y = [x EXCEPT !.sock = s] /\ y.sock = s /\ y.tr = x.tr
    BY WithSocket
  <1>7. PICK z \in Parts: z = [x EXCEPT !.sock = t] /\ z.sock = t /\ z.tr = x.tr
    BY WithSocket
  <1>8. x.sock.readyState = CONNECTING /\ UnderWay(x)
    BY Around DEF Phase
  <1>9. UnderWay(y) /\ UnderWay(z)
    BY <1>3, <1>5, <1>6, <1>7, <1>8 DEF UnderWay
  <1>10. Grows(x, y) /\ Grows(x, z)
    <2>1. x.sock.readyState \in x.sock.readyState..CLOSED
      BY Stays DEF Moves, Grows
    <2> QED  BY <2>1, <1>3, <1>5, <1>6, <1>7, GrowsSame
  <1>11. _receiveInfo(x, got) = IF got THEN _connect(z) ELSE _close(y)
    BY <1>1, <1>2, <1>4, <1>6, <1>7, Zenon DEF _receiveInfo, list
  <1>12. Moves(y, _close(y))
    BY <1>9, CloseMoves DEF Moves
  <1>13. Moves(z, _connect(z))
    BY <1>3, <1>5, <1>7, <1>8, <1>9, ConnectMoves DEF Moves
  <1> QED  BY <1>10, <1>11, <1>12, <1>13, GrowsTransitive DEF Moves

\* What a message to the socket leaves alone.
LEMMA CloseKeeps ==
  ASSUME NEW x \in Parts
  PROVE  LET y == _close(x) IN
         /\ y.srv = x.srv /\ y.left = x.left /\ y.sock.transports = x.sock.transports
         /\ y.sock.events = x.sock.events /\ y.sock.said = x.sock.said
         /\ y.tr.name = x.tr.name /\ y.tr.facade = x.tr.facade /\ y.tr.down = x.tr.down
  <1>1. PICK s \in Sockets: s = IF x.sock.readyState = CLOSED THEN x.sock ELSE Closing(x.sock)
    BY Fields, ClosingFields
  <1>2. s.events = x.sock.events /\ s.transports = x.sock.transports /\ s.said = x.sock.said
    BY <1>1, Fields, ClosingFields
  <1>3. /\ _close(x).sock = Silenced(s) /\ _close(x).left = x.left /\ _close(x).srv = x.srv
        /\ _close(x).tr = IF x.sock.transport THEN TransportClose(x.tr) ELSE x.tr
    BY <1>1, CloseFields
  <1>4. /\ TransportClose(x.tr).name = x.tr.name /\ TransportClose(x.tr).facade = x.tr.facade
        /\ TransportClose(x.tr).down = x.tr.down
    BY Fields, TransportCloseKeeps
  <1> QED  BY <1>2, <1>3, <1>4, SilencedFields

LEMMA HandlerKeepsNames ==
  ASSUME NEW x \in Parts, NEW does
  PROVE  LET y == Handler(x, does) IN
         y.tr.name = x.tr.name /\ y.tr.facade = x.tr.facade /\ y.tr.down = x.tr.down
  <1>1. Handler(x, does) \in {x, send(x), close(x)} /\ close(x) \in {x, _close(x)}
    BY DEF Handler, close
  <1>2. \A m \in Said: LET f == TransportSend(x.tr, m)
                       IN  f.name = x.tr.name /\ f.facade = x.tr.facade /\ f.down = x.tr.down
    BY Fields, SendKeeps
  <1>3. send(x).tr.name = x.tr.name /\ send(x).tr.facade = x.tr.facade /\ send(x).tr.down = x.tr.down
    BY <1>2, SendFields
  <1> QED  BY <1>1, <1>3, CloseKeeps

LEMMA MessageKeeps ==
  ASSUME NEW x \in Parts, NEW frame \in Frames, NEW does
  PROVE  LET y == _transportMessage(x, frame, does) IN
         /\ y \in Parts /\ y.srv = x.srv /\ y.left = x.left /\ y.sock.transports = x.sock.transports
         /\ y.tr.name = x.tr.name /\ y.tr.facade = x.tr.facade /\ y.tr.down = x.tr.down
  <1> DEFINE Same(y) == /\ y \in Parts /\ y.srv = x.srv /\ y.left = x.left /\ y.sock.transports = x.sock.transports
                        /\ y.tr.name = x.tr.name /\ y.tr.facade = x.tr.facade /\ y.tr.down = x.tr.down
  <1>1. Same(x) /\ Same(_close(x))
    BY CloseKeeps, CloseFields
  <1>2. Same(_open(x, does))
    <2>1. CASE x.sock.readyState # CONNECTING
      BY <1>1, <2>1 DEF _open
    <2>2. CASE x.sock.readyState = CONNECTING
      <3>1. PICK s \in Sockets: s = Opened(x.sock) /\ s.transports = x.sock.transports
        BY Fields, OpenedFields
      <3>2. PICK y \in Parts: y = [x EXCEPT !.sock = s] /\ y.sock = s /\ y.tr = x.tr /\ y.left = x.left /\ y.srv = x.srv
        BY WithSocket
      <3>3. PICK z \in Parts: z = dispatchEvent(y, <<"open">>)
        BY ToldTyped, TurnsMade
      <3>4a. z.tr = y.tr /\ z.left = y.left /\ z.srv = y.srv /\ z.sock.transports = y.sock.transports
        BY <3>3, ToldFields
      <3>4. z.tr = x.tr /\ z.left = x.left /\ z.srv = x.srv /\ z.sock.transports = x.sock.transports
        BY <3>1, <3>2, <3>4a
      <3>5. _open(x, does) = Handler(z, does)
        BY <2>2, <3>1, <3>2, <3>3, Zenon DEF _open
      <3> QED  BY <3>4, <3>5, UserTyped, HandlerKeeps, HandlerKeepsNames
    <2> QED  BY <2>1, <2>2
  <1>3. ASSUME frame.type = "a" PROVE Same(dispatchAll(x, frame.msgs, does))
    <2>1. PICK msgs \in Seq(Messages): msgs = frame.msgs /\ msgs # <<>>
      BY <1>3, FrameKinds
    <2> DEFINE m == <<"message", Head(msgs)>>
               rest == [i \in 1..Len(msgs) - 1 |-> <<"message", msgs[i + 1]>>]
    <2>2. PICK y \in Parts: y = dispatchEvent(x, m)
      BY <2>1, AllToldFields
    <2>3. PICK z \in Parts: z = Handler(y, does)
      BY UserTyped
    <2>4. PICK w \in Parts: w = dispatchAll(x, msgs, does)
      BY <2>1, AllToldFields
    <2>5. dispatchAll(x, msgs, does) = [Handler(dispatchEvent(x, m), does) EXCEPT !.sock.events = @ \o rest]
      BY Zenon DEF dispatchAll
    <2> HIDE DEF m, rest
    <2>6. w = [z EXCEPT !.sock.events = @ \o rest]
      BY <2>2, <2>3, <2>4, <2>5, Zenon
    <2>7. w.tr = z.tr /\ w.left = z.left /\ w.srv = z.srv /\ w.sock.transports = z.sock.transports
      BY <2>6 DEF Parts, Sockets
    <2>8. y.tr = x.tr /\ y.left = x.left /\ y.srv = x.srv /\ y.sock.transports = x.sock.transports
      BY <2>2, ToldFields
    <2>9. /\ z.left = y.left /\ z.srv = y.srv /\ z.sock.transports = y.sock.transports
          /\ z.tr.name = y.tr.name /\ z.tr.facade = y.tr.facade /\ z.tr.down = y.tr.down
      BY <2>3, HandlerKeeps, HandlerKeepsNames
    <2> QED  BY <2>1, <2>4, <2>7, <2>8, <2>9
  <1> QED  BY <1>1, <1>2, <1>3, FrameKinds DEF _transportMessage

LEMMA EmitMessageKeeps ==
  ASSUME NEW x \in Parts, NEW frame \in Frames, NEW does
  PROVE  LET y == EmitMessage(x, frame, does) IN
         /\ y \in Parts /\ y.srv = x.srv /\ y.left = x.left /\ y.sock.transports = x.sock.transports
         /\ y.tr.name = x.tr.name /\ y.tr.facade = x.tr.facade
  <1>1. PICK d \in ToPage: d = [type |-> "t", frame |-> frame]
    BY EmitsMessage
  <1>2. PICK e \in Engines: e = postMessage(x.tr, d) /\ e.name = x.tr.name /\ e.facade = x.tr.facade
    BY Fields, PostedTyped
  <1>3. PICK z \in Parts: z = [x EXCEPT !.tr = e] /\ z.tr = e /\ z.sock = x.sock /\ z.left = x.left /\ z.srv = x.srv
    BY WithTransport
  <1>4. EmitMessage(x, frame, does) \in {z, _transportMessage(x, frame, does), x}
    BY <1>1, <1>2, <1>3, EmitsMessage
  <1>5. PICK w \in Parts: w = _transportMessage(x, frame, does)
    BY MessageKeeps
  <1>6. /\ w.srv = x.srv /\ w.left = x.left /\ w.sock.transports = x.sock.transports
        /\ w.tr.name = x.tr.name /\ w.tr.facade = x.tr.facade
    BY <1>5, MessageKeeps
  <1> QED  BY <1>2, <1>3, <1>4, <1>5, <1>6

\* One frame is taken from the wire.
Taken(x) == [x EXCEPT !.srv.wire = Tail(@)]
Arriving(x) == x.srv.wire # <<>> /\ Head(x.srv.wire) \in Frames

LEMMA TakenFields ==
  ASSUME NEW x \in Parts, x.srv.wire # <<>>
  PROVE  LET y == Taken(x) IN
         /\ y \in Parts /\ y.sock = x.sock /\ y.tr = x.tr /\ y.left = x.left
         /\ y.srv.state = x.srv.state /\ y.srv.queue = x.srv.queue /\ y.srv.wire = Tail(x.srv.wire)
         /\ y.srv.sent = x.srv.sent /\ y.srv.base = x.srv.base /\ y.srv.got = x.srv.got
  <1>1. Tail(x.srv.wire) \in Seq(OnWire)
    BY Fields, TailTyped DEF Sessions
  <1>2. PICK s \in Sessions: s = [x.srv EXCEPT !.wire = Tail(@)]
    <2>1. [x.srv EXCEPT !.wire = Tail(@)] \in Sessions
      BY <1>1, Fields DEF Sessions
    <2> QED  BY <2>1
  <1>3. Taken(x) = [x EXCEPT !.srv = s]
    BY <1>2 DEF Taken, Parts
  <1>4. /\ s.state = x.srv.state /\ s.queue = x.srv.queue /\ s.wire = Tail(x.srv.wire)
        /\ s.sent = x.srv.sent /\ s.base = x.srv.base /\ s.got = x.srv.got
    BY <1>2, Fields DEF Sessions
  <1> QED  BY <1>3, <1>4, WithSession

LEMMA TakeFields ==
  ASSUME NEW x \in Parts, Arriving(x), NEW does
  PROVE  LET z == Take(x, does)
             y == Taken(x)
         IN  /\ z = EmitMessage(y, Head(x.srv.wire), does) /\ y \in Parts /\ Head(x.srv.wire) \in Frames
             /\ z \in Parts /\ z.srv = y.srv /\ z.left = x.left /\ z.tr.name = x.tr.name
  <1>1. PICK y \in Parts: y = Taken(x) /\ y.tr = x.tr /\ y.left = x.left
    BY TakenFields DEF Arriving
  <1>2. PICK f \in Frames: f = Head(x.srv.wire)
    BY DEF Arriving
  <1>3. Take(x, does) = EmitMessage(y, f, does)
    BY <1>1, <1>2, Zenon DEF Take, Taken
  <1> QED  BY <1>1, <1>2, <1>3, EmitMessageKeeps

\* Several frames in one handler: what one frame keeps all of them keep, and y
\* has the rest of the wire.
Behind(x, n, y) == LET w == x.srv.wire IN
                   Len(y.srv.wire) = Len(w) - n /\ \A k \in 1..Len(w) - n: y.srv.wire[k] = w[k + n]

LEMMA Receiving ==
  ASSUME NEW I \in SUBSET Parts, NEW x \in I, NEW n \in 0..Len(x.srv.wire), NEW does,
         \A i \in 1..n: x.srv.wire[i].type # "end",
         \A y \in I: Arriving(y) => Take(y, does) \in I /\ Take(y, "nothing") \in I
  PROVE  Receive(x, n, does) \in I /\ Behind(x, n, Receive(x, n, does))
  <1> DEFINE Main(f) == f = [i \in 0..n |->
               IF i = 0 THEN x ELSE Take(f[i - 1], IF i = 1 THEN does ELSE "nothing")]
             after == CHOOSE f: Main(f)
             w == x.srv.wire
  <1>1. Receive(x, n, does) = after[n]
    BY Zenon DEF Receive
  <1>2. w \in Seq(OnWire) /\ Len(w) \in Nat /\ n \in Nat
    BY Fields, LenProperties DEF Sessions
  <1>3. \E f: Main(f)
    <2> DEFINE Part(f, m) == f = [i \in 0..m |->
                 IF i = 0 THEN x ELSE Take(f[i - 1], IF i = 1 THEN does ELSE "nothing")]
               T == {m \in Nat: \E f: Part(f, m)}
    <2>1. 0 \in T
      <3> DEFINE f == [i \in 0..0 |-> x]
      <3>1. Part(f, 0)
        OBVIOUS
      <3> QED  BY <3>1
    <2>2. ASSUME NEW m \in Nat, m \in T PROVE m + 1 \in T
      <3> SUFFICES \E f: Part(f, m + 1)
        OBVIOUS
      <3>1. PICK f: Part(f, m)
        BY <2>2
      <3> DEFINE k == m + 1
                 g == [i \in 0..k |-> IF i = k THEN Take(f[m], IF k = 1 THEN does ELSE "nothing") ELSE f[i]]
      <3>2. \A i \in 0..m: g[i] = f[i]
        OBVIOUS
      <3>3. \A i \in 0..k: i # 0 => i - 1 \in 0..m
        OBVIOUS
      <3>4. f[0] = x
        BY <3>1
      <3>5. \A i \in 0..k: g[i] = IF i = 0 THEN x ELSE Take(g[i - 1], IF i = 1 THEN does ELSE "nothing")
        <4> TAKE i \in 0..k
        <4>1. CASE i = k
          BY <3>2, <3>3, <4>1
        <4>2. CASE i \in 0..m
          <5>1. g[i] = f[i]
            BY <4>2
          <5>2. i # 0 => g[i - 1] = f[i - 1]
            BY <4>2, <3>2
          <5> QED  BY <3>1, <4>2, <5>1, <5>2
        <4> QED  BY <4>1, <4>2
      <3>6. Part(g, k)
        BY <3>5
      <3> QED  BY <3>6
    <2> HIDE DEF T
    <2>3. Nat \subseteq T
      BY <2>1, <2>2, Counting
    <2>4. n \in T
      BY <1>2, <2>3
    <2> QED  BY <2>4 DEF T
  <1>4. Main(after)
    BY <1>3
  <1> HIDE DEF after
  <1> DEFINE Has(m) == /\ after[m] \in I
                       /\ Len(after[m].srv.wire) = Len(w) - m
                       /\ \A k \in 1..Len(w) - m: after[m].srv.wire[k] = w[k + m]
             U == {m \in Nat: m <= n => Has(m)}
  <1>5. 0 \in U
    <2>1. after[0] = x
      BY <1>2, <1>4
    <2> QED  BY <1>2, <2>1
  <1>6. ASSUME NEW m \in Nat, m \in U PROVE m + 1 \in U
    <2> HIDE DEF Has
    <2> SUFFICES ASSUME m + 1 <= n PROVE Has(m + 1)
      OBVIOUS
    <2>0. Has(m)
      BY <1>2, <1>6
    <2> USE DEF Has
    <2>1. PICK y \in Parts: y = after[m]
      BY <2>0
    <2>2. /\ y \in I /\ Len(y.srv.wire) = Len(w) - m
          /\ \A k \in 1..Len(w) - m: y.srv.wire[k] = w[k + m]
      BY <2>0, <2>1
    <2>3. y.srv.wire \in Seq(OnWire) /\ y.srv.wire # <<>> /\ Len(w) - m >= 1
      BY <1>2, <2>2, Fields, EmptySeq DEF Sessions
    <2>4. Head(y.srv.wire) = w[m + 1] /\ w[m + 1] \in OnWire /\ w[m + 1].type # "end"
      BY <1>2, <2>2, <2>3, HeadTailProperties, ElementOfSeq
    <2>5. Arriving(y)
      BY <2>3, <2>4 DEF Arriving, OnWire
    <2>6. PICK d \in {does, "nothing"}: after[m + 1] = Take(y, d)
      <3> DEFINE k == m + 1
      <3>1. k \in 0..n /\ k # 0 /\ k - 1 = m
        BY <1>2
      <3>2. \A i \in 0..n: after[i] = IF i = 0 THEN x ELSE Take(after[i - 1], IF i = 1 THEN does ELSE "nothing")
        BY <1>4, Zenon
      <3> HIDE DEF k
      <3>3. after[k] = Take(after[k - 1], IF k = 1 THEN does ELSE "nothing")
        BY <3>1, <3>2
      <3> QED  BY <2>1, <3>1, <3>3 DEF k
    <2>7. Take(y, d) \in I
      BY <2>2, <2>5, <2>6
    <2>8. Take(y, d).srv.wire = Tail(y.srv.wire)
      BY <2>5, <2>3, TakeFields, TakenFields
    <2>9. Len(Tail(y.srv.wire)) = Len(y.srv.wire) - 1 /\ \A k \in 1..Len(y.srv.wire) - 1: Tail(y.srv.wire)[k] = y.srv.wire[k + 1]
      BY <2>3, HeadTailProperties
    <2> QED  BY <1>2, <2>2, <2>6, <2>7, <2>8, <2>9
  <1> HIDE DEF U
  <1> QED
    <2>1. Nat \subseteq U
      BY <1>5, <1>6, Counting
    <2>2. n \in U
      BY <1>2, <2>1
    <2>3. Has(n)
      BY <1>2, <2>2 DEF U
    <2> QED  BY <1>1, <2>3 DEF Behind

LEMMA TakeMoves ==
  ASSUME NEW x \in Parts, Phase(x), Arriving(x), NEW does
  PROVE  Moves(x, Take(x, does))
  <1>1. PICK y \in Parts: y = Taken(x) /\ y.sock = x.sock /\ y.tr = x.tr
    BY TakenFields DEF Arriving
  <1>2. Moves(x, y)
    BY <1>1, PhaseKept
  <1>3. PICK f \in Frames: f = Head(x.srv.wire)
    BY DEF Arriving
  <1>4. Take(x, does) = EmitMessage(y, f, does)
    BY <1>1, <1>3, TakeFields
  <1>5. Moves(y, EmitMessage(y, f, does))
    BY <1>2, EmitMessageMoves DEF Moves
  <1> QED  BY <1>2, <1>4, <1>5, MovesOn

LEMMA ReceiveMoves ==
  ASSUME NEW x \in Parts, Phase(x), NEW n \in 0..Len(x.srv.wire), NEW does,
         \A i \in 1..n: x.srv.wire[i].type # "end"
  PROVE  Moves(x, Receive(x, n, does))
  <1> DEFINE I == {y \in Parts: Moves(x, y)}
  <1>1. x \in I
    BY Stays
  <1>2. ASSUME NEW y \in I, Arriving(y), NEW d PROVE Take(y, d) \in I
    <2>1. y \in Parts /\ Moves(x, y)
      OBVIOUS
    <2>2. Moves(y, Take(y, d))
      BY <1>2, <2>1, TakeMoves DEF Moves
    <2>3. Moves(x, Take(y, d))
      BY <2>1, <2>2, MovesOn
    <2> QED  BY <2>3 DEF Moves
  <1> HIDE DEF I
  <1>3. I \in SUBSET Parts
    BY DEF I
  <1>4. Receive(x, n, does) \in I
    BY <1>1, <1>2, <1>3, Receiving
  <1> QED  BY <1>4 DEF I

-----------------------------------------------------------------------------
(* What a transport leaves running. *)

LEMMA EngineSendFields ==
  ASSUME NEW e \in Engines, NEW m \in Said
  PROVE  LET f == EngineSend(e, m) IN
         CASE Sender(e.name) = "ws" -> f.snd = e.snd /\ f.buf = e.buf /\ f.flight = Append(e.flight, m)
           [] Sender(e.name) # "ws" /\ e.snd # "none" ->
                f.snd = e.snd /\ f.buf = Append(e.buf, m) /\ f.flight = e.flight
           [] Sender(e.name) # "ws" /\ e.snd = "none" ->
                /\ f.snd = IF Sender(e.name) = "ajax" THEN "scheduled" ELSE "inflight"
                /\ f.buf = <<>> /\ f.flight = Append(e.buf, m)
  <1>1. PICK a: a = [e EXCEPT !.flight = Append(@, m)]
    OBVIOUS
  <1>2. PICK b \in Engines: b = [e EXCEPT !.buf = Append(@, m)]
    <2>1. [e EXCEPT !.buf = Append(@, m)] \in Engines
      BY AppendTyped DEF Engines
    <2> QED  BY <2>1
  <1>3. EngineSend(e, m) = IF Sender(e.name) = "ws" THEN a ELSE IF e.snd = "none" THEN SendSchedule(b) ELSE b
    BY <1>1, <1>2, Zenon DEF EngineSend
  <1>4. a.snd = e.snd /\ a.buf = e.buf /\ a.flight = Append(e.flight, m)
    BY <1>1 DEF Engines
  <1>5. b.snd = e.snd /\ b.buf = Append(e.buf, m) /\ b.flight = e.flight /\ b.name = e.name /\ b.buf # <<>>
    <2>1. Append(e.buf, m) # <<>>
      BY AppendProperties DEF Engines
    <2> QED  BY <1>2, <2>1 DEF Engines
  <1>6. /\ SendSchedule(b).flight = b.buf /\ SendSchedule(b).buf = <<>>
        /\ SendSchedule(b).snd = IF Sender(b.name) = "ajax" THEN "scheduled" ELSE "inflight"
    BY <1>5 DEF SendSchedule, Engines
  <1> QED  BY <1>3, <1>4, <1>5, <1>6

LEMMA NewTidy ==
  ASSUME NEW t \in TransportNames
  PROVE  LET e == NewTransport(t) IN
         /\ Tidy(e) /\ e.name = t /\ e.ears /\ e.left = "no" /\ e.snd = "none" /\ e.buf = <<>> /\ e.flight = <<>>
         /\ e.up = <<>> /\ e.down = <<>> /\ e.facade = "none"
         /\ e.rcv = (IF Framed(t) THEN "none" ELSE "scheduled") /\ e.frame = (IF Framed(t) THEN "loading" ELSE "none")
  <1>1. t # "none"
    BY Names
  <1> QED  BY <1>1 DEF NewTransport, Tidy

LEMMA TransportCloseTidy ==
  ASSUME NEW e \in Engines, Tidy(e), e.name # "none"
  PROVE  /\ Tidy(TransportClose(e))
         /\ Framed(e.name) /\ e.left = "no" => TransportClose(e).frame \in {"removing", "gone"}
         /\ ~Framed(e.name) => TransportClose(e).frame = "none"
  <1> DEFINE f == TransportClose(e)
             c == EngineClose(e)
  <1>1. /\ ~f.ears /\ f.name = e.name /\ f.facade = e.facade /\ f.down = e.down
        /\ IF ~Framed(e.name)
           THEN /\ f.left = c.left /\ f.rcv = c.rcv /\ f.snd = c.snd /\ f.frame = c.frame /\ f.up = c.up
           ELSE /\ f.left = e.left /\ f.rcv = e.rcv /\ f.snd = e.snd
                /\ IF e.frame \notin {"loading", "booted", "up"} THEN f.frame = e.frame ELSE f.frame = "removing"
    BY TransportCloseKeeps
  <1>2. /\ c.frame = e.frame /\ c.up = e.up /\ c.left \in {e.left, "early"} /\ c.snd \in {e.snd, "none"}
        /\ c.left = e.left => c.rcv = "none" \/ e.left = "early"
        /\ c.left = e.left => c.snd = "none" \/ e.left = "early"
    BY EngineCloseKeeps
  <1>3. e.frame \in {"none", "loading", "booted", "up", "removing", "gone"}
    BY DEF Engines
  <1> HIDE DEF f, c
  <1>4. CASE Framed(e.name)
    BY <1>1, <1>3, <1>4 DEF Tidy, f
  <1>5. CASE ~Framed(e.name)
    BY <1>1, <1>2, <1>5 DEF Tidy, f
  <1> QED  BY <1>4, <1>5

LEMMA SendTidy ==
  ASSUME NEW e \in Engines, Tidy(e), e.name # "none", e.ears, NEW m \in Said
  PROVE  Tidy(TransportSend(e, m)) /\ TransportSend(e, m).frame = e.frame /\ TransportSend(e, m).left = e.left
  <1> DEFINE f == TransportSend(e, m)
             c == EngineSend(e, m)
  <1>1. /\ f.name = e.name /\ f.ears = e.ears /\ f.left = e.left /\ f.rcv = e.rcv
        /\ f.frame = e.frame /\ f.facade = e.facade /\ f.down = e.down
        /\ Framed(e.name) => f.snd = e.snd
        /\ ~Framed(e.name) => f.up = e.up /\ f.snd = c.snd
    BY SendKeeps
  <1>2. Sender(e.name) = "ws" => c.snd = e.snd
    BY EngineSendFields
  <1> HIDE DEF f, c
  <1>3. Tidy(f)
    BY <1>1, <1>2 DEF Tidy
  <1> QED  BY <1>1, <1>3 DEF f

\* A transport that nobody stops any more has nothing to stop.
Over(e) == e.left = "no" => IF Framed(e.name) THEN e.frame \in {"removing", "gone"}
                            ELSE e.rcv = "none" /\ e.snd = "none"

LEMMA DeafTidy ==
  ASSUME NEW e \in Engines, Tidy(e), Over(e), e.name # "none", NEW f, f = [e EXCEPT !.ears = FALSE]
  PROVE  Tidy(f) /\ f.frame = e.frame /\ f.left = e.left /\ f.name = e.name
  <1>1. /\ f.name = e.name /\ ~f.ears /\ f.left = e.left /\ f.rcv = e.rcv /\ f.snd = e.snd /\ f.frame = e.frame
        /\ f.facade = e.facade /\ f.up = e.up /\ f.down = e.down
    BY DEF Engines
  <1>2. Tidy(f)
    BY <1>1 DEF Tidy, Over
  <1> QED  BY <1>1, <1>2

LEMMA EarsNamed ==
  ASSUME NEW e, Tidy(e), e.ears \/ Framed(e.name) \/ e.rcv # "none" \/ e.snd # "none" \/ e.frame # "none"
  PROVE  e.name # "none"
  BY NoneFields DEF Tidy, Framed, FacadeTransport

LEMMA CloseCalm ==
  ASSUME NEW x \in Parts, Calm(x), x.sock.transport => x.tr.ears, UnderWay(x)
  PROVE  Calm(_close(x))
  <1>1. PICK y \in Parts: y = _close(x)
    BY CloseFields
  <1>2. y.tr = IF x.sock.transport THEN TransportClose(x.tr) ELSE x.tr
    BY <1>1, CloseFields
  <1>3. Tidy(y.tr)
    BY <1>2, Fields, EarsNamed, TransportCloseTidy DEF Calm
  <1>4. y.sock.readyState # CLOSED
    <2>1. x.sock.readyState \in {CONNECTING, OPEN} /\ x.sock.readyState # CLOSED
      BY DEF UnderWay, CONNECTING, OPEN, CLOSED
    <2>2. y.sock.readyState = CLOSING
      <3>1. x.sock \in Sockets /\ Closing(x.sock) \in Sockets
        BY Fields, ClosingFields
      <3> QED  BY <1>1, <2>1, <3>1, CloseFields, SilencedFields, ClosingFields
    <2> QED  BY <2>2 DEF CLOSING, CLOSED
  <1> QED  BY <1>1, <1>3, <1>4 DEF Calm

LEMMA ConnectCalm ==
  ASSUME NEW x \in Parts, Calm(x), UnderWay(x), x.sock.readyState = CONNECTING
  PROVE  Calm(_connect(x))
  <1>1. CASE x.sock.transports = <<>>
    BY <1>1, CloseCalm DEF _connect, UnderWay
  <1>2. CASE x.sock.transports # <<>>
    <2>1. PICK t \in TransportNames: t = Head(x.sock.transports)
      BY <1>2, ConnectFields
    <2>2. _connect(x).tr = NewTransport(t)
      BY <1>2, <2>1, ConnectFields
    <2>3. Tidy(_connect(x).tr) /\ _connect(x).tr.frame # "removing"
      BY <2>2, NewTidy
    <2> QED  BY <2>3 DEF Calm
  <1> QED  BY <1>1, <1>2

LEMMA HandlerCalm ==
  ASSUME NEW x \in Parts, Phase(x), Calm(x), NEW does
  PROVE  Calm(Handler(x, does)) /\ Calm(send(x)) /\ Calm(close(x))
  <1>1. Calm(close(x))
    <2>1. x.sock.readyState \in {CONNECTING, OPEN, CLOSING, CLOSED}
      BY Fields DEF Sockets, CONNECTING, OPEN, CLOSING, CLOSED
    <2> QED  BY <2>1, Around, CloseCalm DEF close, Phase
  <1>2. Calm(send(x))
    <2>1. CASE send(x).tr = x.tr
      BY <2>1, SendFields DEF Calm
    <2>2. CASE x.sock.readyState = OPEN /\ x.sock.said + 1 \in Said /\ send(x).tr = TransportSend(x.tr, x.sock.said + 1)
      <3>1. x.tr.ears
        BY <2>2 DEF Phase, CONNECTING, OPEN
      <3>2. Tidy(send(x).tr)
        BY <2>2, <3>1, Fields, EarsNamed, SendTidy DEF Calm
      <3>3. send(x).sock.readyState # CLOSED
        BY <2>2, SendFields DEF OPEN, CLOSED
      <3> QED  BY <3>2, <3>3 DEF Calm
    <2> QED  BY <2>1, <2>2, SendFields
  <1> QED  BY <1>1, <1>2 DEF Handler

LEMMA MessageCalm ==
  ASSUME NEW x \in Parts, Phase(x), Calm(x), x.sock.transport, NEW frame \in Frames, NEW does
  PROVE  Calm(_transportMessage(x, frame, does))
  <1>1. UnderWay(x) /\ x.tr.ears /\ x.sock.readyState # CLOSED
    <2>1. x.sock.readyState \in {CONNECTING, OPEN} /\ x.tr.ears
      BY DEF Phase
    <2> QED  BY <2>1, Around DEF CONNECTING, OPEN, CLOSED
  <1>2. Calm(_close(x))
    BY <1>1, CloseCalm
  <1>3. CASE frame.type = "o"
    <2>1. CASE x.sock.readyState # CONNECTING
      BY <1>2, <1>3, <2>1 DEF _transportMessage, _open
    <2>2. CASE x.sock.readyState = CONNECTING
      <3>1. PICK z \in Parts: /\ _open(x, does) = Handler(z, does) /\ z.tr = x.tr /\ z.sock.readyState = OPEN
                              /\ Phase(z)
        BY <2>2, OpenStep
      <3>2. Calm(z)
        BY <3>1 DEF Calm, OPEN, CLOSED
      <3>3. Calm(Handler(z, does))
        BY <3>1, <3>2, HandlerCalm
      <3> QED  BY <1>3, <3>1, <3>3 DEF _transportMessage
    <2> QED  BY <2>1, <2>2
  <1>4. CASE frame.type = "h"
    BY <1>4 DEF _transportMessage
  <1>5. CASE frame.type = "a"
    <2>1. PICK msgs \in Seq(Messages): msgs = frame.msgs /\ msgs # <<>>
      BY <1>5, FrameKinds
    <2>2. PICK y \in Parts, z \in Parts, w \in Parts: AllTold(x, msgs, does, y, z, w)
      BY <2>1, AllToldStep
    <2>3. Calm(y) /\ Phase(y)
      BY <2>2 DEF Calm, AllTold
    <2>4. Calm(z)
      BY <2>2, <2>3, HandlerCalm DEF AllTold
    <2>5. Calm(w)
      BY <2>2, <2>4 DEF Calm, AllTold
    <2> QED  BY <1>5, <2>1, <2>2, <2>5 DEF _transportMessage, AllTold
  <1>6. CASE frame.type = "c"
    BY <1>2, <1>6 DEF _transportMessage
  <1> QED  BY <1>3, <1>4, <1>5, <1>6, FrameKinds

LEMMA LetGoUnderWay ==
  ASSUME NEW x \in Parts, Phase(x), x.sock.transport
  PROVE  UnderWay(LetGo(x)) /\ ~LetGo(x).sock.ir /\ ~LetGo(x).sock.transport
  <1>1. PICK y \in Parts: y = LetGo(x)
    BY LetGoFields
  <1>2. /\ ~y.sock.transport /\ y.sock.readyState = x.sock.readyState /\ y.sock.ir = x.sock.ir
        /\ y.sock.info = x.sock.info /\ y.sock.timer = x.sock.timer /\ y.sock.stale = x.sock.stale
        /\ y.sock.closes = x.sock.closes /\ y.sock.events = x.sock.events /\ ~y.tr.ears
    BY <1>1, LetGoFields
  <1>3. UnderWay(x) /\ ~x.sock.ir
    BY Around DEF Phase
  <1>4. UnderWay(y)
    BY <1>2, <1>3 DEF UnderWay
  <1> QED  BY <1>1, <1>2, <1>3, <1>4

LEMMA TransportEndCalm ==
  ASSUME NEW x \in Parts, Phase(x), Calm(x), x.sock.transport, Over(x.tr), NEW code
  PROVE  Calm(_transportClose(x, code))
  <1>1. PICK y \in Parts: y = LetGo(x)
    BY LetGoFields
  <1>2. UnderWay(y) /\ ~y.sock.ir /\ ~y.sock.transport /\ y.sock.readyState = x.sock.readyState
    BY <1>1, LetGoUnderWay, LetGoFields
  <1>3. y.tr = [x.tr EXCEPT !.ears = FALSE]
    BY <1>1, LetGoFields
  <1>4. x.tr \in Engines /\ Tidy(x.tr) /\ x.tr.name # "none"
    BY Fields, EarsNamed DEF Calm, Phase
  <1>5. Calm(y)
    <2>1. Tidy(y.tr) /\ y.tr.frame = x.tr.frame /\ y.tr.left = x.tr.left
      BY <1>3, <1>4, DeafTidy
    <2> QED  BY <1>2, <2>1 DEF Calm
  <1>6. \/ x.sock.readyState = CONNECTING /\ _transportClose(x, code) = _connect(y)
        \/ _transportClose(x, code) = _close(y)
    BY <1>1 DEF _transportClose, LetGo
  <1> QED  BY <1>2, <1>5, <1>6, CloseCalm, ConnectCalm

LEMMA PostedCalm ==
  ASSUME NEW x \in Parts, Calm(x), Framed(x.tr.name), NEW d \in ToPage
  PROVE  Calm([x EXCEPT !.tr = postMessage(x.tr, d)])
  <1>1. PICK e \in Engines: e = postMessage(x.tr, d)
    BY Fields, PostedTyped
  <1>2. /\ e.name = x.tr.name /\ e.ears = x.tr.ears /\ e.left = x.tr.left /\ e.rcv = x.tr.rcv
        /\ e.snd = x.tr.snd /\ e.frame = x.tr.frame
    BY <1>1, Fields, PostedTyped
  <1>3. x.tr.name # "none"
    BY EarsNamed DEF Calm
  <1>4. Tidy(e)
    BY <1>2, <1>3 DEF Calm, Tidy
  <1>5. PICK y \in Parts: y = [x EXCEPT !.tr = e] /\ y.tr = e /\ y.sock = x.sock
    BY WithTransport
  <1>6. Calm(y)
    BY <1>2, <1>4, <1>5 DEF Calm
  <1> QED  BY <1>1, <1>5, <1>6

LEMMA EmitMessageCalm ==
  ASSUME NEW x \in Parts, Phase(x), Calm(x), NEW frame \in Frames, NEW does
  PROVE  Calm(EmitMessage(x, frame, does))
  <1>1. x.tr.ears => Calm(_transportMessage(x, frame, does))
    BY MessageCalm DEF Phase
  <1>2. PICK d \in ToPage: d = [type |-> "t", frame |-> frame]
    BY EmitsMessage
  <1>3. Framed(x.tr.name) => Calm([x EXCEPT !.tr = postMessage(x.tr, d)])
    BY PostedCalm
  <1> QED  BY <1>1, <1>2, <1>3, EmitsMessage, Zenon

LEMMA EmitCloseCalm ==
  ASSUME NEW x \in Parts, Phase(x), Calm(x), ~Framed(x.tr.name) => Over(x.tr), NEW code \in {1000, 1006}
  PROVE  Calm(EmitClose(x, code))
  <1>0. x.tr.ears => x.sock.transport
    BY DEF Phase
  <1>1. x.tr.ears /\ ~Framed(x.tr.name) => Calm(_transportClose(x, code))
    BY <1>0, TransportEndCalm
  <1>2. PICK d \in ToPage: d = [type |-> "c", code |-> code]
    BY EmitsClose
  <1>3. Framed(x.tr.name) => Calm([x EXCEPT !.tr = postMessage(x.tr, d)])
    BY PostedCalm
  <1>4. \/ Framed(x.tr.name) /\ EmitClose(x, code) = [x EXCEPT !.tr = postMessage(x.tr, d)]
        \/ ~Framed(x.tr.name) /\ x.tr.ears /\ EmitClose(x, code) = _transportClose(x, code)
        \/ EmitClose(x, code) = x
    BY <1>2, EmitsClose
  <1> QED  BY <1>1, <1>3, <1>4

LEMMA FrameEmitsCalm ==
  ASSUME NEW x \in Parts, Phase(x), Calm(x), Over(x.tr), NEW code
  PROVE  Calm(FrameEmits(x, code))
  BY TransportEndCalm DEF FrameEmits, Phase

LEMMA FinishedTidy ==
  ASSUME NEW e \in Engines, Tidy(e), e.rcv # "none"
  PROVE  Tidy(Finished(e)) /\ (~Framed(e.name) => Over(Finished(e)))
  <1> DEFINE f == Finished(e)
  <1>1. /\ f.name = e.name /\ f.ears = e.ears
        /\ f.frame = e.frame /\ f.facade = e.facade /\ f.up = e.up /\ f.down = e.down
        /\ f.rcv = "none" /\ (f.left = e.left => f.snd = "none" \/ e.left = "early")
        /\ f.left \in {e.left, "early"} /\ f.snd \in {e.snd, "none"}
    BY FinishedFields
  <1>2. e.name # "none"
    BY EarsNamed
  <1> HIDE DEF f
  <1>3. ~Framed(e.name) => Over(f)
    BY <1>1 DEF Over
  <1>4. Tidy(f)
    BY <1>1, <1>2, <1>3 DEF Tidy, Over
  <1> QED  BY <1>3, <1>4 DEF f

LEMMA ReceiverClosesCalm ==
  ASSUME NEW x \in Parts, Phase(x), Calm(x), NEW reason
  PROVE  Calm(ReceiverCloses(x, reason))
  <1>1. CASE ReceiverCloses(x, reason) = x
    BY <1>1
  <1>2. CASE x.tr.rcv # "none" /\ ReceiverCloses(x, reason) = PollAgain(x)
    <2>1. PICK y \in Parts: y = PollAgain(x)
      BY PollAgainFields
    <2>2. /\ y.sock = x.sock /\ y.tr.name = x.tr.name /\ y.tr.ears = x.tr.ears /\ y.tr.left = x.tr.left
          /\ y.tr.snd = x.tr.snd /\ y.tr.frame = x.tr.frame
          /\ y.tr.facade = x.tr.facade /\ y.tr.up = x.tr.up /\ y.tr.down = x.tr.down
      BY <2>1, PollAgainFields
    <2>3. x.tr.name # "none" /\ x.tr.frame # "gone" /\ (~x.tr.ears /\ x.tr.left = "no" => Framed(x.tr.name))
      BY <1>2, EarsNamed DEF Calm, Tidy
    <2>4. Tidy(y.tr)
      BY <2>2, <2>3 DEF Calm, Tidy
    <2> QED  BY <1>2, <2>1, <2>2, <2>4 DEF Calm
  <1>3. CASE x.tr.rcv # "none" /\ ReceiverCloses(x, reason) = EmitClose([x EXCEPT !.tr = Finished(x.tr)], 1006)
    <2>1. PICK e \in Engines: e = Finished(x.tr)
      BY Fields, FinishedFields
    <2>2. e.name = x.tr.name /\ e.ears = x.tr.ears /\ e.frame = x.tr.frame /\ e.left \in {x.tr.left, "early"}
      BY <2>1, Fields, FinishedFields
    <2>3. Tidy(e) /\ (~Framed(e.name) => Over(e))
      BY <1>3, <2>1, <2>2, Fields, FinishedTidy DEF Calm
    <2>4. PICK y \in Parts: y = [x EXCEPT !.tr = e] /\ y.tr = e /\ y.sock = x.sock
      BY WithTransport
    <2>5. Calm(y)
      BY <2>2, <2>3, <2>4 DEF Calm
    <2>6. Phase(y)
      <3>1. ~x.sock.ir
        BY <1>3, NoneFields DEF Phase
      <3> QED  BY <2>2, <2>4, <3>1, PhaseKept DEF Moves
    <2>a. ~Framed(y.tr.name) => Over(y.tr)
      BY <2>3, <2>4
    <2>b. 1006 \in {1000, 1006}
      OBVIOUS
    <2>7. Calm(EmitClose(y, 1006))
      BY <2>a, <2>b, <2>5, <2>6, EmitCloseCalm
    <2> QED  BY <1>3, <2>1, <2>4, <2>7
  <1> QED  BY <1>1, <1>2, <1>3, ReceiverEnds

LEMMA TakeCalm ==
  ASSUME NEW x \in Parts, Phase(x), Calm(x), Arriving(x), NEW does
  PROVE  Calm(Take(x, does))
  <1>1. PICK y \in Parts: y = Taken(x) /\ y.sock = x.sock /\ y.tr = x.tr
    BY TakenFields DEF Arriving
  <1>2. Phase(y) /\ Calm(y)
    BY <1>1, PhaseKept DEF Moves, Calm
  <1>3. PICK f \in Frames: f = Head(x.srv.wire)
    BY DEF Arriving
  <1>4. Take(x, does) = EmitMessage(y, f, does)
    BY <1>1, <1>3, TakeFields
  <1> QED  BY <1>2, <1>4, EmitMessageCalm

LEMMA ReceiveCalm ==
  ASSUME NEW x \in Parts, Phase(x), Calm(x), NEW n \in 0..Len(x.srv.wire), NEW does,
         \A i \in 1..n: x.srv.wire[i].type # "end"
  PROVE  Calm(Receive(x, n, does))
  <1> DEFINE I == {y \in Parts: Phase(y) /\ Calm(y)}
  <1>1. x \in I
    OBVIOUS
  <1>2. ASSUME NEW y \in I, Arriving(y), NEW d PROVE Take(y, d) \in I
    <2>1. y \in Parts /\ Phase(y) /\ Calm(y)
      OBVIOUS
    <2> QED  BY <1>2, <2>1, TakeMoves, TakeCalm DEF Moves
  <1> HIDE DEF I
  <1>3. I \in SUBSET Parts
    BY DEF I
  <1>4. Receive(x, n, does) \in I
    BY <1>1, <1>2, <1>3, Receiving
  <1> QED  BY <1>4 DEF I

LEMMA ReceiveInfoCalm ==
  ASSUME NEW x \in Parts, Phase(x), Calm(x), x.sock.ir, NEW got
  PROVE  Calm(_receiveInfo(x, got))
  <1> DEFINE list == filterToEnabled(place.whitelist, place.browser, place.info, place.websocket)
  <1>1. PICK q \in Seq(TransportNames): q = list
    BY FilterTyped
  <1> HIDE DEF list
  <1>2. PICK s \in Sockets: s = Informed(x.sock)
    BY Fields, InformedFields
  <1>3. /\ ~s.ir /\ s.info = "done" /\ s.readyState = x.sock.readyState /\ s.transport = x.sock.transport
        /\ s.timer = x.sock.timer /\ s.stale = x.sock.stale /\ s.closes = x.sock.closes /\ s.events = x.sock.events
    BY <1>2, Fields, InformedFields
  <1>4. PICK t \in Sockets: t = [s EXCEPT !.transports = q]
    BY DEF Sockets
  <1>5. /\ ~t.ir /\ t.info = "done" /\ t.readyState = s.readyState /\ t.transport = s.transport
        /\ t.timer = s.timer /\ t.stale = s.stale /\ t.closes = s.closes /\ t.events = s.events
    BY <1>3, <1>4 DEF Sockets
  <1>6. PICK y \in Parts: y = [x EXCEPT !.sock = s] /\ y.sock = s /\ y.tr = x.tr
    BY WithSocket
  <1>7. PICK z \in Parts: z = [x EXCEPT !.sock = t] /\ z.sock = t /\ z.tr = x.tr
    BY WithSocket
  <1>8. x.sock.readyState = CONNECTING /\ UnderWay(x)
    BY Around DEF Phase
  <1>9. UnderWay(y) /\ UnderWay(z) /\ Calm(y) /\ Calm(z)
    BY <1>3, <1>5, <1>6, <1>7, <1>8 DEF UnderWay, Calm
  <1>11. _receiveInfo(x, got) = IF got THEN _connect(z) ELSE _close(y)
    BY <1>1, <1>2, <1>4, <1>6, <1>7, Zenon DEF _receiveInfo, list
  <1>12. y.sock.transport => y.tr.ears
    BY <1>3, <1>6 DEF Phase
  <1> QED  BY <1>3, <1>5, <1>7, <1>8, <1>9, <1>11, <1>12, CloseCalm, ConnectCalm

-----------------------------------------------------------------------------
(* What is on the wire. *)

LEMMA WireKept ==
  ASSUME NEW x \in Parts, Lasting(x), NEW y, y.srv \in {x.srv, NewSession(x.srv.sent)}
  PROVE  Lasting(y)
  BY DEF Lasting, NewSession

LEMMA ConnectKeeps ==
  ASSUME NEW x \in Parts
  PROVE  _connect(x).srv \in {x.srv, NewSession(x.srv.sent)} /\ _connect(x).left = x.left
  BY ConnectFields, CloseKeeps DEF _connect

LEMMA TransportEndKeeps ==
  ASSUME NEW x \in Parts, NEW code
  PROVE  _transportClose(x, code).srv \in {x.srv, NewSession(x.srv.sent)}
  <1>1. PICK y \in Parts: y = LetGo(x) /\ y.srv = x.srv
    BY LetGoFields
  <1>2. _transportClose(x, code) \in {_connect(y), _close(y)}
    BY <1>1 DEF _transportClose, LetGo
  <1>3. _connect(y).srv \in {y.srv, NewSession(y.srv.sent)}
    BY ConnectKeeps
  <1>4. _close(y).srv = y.srv
    BY CloseKeeps
  <1> QED  BY <1>1, <1>2, <1>3, <1>4

LEMMA EmitCloseKeeps ==
  ASSUME NEW x \in Parts, NEW code \in {1000, 1006}
  PROVE  EmitClose(x, code).srv \in {x.srv, NewSession(x.srv.sent)}
  <1>1. PICK d \in ToPage: d = [type |-> "c", code |-> code]
    BY EmitsClose
  <1>2. PICK e \in Engines: e = postMessage(x.tr, d)
    BY Fields, PostedTyped
  <1>a. [x EXCEPT !.tr = e] \in Parts
    BY WithTransport
  <1>3. PICK y \in Parts: y = [x EXCEPT !.tr = e]
    BY <1>a
  <1>b. y.srv = x.srv
    BY <1>3, WithTransport
  <1>4. EmitClose(x, code) \in {y, _transportClose(x, code), x}
    BY <1>1, <1>2, <1>3, EmitsClose
  <1>5. _transportClose(x, code).srv \in {x.srv, NewSession(x.srv.sent)}
    BY TransportEndKeeps
  <1> QED  BY <1>b, <1>4, <1>5

LEMMA ReceiverClosesKeeps ==
  ASSUME NEW x \in Parts, NEW reason
  PROVE  ReceiverCloses(x, reason).srv \in {x.srv, NewSession(x.srv.sent)}
  <1>1. PICK e \in Engines: e = Finished(x.tr)
    BY Fields, FinishedFields
  <1>2. PICK y \in Parts: y = [x EXCEPT !.tr = e] /\ y.srv = x.srv
    BY WithTransport
  <1>a. 1006 \in {1000, 1006}
    OBVIOUS
  <1>b. EmitClose(y, 1006).srv \in {y.srv, NewSession(y.srv.sent)}
    BY <1>a, EmitCloseKeeps
  <1>3. EmitClose(y, 1006).srv \in {x.srv, NewSession(x.srv.sent)}
    BY <1>2, <1>b
  <1>4. PollAgain(x).srv = x.srv
    BY PollAgainFields
  <1>5. ReceiverCloses(x, reason) \in {x, PollAgain(x), EmitClose(y, 1006)}
    BY <1>1, <1>2, ReceiverEnds
  <1> QED  BY <1>3, <1>4, <1>5

LEMMA ReceiveInfoKeeps ==
  ASSUME NEW x \in Parts, NEW got
  PROVE  _receiveInfo(x, got).srv \in {x.srv, NewSession(x.srv.sent)}
  <1> DEFINE list == filterToEnabled(place.whitelist, place.browser, place.info, place.websocket)
  <1>1. PICK q \in Seq(TransportNames): q = list
    BY FilterTyped
  <1> HIDE DEF list
  <1>2. PICK s \in Sockets: s = Informed(x.sock)
    BY Fields, InformedFields
  <1>3. PICK t \in Sockets: t = [s EXCEPT !.transports = q]
    BY DEF Sockets
  <1>4. PICK y \in Parts: y = [x EXCEPT !.sock = s] /\ y.srv = x.srv
    BY WithSocket
  <1>5. PICK z \in Parts: z = [x EXCEPT !.sock = t] /\ z.srv = x.srv
    BY WithSocket
  <1>6. _receiveInfo(x, got) = IF got THEN _connect(z) ELSE _close(y)
    BY <1>1, <1>2, <1>3, <1>4, <1>5, Zenon DEF _receiveInfo, list
  <1>7. _connect(z).srv \in {z.srv, NewSession(z.srv.sent)} /\ _close(y).srv = y.srv
    BY ConnectKeeps, CloseKeeps
  <1> QED  BY <1>4, <1>5, <1>6, <1>7

LEMMA TakeLasting ==
  ASSUME NEW x \in Parts, Lasting(x), Arriving(x), NEW does
  PROVE  Lasting(Take(x, does))
  <1>1. Take(x, does).srv.wire = Tail(x.srv.wire)
    BY TakeFields, TakenFields DEF Arriving
  <1>2. x.srv.wire \in Seq(OnWire) /\ x.srv.wire # <<>>
    BY Fields DEF Sessions, Arriving
  <1>3. /\ Len(Tail(x.srv.wire)) = Len(x.srv.wire) - 1 /\ DOMAIN Tail(x.srv.wire) = 1..Len(x.srv.wire) - 1
        /\ DOMAIN x.srv.wire = 1..Len(x.srv.wire) /\ Len(x.srv.wire) \in Nat
        /\ \A i \in 1..Len(x.srv.wire) - 1: Tail(x.srv.wire)[i] = x.srv.wire[i + 1]
    BY <1>2, HeadTailProperties, LenProperties
  <1> QED  BY <1>1, <1>3 DEF Lasting

LEMMA ReceiveLasting ==
  ASSUME NEW x \in Parts, Lasting(x), NEW n \in 0..Len(x.srv.wire), NEW does,
         \A i \in 1..n: x.srv.wire[i].type # "end"
  PROVE  Lasting(Receive(x, n, does))
  <1> DEFINE I == {y \in Parts: Lasting(y)}
  <1>1. x \in I
    OBVIOUS
  <1>2. ASSUME NEW y \in I, Arriving(y), NEW d PROVE Take(y, d) \in I
    <2>1. y \in Parts /\ Lasting(y)
      OBVIOUS
    <2> QED  BY <1>2, <2>1, TakeFields, TakeLasting
  <1> HIDE DEF I
  <1>3. I \in SUBSET Parts
    BY DEF I
  <1>4. Receive(x, n, does) \in I
    BY <1>1, <1>2, <1>3, Receiving
  <1> QED  BY <1>4 DEF I

LEMMA ToFrameKinds ==
  ASSUME NEW d \in ToFrame
  PROVE  d.type \in {"s", "m", "c"} /\ (d.type = "m" => d.m \in Said)
  <1>1. d \in [type: {"s", "c"}] \/ d \in [type: {"m"}, m: Said]
    BY DEF ToFrame
  <1>2. CASE d \in [type: {"s", "c"}]
    BY <1>2
  <1>3. CASE d \in [type: {"m"}, m: Said]
    BY <1>3
  <1> QED  BY <1>1, <1>2, <1>3

-----------------------------------------------------------------------------
(***************************************************************************)
(* The messages of the user.  Posted is their order on the whole way, from *)
(* the iframe's mail to the server; Whole that a transport of the page     *)
(* itself loses none but those of its last request.  An operator that does *)
(* not send only drops mail: Sheds.                                        *)
(***************************************************************************)
Under(q, n) == \A i \in DOMAIN q: q[i] < n
Before(q, r) == \A i \in DOMAIN r: Under(q, r[i])
InTurn(p, q, r) == Ascending(p) /\ Ascending(q) /\ Ascending(r) /\ Before(p, q) /\ Before(p, r) /\ Before(q, r)
Below(x, n) == Under(x.srv.got, n) /\ Under(x.tr.flight, n) /\ Under(x.tr.buf, n)
Mail(q) == {i \in DOMAIN q: q[i].type = "m"}

Posted(x) ==
    /\ x.sock.readyState = CONNECTING => x.sock.said = 0
    /\ InTurn(x.srv.got, x.tr.flight, x.tr.buf)
    /\ Below(x, x.sock.said + 1)
    /\ \A i \in Mail(x.tr.up): x.tr.up[i].m <= x.sock.said /\ Below(x, x.tr.up[i].m)
    /\ \A i, j \in Mail(x.tr.up): i < j => x.tr.up[i].m < x.tr.up[j].m

\* A transport of the page itself that knows what the server has.
Direct(e) == e.name # "none" /\ ~Framed(e.name) /\ Sender(e.name) # "form"
Counts(q, n) == \A i \in DOMAIN q: q[i] = n + i
Whole(x) ==
    LET e == x.tr
        g == Len(x.srv.got)
        f == Len(e.flight)
    IN
    Direct(e) =>
        /\ Counts(x.srv.got, 0) /\ Counts(e.flight, g)
        /\ e.ears \/ e.snd # "none" => Counts(e.buf, g + f)
        /\ e.ears => x.sock.said = g + f + Len(e.buf)
        /\ Sender(e.name) = "ws" => e.buf = <<>>
        /\ Sender(e.name) = "ajax" /\ e.snd \in {"none", "wait"} => e.flight = <<>>
Mailed(x) == Posted(x) /\ Whole(x)

Blank(x) == x.srv.got = <<>> /\ x.tr.flight = <<>> /\ x.tr.buf = <<>> /\ Mail(x.tr.up) = {}
Drops(e, f) ==
    /\ f.name = e.name /\ f.flight \in {e.flight, <<>>} /\ f.buf \in {e.buf, <<>>}
    /\ \A i \in Mail(f.up): i \in Mail(e.up) /\ f.up[i] = e.up[i]
    /\ Direct(e) =>
         /\ f.snd \in {e.snd, "none"} /\ f.buf = e.buf
         /\ f.snd # "none" => f.flight = e.flight
         /\ Sender(e.name) = "ajax" /\ f.snd = "none" => e.snd \in {"none", "wait"} \/ f.flight = <<>>
Sheds(x, y) ==
    /\ y.sock.said = x.sock.said
    /\ y.sock.readyState = CONNECTING => x.sock.readyState = CONNECTING
    /\ \/ x.sock.readyState = CONNECTING /\ Blank(y)
       \/ /\ Drops(x.tr, y.tr) /\ y.srv.got = x.srv.got
          /\ Direct(x.tr) /\ y.tr.ears => x.tr.ears /\ y.tr.snd = x.tr.snd /\ y.tr.flight = x.tr.flight

LEMMA NoneLeft ==
  /\ DOMAIN <<>> = {} /\ Len(<<>>) = 0 /\ Ascending(<<>>) /\ Mail(<<>>) = {}
  /\ \A q: Before(<<>>, q) /\ Before(q, <<>>)
  /\ \A n: Under(<<>>, n) /\ Counts(<<>>, n)
  <1>1. DOMAIN <<>> = {} /\ Len(<<>>) = 0
    OBVIOUS
  <1> QED  BY <1>1 DEF Ascending, Mail, Before, Under, Counts

LEMMA AppendPlaces ==
  ASSUME NEW S, NEW q \in Seq(S), NEW m \in S
  PROVE  LET r == Append(q, m) IN
         /\ r \in Seq(S) /\ Len(q) \in Nat /\ Len(r) = Len(q) + 1 /\ DOMAIN q = 1..Len(q) /\ DOMAIN r = 1..(Len(q) + 1)
         /\ \A i \in DOMAIN q: r[i] = q[i]
         /\ r[Len(q) + 1] = m
  OBVIOUS

LEMMA AppendOrdered ==
  ASSUME NEW q \in Seq(Said), NEW m \in Said, Ascending(q), Under(q, m)
  PROVE  /\ Ascending(Append(q, m))
         /\ \A n \in Nat: m < n => Under(Append(q, m), n)
         /\ \A p: Before(p, q) /\ Under(p, m) => Before(p, Append(q, m))
  <1>1. PICK r \in Seq(Said): r = Append(q, m)
    BY AppendPlaces
  <1>2. /\ Len(q) \in Nat /\ DOMAIN q = 1..Len(q) /\ DOMAIN r = 1..(Len(q) + 1)
        /\ \A i \in DOMAIN q: r[i] = q[i]
        /\ r[Len(q) + 1] = m
    BY <1>1, AppendPlaces
  <1>3. Ascending(r)
    BY <1>2 DEF Ascending, Under, Said
  <1>4. \A n \in Nat: m < n => Under(r, n)
    <2> SUFFICES ASSUME NEW n \in Nat, m < n, NEW i \in DOMAIN r PROVE r[i] < n
      BY DEF Under
    <2>1. CASE i \in DOMAIN q
      <3>1. q[i] \in Said /\ q[i] < m
        BY <2>1, ElementOfSeq, <1>2 DEF Under
      <3> QED  BY <1>2, <2>1, <3>1 DEF Said
    <2>2. CASE i = Len(q) + 1
      BY <1>2, <2>2
    <2> QED  BY <1>2, <2>1, <2>2
  <1>5. \A p: Before(p, q) /\ Under(p, m) => Before(p, r)
    BY <1>2 DEF Before
  <1> QED  BY <1>1, <1>3, <1>4, <1>5

LEMMA ConcatPlaces ==
  ASSUME NEW S, NEW p \in Seq(S), NEW q \in Seq(S)
  PROVE  LET r == p \o q IN
         /\ r \in Seq(S) /\ Len(p) \in Nat /\ Len(q) \in Nat /\ Len(r) = Len(p) + Len(q)
         /\ DOMAIN p = 1..Len(p) /\ DOMAIN q = 1..Len(q) /\ DOMAIN r = 1..(Len(p) + Len(q))
         /\ \A i \in DOMAIN p: r[i] = p[i]
         /\ \A i \in DOMAIN r: i \notin DOMAIN p => i - Len(p) \in DOMAIN q /\ r[i] = q[i - Len(p)]
  OBVIOUS

LEMMA ConcatOrdered ==
  ASSUME NEW p \in Seq(Said), NEW q \in Seq(Said), Ascending(p), Ascending(q), Before(p, q)
  PROVE  /\ Ascending(p \o q)
         /\ \A n: Under(p, n) /\ Under(q, n) => Under(p \o q, n)
         /\ \A s: Before(p, s) /\ Before(q, s) => Before(p \o q, s)
         /\ Counts(p, 0) /\ Counts(q, Len(p)) => Counts(p \o q, 0)
  <1>1. PICK r \in Seq(Said): r = p \o q
    BY ConcatPlaces
  <1>2. /\ Len(p) \in Nat /\ Len(q) \in Nat /\ DOMAIN p = 1..Len(p) /\ DOMAIN q = 1..Len(q)
        /\ DOMAIN r = 1..(Len(p) + Len(q))
        /\ \A i \in DOMAIN p: r[i] = p[i]
        /\ \A i \in DOMAIN r: i \notin DOMAIN p => i - Len(p) \in DOMAIN q /\ r[i] = q[i - Len(p)]
    BY <1>1, ConcatPlaces
  <1>3. Ascending(r)
    <2> SUFFICES ASSUME NEW i \in DOMAIN r, NEW j \in DOMAIN r, i < j PROVE r[i] < r[j]
      BY DEF Ascending
    <2>1. CASE j \in DOMAIN p
      <3>1. i \in DOMAIN p
        BY <1>2, <2>1
      <3> QED  BY <1>2, <2>1, <3>1 DEF Ascending
    <2>2. CASE i \notin DOMAIN p /\ j \notin DOMAIN p
      BY <1>2, <2>2 DEF Ascending
    <2>3. CASE i \in DOMAIN p /\ j \notin DOMAIN p
      BY <1>2, <2>3 DEF Before, Under
    <2>4. CASE i \notin DOMAIN p /\ j \in DOMAIN p
      BY <1>2, <2>4
    <2> QED  BY <2>1, <2>2, <2>3, <2>4
  <1>4. \A n: Under(p, n) /\ Under(q, n) => Under(r, n)
    BY <1>2 DEF Under
  <1>5. \A s: Before(p, s) /\ Before(q, s) => Before(r, s)
    BY <1>4 DEF Before
  <1>6. Counts(p, 0) /\ Counts(q, Len(p)) => Counts(r, 0)
    BY <1>2 DEF Counts
  <1> QED  BY <1>1, <1>3, <1>4, <1>5, <1>6

\* What drops mail keeps its order.
LEMMA ShedsPosted ==
  ASSUME NEW x, NEW y, Posted(x), Sheds(x, y)
  PROVE  Posted(y)
  <1>1. CASE x.sock.readyState = CONNECTING /\ Blank(y)
    <2>1. y.sock.said = 0 /\ x.sock.said = 0
      BY <1>1 DEF Sheds, Posted
    <2> QED  BY <1>1, <2>1, NoneLeft DEF Posted, InTurn, Blank, Below
  <1>2. CASE ~ (x.sock.readyState = CONNECTING /\ Blank(y))
    <2>1. /\ y.sock.said = x.sock.said /\ y.srv.got = x.srv.got
          /\ y.sock.readyState = CONNECTING => x.sock.readyState = CONNECTING
          /\ y.tr.flight \in {x.tr.flight, <<>>} /\ y.tr.buf \in {x.tr.buf, <<>>}
          /\ \A i \in Mail(y.tr.up): i \in Mail(x.tr.up) /\ y.tr.up[i] = x.tr.up[i]
      BY <1>2 DEF Sheds, Drops
    <2>2. \A n: Below(x, n) => Below(y, n)
      BY <2>1, NoneLeft DEF Below
    <2>3. InTurn(y.srv.got, y.tr.flight, y.tr.buf)
      BY <2>1, NoneLeft DEF Posted, InTurn
    <2> QED  BY <2>1, <2>2, <2>3 DEF Posted
  <1> QED  BY <1>1, <1>2

LEMMA ShedsWhole ==
  ASSUME NEW x \in Parts, NEW y \in Parts, Mailed(x), Sheds(x, y)
  PROVE  Whole(y)
  <1>1. CASE x.sock.readyState = CONNECTING /\ Blank(y)
    <2>1. y.sock.said = 0
      BY <1>1 DEF Sheds, Posted, Mailed
    <2> QED  BY <1>1, <2>1, NoneLeft DEF Blank, Whole
  <1>2. CASE ~ (x.sock.readyState = CONNECTING /\ Blank(y))
    <2> SUFFICES ASSUME Direct(y.tr) PROVE Whole(y)
      BY DEF Whole
    <2>1. y.tr.name = x.tr.name /\ Direct(x.tr)
      BY <1>2 DEF Sheds, Drops, Direct
    <2>2. /\ y.sock.said = x.sock.said /\ y.srv.got = x.srv.got
          /\ y.tr.flight \in {x.tr.flight, <<>>} /\ y.tr.buf = x.tr.buf
          /\ y.tr.ears => x.tr.ears
          /\ y.tr.snd \in {x.tr.snd, "none"}
          /\ y.tr.ears \/ y.tr.snd # "none" => y.tr.snd = x.tr.snd /\ y.tr.flight = x.tr.flight
          /\ Sender(x.tr.name) = "ajax" /\ y.tr.snd = "none" => x.tr.snd \in {"none", "wait"} \/ y.tr.flight = <<>>
      BY <1>2, <2>1 DEF Sheds, Drops
    <2>3. /\ Counts(x.srv.got, 0) /\ Counts(x.tr.flight, Len(x.srv.got))
          /\ x.tr.ears \/ x.tr.snd # "none" => Counts(x.tr.buf, Len(x.srv.got) + Len(x.tr.flight))
          /\ x.tr.ears => x.sock.said = Len(x.srv.got) + Len(x.tr.flight) + Len(x.tr.buf)
          /\ Sender(x.tr.name) = "ws" => x.tr.buf = <<>>
          /\ Sender(x.tr.name) = "ajax" /\ x.tr.snd \in {"none", "wait"} => x.tr.flight = <<>>
      BY <2>1 DEF Mailed, Whole
    <2>4. Counts(y.srv.got, 0) /\ Counts(y.tr.flight, Len(y.srv.got))
      BY <2>2, <2>3, NoneLeft
    <2>5. y.tr.ears \/ y.tr.snd # "none" => Counts(y.tr.buf, Len(y.srv.got) + Len(y.tr.flight))
      BY <2>2, <2>3
    <2>6. y.tr.ears => y.sock.said = Len(y.srv.got) + Len(y.tr.flight) + Len(y.tr.buf)
      BY <2>2, <2>3
    <2>7. Sender(y.tr.name) = "ajax" /\ y.tr.snd \in {"none", "wait"} => y.tr.flight = <<>>
      BY <2>1, <2>2, <2>3
    <2> QED  BY <2>1, <2>2, <2>3, <2>4, <2>5, <2>6, <2>7 DEF Whole
  <1> QED  BY <1>1, <1>2

LEMMA ShedsMailed ==
  ASSUME NEW x \in Parts, NEW y \in Parts, Mailed(x), Sheds(x, y)
  PROVE  Mailed(y)
  BY ShedsPosted, ShedsWhole DEF Mailed

\* Mail is all that Mailed looks at.
LEMMA SameMail ==
  ASSUME NEW x, NEW y, Mailed(x), y.tr = x.tr, y.srv.got = x.srv.got, y.sock.said = x.sock.said,
         y.sock.readyState = CONNECTING => x.sock.readyState = CONNECTING
  PROVE  Mailed(y)
  BY DEF Mailed, Posted, Whole, Below

LEMMA ShedsNothing ==
  ASSUME NEW x, NEW y, y.tr = x.tr, y.srv.got = x.srv.got, y.sock.said = x.sock.said,
         y.sock.readyState = CONNECTING => x.sock.readyState = CONNECTING
  PROVE  Sheds(x, y)
  BY DEF Sheds, Drops, Mail

\* The ways of a transport to end.
LEMMA EngineCloseDrops ==
  ASSUME NEW e \in Engines
  PROVE  Drops(e, EngineClose(e))
  <1>1. PICK a \in Engines: a = Abort(e)
    BY AbortTyped
  <1>2. /\ a.name = e.name /\ a.snd = e.snd /\ a.buf = e.buf /\ a.flight = e.flight /\ a.up = e.up
    BY <1>1, AbortKeeps
  <1>3. PICK f \in Engines: f = Stop(a)
    BY StopTyped
  <1>4. f.name = a.name /\ f.buf = a.buf /\ f.up = a.up
    BY <1>3, StopKeeps
  <1>5. /\ a.snd = "scheduled" => f.snd = a.snd /\ f.flight = a.flight
        /\ a.snd = "inflight" /\ Sender(a.name) = "ajax" => f.snd = "none" /\ f.flight = <<>>
        /\ a.snd \notin {"scheduled", "inflight"} \/ (a.snd = "inflight" /\ Sender(a.name) # "ajax")
             => f.snd = "none" /\ f.flight = a.flight
    BY <1>3 DEF Stop, Engines
  <1>6. f.snd \in {a.snd, "none"} /\ f.flight \in {a.flight, <<>>} /\ (f.snd # "none" => f.flight = a.flight)
    BY <1>5
  <1>7. a.snd \in {"none", "scheduled", "inflight", "wait"}
    BY DEF Engines
  <1>8. Sender(a.name) = "ajax" /\ f.snd = "none" => a.snd \in {"none", "wait"} \/ f.flight = <<>>
    BY <1>5, <1>7
  <1>9. EngineClose(e) = f
    BY <1>1, <1>3 DEF EngineClose
  <1> QED  BY <1>2, <1>4, <1>6, <1>8, <1>9 DEF Drops, Mail

LEMMA MailPosted ==
  ASSUME NEW q \in Seq(ToFrame), NEW d \in ToFrame, d.type # "m"
  PROVE  \A i \in Mail(Append(q, d)): i \in Mail(q) /\ Append(q, d)[i] = q[i]
  BY AppendPlaces DEF Mail

LEMMA CloseMessage == [type |-> "c"] \in ToFrame /\ [type |-> "s"] \in ToFrame
  BY DEF ToFrame

LEMMA DropsSame ==
  ASSUME NEW e, NEW f, f.name = e.name, f.flight = e.flight, f.buf = e.buf, f.snd = e.snd,
         \A i \in Mail(f.up): i \in Mail(e.up) /\ f.up[i] = e.up[i]
  PROVE  Drops(e, f)
  BY DEF Drops

LEMMA DropsUpSame ==
  ASSUME NEW e, NEW f, f.name = e.name, f.flight = e.flight, f.buf = e.buf, f.snd = e.snd, f.up = e.up
  PROVE  Drops(e, f)
  BY DropsSame DEF Mail

LEMMA TransportCloseDrops ==
  ASSUME NEW e \in Engines
  PROVE  Drops(e, TransportClose(e)) /\ ~TransportClose(e).ears
  <1>1. PICK f \in Engines: f = TransportClose(e)
    BY TransportCloseTyped
  <1>2. ~f.ears /\ f.name = e.name /\ f.buf = e.buf
    BY <1>1, TransportCloseKeeps
  <1>3. CASE ~Framed(e.name)
    <2>1. PICK c \in Engines: c = EngineClose(e)
      BY EngineCloseTyped
    <2>2. f.snd = c.snd /\ f.flight = c.flight /\ f.up = c.up
      BY <1>1, <1>3, <2>1, TransportCloseKeeps
    <2>3. Drops(e, c)
      BY <2>1, EngineCloseDrops
    <2>4. c.name = e.name /\ c.buf = e.buf
      BY <2>1, EngineCloseKeeps
    <2>5. Drops(e, f)
      BY <1>2, <2>2, <2>3, <2>4 DEF Drops
    <2> QED  BY <1>1, <1>2, <2>5
  <1>4. CASE Framed(e.name)
    <2>1. f.snd = e.snd /\ f.flight = e.flight /\ f.up \in {e.up, Append(e.up, [type |-> "c"])}
      BY <1>1, <1>4, TransportCloseKeeps
    <2>2. \A i \in Mail(f.up): i \in Mail(e.up) /\ f.up[i] = e.up[i]
      <3>1. e.up \in Seq(ToFrame)
        BY DEF Engines
      <3>2. PICK d \in ToFrame: d = [type |-> "c"]
        BY CloseMessage
      <3>3. d.type # "m"
        BY <3>2
      <3>4. f.up = Append(e.up, d) => \A i \in Mail(f.up): i \in Mail(e.up) /\ f.up[i] = e.up[i]
        BY <3>1, <3>3, MailPosted
      <3> QED  BY <2>1, <3>2, <3>4
    <2>3. Drops(e, f)
      BY <1>2, <2>1, <2>2, DropsSame
    <2> QED  BY <1>1, <1>2, <2>3
  <1> QED  BY <1>3, <1>4

LEMMA FinishedDrops ==
  ASSUME NEW e \in Engines
  PROVE  Drops(e, Finished(e))
  <1>1. PICK g \in Engines: g = [e EXCEPT !.rcv = "none", !.why = "none"]
    BY DEF Engines
  <1>2. g.name = e.name /\ g.snd = e.snd /\ g.buf = e.buf /\ g.flight = e.flight /\ g.up = e.up
    BY <1>1 DEF Engines
  <1>3. Finished(e) = EngineClose(g)
    BY <1>1 DEF Finished
  <1>4. Drops(g, EngineClose(g))
    BY EngineCloseDrops
  <1> QED  BY <1>2, <1>3, <1>4 DEF Drops, Direct

LEMMA CloseSheds ==
  ASSUME NEW x \in Parts
  PROVE  Sheds(x, _close(x)) /\ _close(x).sock.readyState # CONNECTING
  <1>1. PICK y \in Parts: y = _close(x)
    BY CloseFields
  <1>2. /\ y.sock.said = x.sock.said /\ y.srv = x.srv
        /\ y.tr = IF x.sock.transport THEN TransportClose(x.tr) ELSE x.tr
    BY <1>1, CloseKeeps, CloseFields
  <1>3. y.sock.readyState # CONNECTING
    <2>1. x.sock \in Sockets /\ Closing(x.sock) \in Sockets
      BY Fields, ClosingFields
    <2>2. PICK s \in Sockets: s = IF x.sock.readyState = CLOSED THEN x.sock ELSE Closing(x.sock)
      BY <2>1
    <2>3. s.readyState # CONNECTING
      BY <2>1, <2>2, ClosingFields DEF CLOSED, CLOSING, CONNECTING
    <2>4. y.sock = Silenced(s)
      BY <1>1, <2>2, CloseFields
    <2> QED  BY <2>3, <2>4, SilencedFields
  <1>4. Drops(x.tr, y.tr) /\ (y.tr.ears => y.tr = x.tr)
    <2>1. x.tr \in Engines
      BY Fields
    <2>2. Drops(x.tr, x.tr)
      BY DropsUpSame
    <2> QED  BY <1>2, <2>1, <2>2, TransportCloseDrops
  <1> QED  BY <1>1, <1>2, <1>3, <1>4 DEF Sheds

LEMMA ConnectSheds ==
  ASSUME NEW x \in Parts, x.sock.readyState = CONNECTING
  PROVE  Sheds(x, _connect(x))
  <1>1. CASE x.sock.transports = <<>>
    BY <1>1, CloseSheds DEF _connect
  <1>2. CASE x.sock.transports # <<>>
    <2>1. PICK t \in TransportNames: t = Head(x.sock.transports)
      BY <1>2, ConnectFields
    <2>2. PICK y \in Parts: y = _connect(x)
      BY ConnectTyped
    <2>3. y.srv = NewSession(x.srv.sent) /\ y.tr = NewTransport(t) /\ y.sock = Attempting(x.sock)
      BY <1>2, <2>1, <2>2, ConnectFields
    <2>4. y.sock.said = x.sock.said
      BY <1>2, <2>3, Fields, AttemptingFields
    <2>5. y.tr.buf = <<>> /\ y.tr.flight = <<>> /\ y.tr.up = <<>>
      BY <2>3, NewTidy
    <2>6. y.srv.got = <<>>
      BY <2>3 DEF NewSession
    <2>7. Blank(y)
      BY <2>5, <2>6, NoneLeft DEF Blank
    <2> QED  BY <2>2, <2>4, <2>7 DEF Sheds
  <1> QED  BY <1>1, <1>2

\* A message is sent: it is the last one.
LEMMA UnderMore ==
  ASSUME NEW q \in Seq(Said), NEW n \in Nat, NEW k \in Nat, n <= k, Under(q, n)
  PROVE  Under(q, k)
  <1>1. \A i \in DOMAIN q: q[i] \in Nat
    BY ElementOfSeq, LenProperties, BoundsAssumption DEF Said
  <1> QED  BY <1>1 DEF Under

LEMMA EngineSendOrdered ==
  ASSUME NEW e \in Engines, NEW m \in Said, NEW g \in Seq(Said), InTurn(g, e.flight, e.buf),
         Under(g, m), Under(e.flight, m), Under(e.buf, m), Sender(e.name) = "ws" => e.buf = <<>>
  PROVE  LET f == EngineSend(e, m) IN
         /\ InTurn(g, f.flight, f.buf)
         /\ \A n \in Nat: m < n => Under(f.flight, n) /\ Under(f.buf, n)
  <1>1. PICK f \in Engines: f = EngineSend(e, m)
    BY EngineSendTyped
  <1>2. e.flight \in Seq(Said) /\ e.buf \in Seq(Said) /\ m \in Nat
    BY BoundsAssumption DEF Engines, Said
  <1>3. \A n \in Nat: m < n => Under(e.flight, n) /\ Under(e.buf, n)
    BY <1>2, UnderMore
  <1>4. CASE Sender(e.name) = "ws"
    <2>1. f.buf = <<>> /\ f.flight = Append(e.flight, m)
      BY <1>1, <1>4, EngineSendFields
    <2> QED  BY <1>1, <1>2, <1>3, <2>1, AppendOrdered, NoneLeft DEF InTurn
  <1>5. CASE Sender(e.name) # "ws" /\ e.snd # "none"
    <2>1. f.buf = Append(e.buf, m) /\ f.flight = e.flight
      BY <1>1, <1>5, EngineSendFields
    <2> QED  BY <1>1, <1>2, <1>3, <2>1, AppendOrdered, NoneLeft DEF InTurn
  <1>6. CASE Sender(e.name) # "ws" /\ e.snd = "none"
    <2>1. f.buf = <<>> /\ f.flight = Append(e.buf, m)
      BY <1>1, <1>6, EngineSendFields
    <2> QED  BY <1>1, <1>2, <1>3, <2>1, AppendOrdered, NoneLeft DEF InTurn
  <1> QED  BY <1>4, <1>5, <1>6

LEMMA SendPosted ==
  ASSUME NEW x \in Parts, Mailed(x), Tidy(x.tr), x.tr.name # "none", x.sock.said + 1 \in Said, x.sock.readyState # CONNECTING,
         NEW y \in Parts, y.sock.said = x.sock.said + 1, y.sock.readyState = x.sock.readyState,
         y.srv = x.srv, y.tr = TransportSend(x.tr, x.sock.said + 1)
  PROVE  Posted(y)
  <1>1. PICK m \in Said: m = x.sock.said + 1
    OBVIOUS
  <1>2. PICK e \in Engines: e = x.tr
    BY Fields
  <1>3. PICK f \in Engines: f = y.tr
    BY Fields
  <1>4. x.srv.got \in Seq(Said) /\ e.flight \in Seq(Said) /\ e.buf \in Seq(Said) /\ e.up \in Seq(ToFrame)
    BY <1>2, Fields DEF Engines, Sessions
  <1>5. m \in Nat /\ m + 1 \in Nat /\ m < m + 1 /\ x.sock.said < m
    <2>1. PICK k \in Nat: k = x.sock.said
      BY Fields, BoundsAssumption DEF Sockets
    <2>2. m = k + 1
      BY <1>1, <2>1
    <2> QED  BY <2>1, <2>2
  <1>0. f = TransportSend(e, m)
    BY <1>1, <1>2, <1>3
  <1>6. /\ InTurn(x.srv.got, e.flight, e.buf)
        /\ Under(x.srv.got, m) /\ Under(e.flight, m) /\ Under(e.buf, m)
        /\ \A i \in Mail(e.up): e.up[i].m <= x.sock.said /\ Below(x, e.up[i].m)
        /\ \A i, j \in Mail(e.up): i < j => e.up[i].m < e.up[j].m
    BY <1>1, <1>2 DEF Mailed, Posted, Below
  <1>7. Under(x.srv.got, m + 1) /\ Under(e.flight, m + 1) /\ Under(e.buf, m + 1)
    BY <1>4, <1>5, <1>6, UnderMore
  <1>8. CASE Framed(e.name)
    <2>1. PICK d: d = [type |-> "m", m |-> m]
      OBVIOUS
    <2>2. d \in ToFrame /\ d.type = "m" /\ d.m = m
      BY <2>1 DEF ToFrame
    <2>3. f.up = Append(e.up, d) /\ f.buf = e.buf /\ f.flight = e.flight
      BY <1>0, <1>8, <2>1, SendKeeps
    <2>4. /\ Len(e.up) \in Nat /\ DOMAIN e.up = 1..Len(e.up) /\ DOMAIN f.up = 1..(Len(e.up) + 1)
          /\ \A i \in DOMAIN e.up: f.up[i] = e.up[i]
          /\ f.up[Len(e.up) + 1] = d
      BY <1>4, <2>2, <2>3, AppendPlaces
    <2>5. \A i \in Mail(f.up): (i \in Mail(e.up) /\ f.up[i] = e.up[i]) \/ (i = Len(e.up) + 1 /\ f.up[i].m = m)
      BY <2>2, <2>4 DEF Mail
    <2>6. \A n: Below(x, n) => Below(y, n)
      BY <1>2, <1>3, <2>3 DEF Below
    <2>7. \A i \in Mail(e.up): e.up[i].m \in Said /\ i \in 1..Len(e.up)
      <3> SUFFICES ASSUME NEW i \in Mail(e.up) PROVE e.up[i].m \in Said /\ i \in 1..Len(e.up)
        OBVIOUS
      <3>1. i \in 1..Len(e.up) /\ e.up[i].type = "m"
        BY <2>4 DEF Mail
      <3>2. e.up[i] \in ToFrame
        BY <1>4, <3>1, ElementOfSeq
      <3> QED  BY <3>1, <3>2, ToFrameKinds
    <2>12. x.sock.said \in Nat /\ y.sock.said = m /\ x.sock.said < m
      BY <1>1, <1>5, Fields DEF Sockets
    <2>11. \A i \in Mail(e.up): e.up[i].m < m
      <3> SUFFICES ASSUME NEW i \in Mail(e.up) PROVE e.up[i].m < m
        OBVIOUS
      <3>1. PICK k \in Nat: k = e.up[i].m
        BY <2>7, BoundsAssumption DEF Said
      <3>2. k <= x.sock.said
        BY <1>6, <3>1
      <3> QED  BY <1>5, <2>12, <3>1, <3>2
    <2>8. \A i \in Mail(f.up): f.up[i].m <= y.sock.said /\ Below(y, f.up[i].m)
      <3> SUFFICES ASSUME NEW i \in Mail(f.up) PROVE f.up[i].m <= y.sock.said /\ Below(y, f.up[i].m)
        OBVIOUS
      <3>1. CASE i \in Mail(e.up) /\ f.up[i] = e.up[i]
        <4>1. PICK k \in Nat: k = e.up[i].m
          BY <2>7, <3>1, BoundsAssumption DEF Said
        <4>2. k < m /\ Below(x, k)
          BY <1>6, <2>11, <3>1, <4>1
        <4> QED  BY <1>5, <2>6, <2>12, <3>1, <4>1, <4>2
      <3>2. CASE f.up[i].m = m
        <4>1. Below(x, m)
          BY <1>2, <1>6 DEF Below
        <4> QED  BY <1>1, <1>5, <2>6, <3>2, <4>1
      <3> QED  BY <2>5, <3>1, <3>2
    <2>9. \A i, j \in Mail(f.up): i < j => f.up[i].m < f.up[j].m
      <3> SUFFICES ASSUME NEW i \in Mail(f.up), NEW j \in Mail(f.up), i < j PROVE f.up[i].m < f.up[j].m
        OBVIOUS
      <3>1. i \in 1..(Len(e.up) + 1) /\ j \in 1..(Len(e.up) + 1)
        BY <2>4 DEF Mail
      <3>2. i \in Mail(e.up) /\ f.up[i] = e.up[i]
        BY <2>4, <2>5, <3>1
      <3>3. CASE j \in Mail(e.up) /\ f.up[j] = e.up[j]
        BY <1>6, <3>2, <3>3
      <3>4. CASE f.up[j].m = m
        BY <2>11, <3>2, <3>4
      <3> QED  BY <2>5, <3>3, <3>4
    <2>10. Below(y, y.sock.said + 1) /\ InTurn(y.srv.got, y.tr.flight, y.tr.buf)
      BY <1>1, <1>3, <1>6, <1>7, <2>3 DEF Below
    <2> QED  BY <1>3, <2>8, <2>9, <2>10 DEF Posted
  <1>9. CASE ~Framed(e.name)
    <2>1. Sender(e.name) = "ws" => e.buf = <<>>
      BY <1>2, <1>9 DEF Mailed, Whole, Direct
    <2>2. f.up = e.up /\ f.buf = EngineSend(e, m).buf /\ f.flight = EngineSend(e, m).flight
      BY <1>0, <1>9, SendKeeps
    <2>3. /\ InTurn(x.srv.got, f.flight, f.buf)
          /\ Under(f.flight, m + 1) /\ Under(f.buf, m + 1)
      BY <1>4, <1>5, <1>6, <2>1, <2>2, EngineSendOrdered
    <2>4. e.up = <<>>
      BY <1>2, <1>9 DEF Tidy
    <2> QED  BY <1>1, <1>3, <1>7, <2>2, <2>3, <2>4, NoneLeft DEF Posted, Below
  <1> QED  BY <1>8, <1>9

LEMMA CountsOn ==
  ASSUME NEW q \in Seq(Said), NEW n \in Nat, Counts(q, n), NEW m \in Said, m = n + Len(q) + 1
  PROVE  Counts(Append(q, m), n) /\ Len(Append(q, m)) = Len(q) + 1
  <1>1. PICK r: r = Append(q, m)
    OBVIOUS
  <1>2. /\ Len(q) \in Nat /\ Len(r) = Len(q) + 1 /\ DOMAIN q = 1..Len(q) /\ DOMAIN r = 1..(Len(q) + 1)
        /\ \A i \in DOMAIN q: r[i] = q[i]
        /\ r[Len(q) + 1] = m
    BY <1>1, AppendPlaces
  <1>3. Counts(r, n)
    BY <1>2 DEF Counts
  <1> QED  BY <1>1, <1>2, <1>3

LEMMA SendWhole ==
  ASSUME NEW x \in Parts, Mailed(x), x.tr.ears, x.sock.said + 1 \in Said,
         NEW y \in Parts, y.sock.said = x.sock.said + 1,
         y.srv = x.srv, y.tr = TransportSend(x.tr, x.sock.said + 1)
  PROVE  Whole(y)
  <1> SUFFICES ASSUME Direct(y.tr) PROVE Whole(y)
    BY DEF Whole
  <1>1. PICK m \in Said: m = x.sock.said + 1
    OBVIOUS
  <1>2. PICK e \in Engines: e = x.tr
    BY Fields
  <1>3. PICK f \in Engines: f = y.tr
    BY Fields
  <1>4. PICK g \in Nat: g = Len(x.srv.got)
    BY Fields, LenProperties DEF Sessions
  <1>5. e.flight \in Seq(Said) /\ e.buf \in Seq(Said) /\ Len(e.flight) \in Nat /\ Len(e.buf) \in Nat
    BY LenProperties DEF Engines
  <1>0. f = TransportSend(e, m)
    BY <1>1, <1>2, <1>3
  <1>6. f.name = e.name /\ f.ears = e.ears
    BY <1>0, SendKeeps
  <1>7. Direct(e) /\ ~Framed(e.name) /\ e.name \in TransportNames
    BY <1>3, <1>6 DEF Direct, Engines
  <1>8. f.buf = EngineSend(e, m).buf /\ f.flight = EngineSend(e, m).flight /\ f.snd = EngineSend(e, m).snd
    BY <1>0, <1>7, SendKeeps
  <1>15. g \in Nat
    BY <1>4
  <1>13. PICK c: c = EngineSend(e, m) /\ f.buf = c.buf /\ f.flight = c.flight /\ f.snd = c.snd
    BY <1>8
  <1>14. Len(<<>>) = 0 /\ \A n: Counts(<<>>, n)
    BY NoneLeft
  <1>9. /\ Counts(x.srv.got, 0) /\ Counts(e.flight, g) /\ Counts(e.buf, g + Len(e.flight))
        /\ x.sock.said = g + Len(e.flight) + Len(e.buf)
        /\ Sender(e.name) = "ws" => e.buf = <<>>
        /\ Sender(e.name) = "ajax" /\ e.snd \in {"none", "wait"} => e.flight = <<>>
    BY <1>2, <1>4, <1>7 DEF Mailed, Whole
  <1> SUFFICES /\ Counts(f.flight, g) /\ Counts(f.buf, g + Len(f.flight))
               /\ m = g + Len(f.flight) + Len(f.buf)
               /\ Sender(e.name) = "ws" => f.buf = <<>>
               /\ Sender(e.name) = "ajax" /\ f.snd \in {"none", "wait"} => f.flight = <<>>
    BY <1>1, <1>3, <1>4, <1>6, <1>9 DEF Whole
  <1>10. CASE Sender(e.name) = "ws"
    <2>1. f.buf = <<>> /\ f.flight = Append(e.flight, m)
      BY <1>9, <1>10, <1>13, EngineSendFields
    <2>4. Len(e.buf) = 0
      BY <1>9, <1>10, <1>14
    <2>2. m = g + Len(e.flight) + 1
      BY <1>1, <1>5, <1>9, <2>4
    <2>3. Counts(f.flight, g) /\ Len(f.flight) = Len(e.flight) + 1
      <3>1. Counts(e.flight, g)
        BY <1>9
      <3> QED  BY <1>5, <2>1, <2>2, <3>1, CountsOn
    <2>5. Counts(f.buf, g + Len(f.flight)) /\ Len(f.buf) = 0
      BY <1>14, <2>1
    <2>6. m = g + Len(f.flight) + Len(f.buf)
      BY <1>5, <2>2, <2>3, <2>5
    <2> QED  BY <1>10, <2>1, <2>3, <2>5, <2>6
  <1>11. CASE Sender(e.name) # "ws" /\ e.snd # "none"
    <2>1. f.snd = e.snd /\ f.buf = Append(e.buf, m) /\ f.flight = e.flight
      BY <1>11, <1>13, EngineSendFields
    <2>2. g + Len(e.flight) \in Nat /\ m = (g + Len(e.flight)) + Len(e.buf) + 1
      BY <1>1, <1>5, <1>9
    <2>3. Counts(f.buf, g + Len(e.flight)) /\ Len(f.buf) = Len(e.buf) + 1
      <3>1. PICK n \in Nat: n = g + Len(e.flight)
        BY <2>2
      <3>2. Counts(e.buf, n) /\ m = n + Len(e.buf) + 1
        BY <1>9, <2>2, <3>1
      <3>3. Counts(Append(e.buf, m), n) /\ Len(Append(e.buf, m)) = Len(e.buf) + 1
        BY <1>5, <3>2, CountsOn
      <3> QED  BY <2>1, <3>1, <3>3, Zenon
    <2>4. m = g + Len(f.flight) + Len(f.buf)
      <3>1. Len(f.buf) = Len(e.buf) + 1 /\ Len(f.flight) = Len(e.flight)
        BY <2>1, <2>3
      <3>3. PICK k \in Nat, j \in Nat: k = Len(e.flight) /\ j = Len(e.buf)
        BY <1>5
      <3>4. k \in Nat /\ j \in Nat /\ m = (g + k) + j + 1
        BY <2>2, <3>3
      <3>5. m = g + k + (j + 1)
        BY <1>15, <3>4
      <3>2. m = g + Len(e.flight) + (Len(e.buf) + 1)
        BY <3>3, <3>5
      <3> QED  BY <3>1, <3>2
    <2>5. Sender(e.name) = "ajax" /\ f.snd \in {"none", "wait"} => f.flight = <<>>
      BY <1>9, <2>1
    <2> QED  BY <1>9, <1>11, <2>1, <2>3, <2>4, <2>5
  <1>12. CASE Sender(e.name) # "ws" /\ e.snd = "none"
    <2>1. Sender(e.name) = "ajax"
      BY <1>7, <1>12, Kinds DEF Direct
    <2>2. f.snd = "scheduled" /\ f.buf = <<>> /\ f.flight = Append(e.buf, m)
      BY <1>12, <1>13, <2>1, EngineSendFields
    <2>3. e.flight = <<>>
      BY <1>9, <1>12, <2>1
    <2>4. Counts(e.buf, g) /\ m = g + Len(e.buf) + 1
      <3>1. Len(e.flight) = 0
        BY <1>14, <2>3
      <3> QED  BY <1>1, <1>5, <1>9, <3>1
    <2>5. Counts(f.flight, g) /\ Len(f.flight) = Len(e.buf) + 1
      BY <1>5, <2>2, <2>4, CountsOn
    <2>6. Counts(f.buf, g + Len(f.flight)) /\ Len(f.buf) = 0
      BY <1>14, <2>2
    <2>7. m = g + Len(f.flight) + Len(f.buf)
      <3>1. PICK k \in Nat: k = Len(e.buf)
        BY <1>5
      <3>2. m = g + k + 1 /\ Len(f.flight) = k + 1 /\ Len(f.buf) = 0
        BY <2>4, <2>5, <2>6, <3>1
      <3>3. m = g + (k + 1) + 0
        BY <1>15, <3>1, <3>2
      <3> QED  BY <3>2, <3>3
    <2> QED  BY <1>12, <2>1, <2>2, <2>5, <2>6, <2>7
  <1> QED  BY <1>10, <1>11, <1>12

\* Anything the user does.
LEMMA SendMailed ==
  ASSUME NEW x \in Parts, Phase(x), Calm(x), Mailed(x)
  PROVE  Mailed(send(x))
  <1>1. PICK y \in Parts: y = send(x)
    BY UserTyped
  <1>2. /\ y.srv = x.srv /\ y.sock.readyState = x.sock.readyState
        /\ \/ y.tr = x.tr /\ y.sock.said = x.sock.said
           \/ /\ x.sock.readyState = OPEN /\ x.sock.said + 1 \in Said
              /\ y.tr = TransportSend(x.tr, x.sock.said + 1) /\ y.sock.said = x.sock.said + 1
    BY <1>1, SendFields
  <1>3. CASE y.tr = x.tr /\ y.sock.said = x.sock.said
    BY <1>1, <1>2, <1>3, SameMail
  <1>4. CASE /\ x.sock.readyState = OPEN /\ x.sock.said + 1 \in Said
             /\ y.tr = TransportSend(x.tr, x.sock.said + 1) /\ y.sock.said = x.sock.said + 1
    <2>1. x.tr.ears /\ x.sock.readyState # CONNECTING
      BY <1>4 DEF Phase, OPEN, CONNECTING
    <2>2. Tidy(x.tr) /\ x.tr.name # "none"
      BY <2>1, EarsNamed DEF Calm
    <2>3. Posted(y)
      BY <1>2, <1>4, <2>1, <2>2, SendPosted
    <2>4. Whole(y)
      BY <1>2, <1>4, <2>1, SendWhole
    <2> QED  BY <1>1, <2>3, <2>4 DEF Mailed
  <1> QED  BY <1>2, <1>3, <1>4

LEMMA CloseMailed ==
  ASSUME NEW x \in Parts, Mailed(x)
  PROVE  Mailed(_close(x)) /\ Mailed(close(x))
  <1>1. _close(x) \in Parts
    BY CloseFields
  <1>2. Mailed(_close(x))
    BY <1>1, CloseSheds, ShedsMailed
  <1> QED  BY <1>2 DEF close

LEMMA ConnectMailed ==
  ASSUME NEW x \in Parts, Mailed(x), x.sock.readyState = CONNECTING
  PROVE  Mailed(_connect(x))
  BY ConnectTyped, ConnectSheds, ShedsMailed

LEMMA HandlerMailed ==
  ASSUME NEW x \in Parts, Phase(x), Calm(x), Mailed(x), NEW does
  PROVE  Mailed(Handler(x, does))
  BY SendMailed, CloseMailed DEF Handler

\* A frame reaches the socket.
LEMMA MessageMailed ==
  ASSUME NEW x \in Parts, Phase(x), Calm(x), Mailed(x), x.sock.transport, NEW frame \in Frames, NEW does
  PROVE  Mailed(_transportMessage(x, frame, does))
  <1>1. Tidy(x.tr)
    BY DEF Calm
  <1>2. CASE frame.type = "o" /\ x.sock.readyState = CONNECTING
    <2>1. PICK z \in Parts:
             /\ _open(x, does) = Handler(z, does)
             /\ z.tr = x.tr /\ z.srv = x.srv /\ z.sock.readyState = OPEN /\ z.sock.said = x.sock.said /\ Phase(z)
      BY <1>2, OpenStep
    <2>2. Calm(z)
      BY <1>1, <2>1 DEF Calm, OPEN, CLOSED
    <2>3. Mailed(z)
      BY <1>2, <2>1, SameMail
    <2>4. _transportMessage(x, frame, does) = Handler(z, does)
      BY <1>2, <2>1 DEF _transportMessage
    <2> QED  BY <2>1, <2>2, <2>3, <2>4, HandlerMailed
  <1>3. CASE frame.type = "o" /\ x.sock.readyState # CONNECTING
    <2>1. _transportMessage(x, frame, does) = _close(x)
      BY <1>3 DEF _transportMessage, _open
    <2> QED  BY <2>1, CloseMailed
  <1>4. CASE frame.type = "h"
    BY <1>4 DEF _transportMessage
  <1>5. CASE frame.type = "a"
    <2>1. frame.msgs \in Seq(Messages) /\ frame.msgs # <<>>
      BY <1>5, FrameKinds
    <2>2. PICK y \in Parts, z \in Parts, w \in Parts: AllTold(x, frame.msgs, does, y, z, w)
      BY <2>1, AllToldStep
    <2>3. /\ y.tr = x.tr /\ y.srv = x.srv /\ y.sock.readyState = x.sock.readyState
          /\ y.sock.said = x.sock.said /\ Phase(y) /\ z = Handler(y, does)
          /\ w.tr = z.tr /\ w.srv = z.srv /\ w.sock.readyState = z.sock.readyState
          /\ w.sock.said = z.sock.said /\ w = dispatchAll(x, frame.msgs, does)
      BY <2>2 DEF AllTold
    <2>4. Calm(y) /\ Mailed(y)
      <3>1. Calm(y)
        BY <2>3 DEF Calm
      <3>2. Mailed(y)
        BY <2>3, SameMail
      <3> QED  BY <3>1, <3>2
    <2>5. Mailed(z)
      BY <2>3, <2>4, HandlerMailed
    <2>6. Mailed(w)
      BY <2>3, <2>5, SameMail
    <2>7. _transportMessage(x, frame, does) = w
      BY <1>5, <2>3 DEF _transportMessage
    <2> QED  BY <2>6, <2>7
  <1>6. CASE frame.type = "c"
    BY <1>6, CloseMailed DEF _transportMessage
  <1> QED  BY <1>2, <1>3, <1>4, <1>5, <1>6, FrameKinds

LEMMA PostingMailed ==
  ASSUME NEW x \in Parts, Mailed(x), NEW d \in ToPage
  PROVE  Mailed([x EXCEPT !.tr = postMessage(x.tr, d)])
  <1>1. PICK e \in Engines: e = postMessage(x.tr, d)
    BY Fields, PostedTyped
  <1>2. /\ e.name = x.tr.name /\ e.ears = x.tr.ears /\ e.snd = x.tr.snd /\ e.buf = x.tr.buf /\ e.flight = x.tr.flight
        /\ e.up = x.tr.up
    BY <1>1, Fields, PostedTyped
  <1>3. PICK y \in Parts: y = [x EXCEPT !.tr = e] /\ y.tr = e /\ y.sock = x.sock /\ y.srv = x.srv
    BY WithTransport
  <1>4. Drops(x.tr, y.tr)
    BY <1>2, <1>3, DropsUpSame
  <1>5. Sheds(x, y)
    BY <1>2, <1>3, <1>4 DEF Sheds
  <1> QED  BY <1>1, <1>3, <1>5, ShedsMailed

LEMMA EmitMessageMailed ==
  ASSUME NEW x \in Parts, Phase(x), Calm(x), Mailed(x), NEW frame \in Frames, NEW does
  PROVE  Mailed(EmitMessage(x, frame, does))
  <1>1. x.tr.ears => Mailed(_transportMessage(x, frame, does))
    BY MessageMailed DEF Phase
  <1>2. PICK d \in ToPage: d = [type |-> "t", frame |-> frame]
    BY EmitsMessage
  <1>3. Mailed([x EXCEPT !.tr = postMessage(x.tr, d)])
    BY PostingMailed
  <1> QED  BY <1>1, <1>2, <1>3, EmitsMessage, Zenon

LEMMA TakeMailed ==
  ASSUME NEW x \in Parts, Phase(x), Calm(x), Mailed(x), Arriving(x), NEW does
  PROVE  Mailed(Take(x, does))
  <1>1. PICK y \in Parts: y = Taken(x)
    BY TakenFields DEF Arriving
  <1>2. y.sock = x.sock /\ y.tr = x.tr /\ y.srv.got = x.srv.got
    BY <1>1, TakenFields DEF Arriving
  <1>3. Phase(y) /\ Calm(y)
    BY <1>2 DEF Phase, Calm
  <1>4. Mailed(y)
    BY <1>2, SameMail
  <1>5. Take(x, does) = EmitMessage(y, Head(x.srv.wire), does) /\ Head(x.srv.wire) \in Frames
    BY <1>1, TakeFields
  <1> QED  BY <1>3, <1>4, <1>5, EmitMessageMailed

LEMMA ReceiveMailed ==
  ASSUME NEW x \in Parts, Phase(x), Calm(x), Mailed(x), NEW n \in 0..Len(x.srv.wire), NEW does,
         \A i \in 1..n: x.srv.wire[i].type # "end"
  PROVE  Mailed(Receive(x, n, does))
  <1>1. PICK I \in SUBSET Parts: I = {y \in Parts: Phase(y) /\ Calm(y) /\ Mailed(y)}
    OBVIOUS
  <1>2. ASSUME NEW y \in I, Arriving(y), NEW d
        PROVE  Take(y, d) \in I
    <2>1. y \in Parts /\ Phase(y) /\ Calm(y) /\ Mailed(y)
      BY <1>1
    <2>2. Take(y, d) \in Parts /\ Phase(Take(y, d))
      BY <1>2, <2>1, TakeMoves DEF Moves
    <2>3. Calm(Take(y, d)) /\ Mailed(Take(y, d))
      BY <1>2, <2>1, TakeCalm, TakeMailed
    <2> QED  BY <1>1, <2>2, <2>3
  <1>3. \A y \in I: Arriving(y) => Take(y, does) \in I /\ Take(y, "nothing") \in I
    BY <1>2
  <1>4. x \in I
    BY <1>1
  <1>5. Receive(x, n, does) \in I
    BY <1>3, <1>4, Receiving
  <1> QED  BY <1>1, <1>5

\* A transport ends: to whom nobody listens any more may have lost the end of
\* what it was given, so it is the detached transport that Mailed is said of.
LEMMA LetGoMail ==
  ASSUME NEW x \in Parts
  PROVE  LET y == LetGo(x) IN
         /\ y \in Parts /\ y.srv = x.srv /\ y.sock.said = x.sock.said /\ y.sock.readyState = x.sock.readyState
         /\ y.tr.name = x.tr.name /\ y.tr.snd = x.tr.snd /\ y.tr.buf = x.tr.buf /\ y.tr.flight = x.tr.flight
         /\ y.tr.up = x.tr.up /\ (y.tr.ears => y = x)
  <1>1. PICK y \in Parts: y = LetGo(x)
    BY LetGoFields
  <1>2. /\ y.srv = x.srv /\ y.sock.said = x.sock.said /\ y.sock.readyState = x.sock.readyState
        /\ y.tr = IF x.sock.transport THEN [x.tr EXCEPT !.ears = FALSE] ELSE x.tr
        /\ x.sock.transport => ~y.tr.ears
    BY <1>1, LetGoFields
  <1>3. x.tr \in Engines
    BY Fields
  <1>4. /\ y.tr.name = x.tr.name /\ y.tr.snd = x.tr.snd /\ y.tr.buf = x.tr.buf /\ y.tr.flight = x.tr.flight
        /\ y.tr.up = x.tr.up
    BY <1>2, <1>3 DEF Engines
  <1>5. ~x.sock.transport => y = x
    BY <1>1 DEF LetGo
  <1> QED  BY <1>1, <1>2, <1>4, <1>5

LEMMA LetGoSheds ==
  ASSUME NEW x \in Parts, NEW z \in Parts, z.sock.said = x.sock.said, z.srv.got = x.srv.got,
         z.sock.readyState = CONNECTING => x.sock.readyState = CONNECTING,
         Phase(z), Drops(x.tr, z.tr)
  PROVE  Sheds(x, LetGo(z))
  <1>1. PICK y \in Parts: y = LetGo(z)
    BY LetGoFields
  <1>2. /\ y.srv = z.srv /\ y.sock.said = z.sock.said /\ y.sock.readyState = z.sock.readyState
        /\ y.tr.name = z.tr.name /\ y.tr.snd = z.tr.snd /\ y.tr.buf = z.tr.buf /\ y.tr.flight = z.tr.flight
        /\ y.tr.up = z.tr.up /\ (y.tr.ears => y = z)
    BY <1>1, LetGoMail
  <1>3. ~y.tr.ears
    BY <1>1, <1>2, LetGoFields DEF Phase
  <1>4. Drops(x.tr, y.tr)
    BY <1>2 DEF Drops
  <1> QED  BY <1>1, <1>2, <1>3, <1>4 DEF Sheds

LEMMA TransportEndMailed ==
  ASSUME NEW x \in Parts, Mailed(LetGo(x)), NEW code
  PROVE  Mailed(_transportClose(x, code))
  <1>1. PICK y \in Parts: y = LetGo(x)
    BY LetGoFields
  <1>2. y.sock.readyState = x.sock.readyState
    BY <1>1, LetGoFields
  <1>3. \/ x.sock.readyState = CONNECTING /\ _transportClose(x, code) = _connect(y)
        \/ _transportClose(x, code) = _close(y)
    BY <1>1 DEF _transportClose, LetGo
  <1> QED  BY <1>1, <1>2, <1>3, CloseMailed, ConnectMailed

LEMMA EmitCloseMailed ==
  ASSUME NEW x \in Parts, Phase(x), IF Framed(x.tr.name) THEN Mailed(x) ELSE Mailed(LetGo(x)), NEW code \in {1000, 1006}
  PROVE  Mailed(EmitClose(x, code))
  <1>1. ~Framed(x.tr.name) => Mailed(_transportClose(x, code))
    BY TransportEndMailed
  <1>2. PICK d \in ToPage: d = [type |-> "c", code |-> code]
    BY EmitsClose
  <1>3. Framed(x.tr.name) => Mailed([x EXCEPT !.tr = postMessage(x.tr, d)])
    BY PostingMailed
  <1>4. ~x.tr.ears => LetGo(x) = x
    BY DEF Phase, LetGo
  <1>5. \/ Framed(x.tr.name) /\ EmitClose(x, code) = [x EXCEPT !.tr = postMessage(x.tr, d)]
        \/ ~Framed(x.tr.name) /\ x.tr.ears /\ EmitClose(x, code) = _transportClose(x, code)
        \/ EmitClose(x, code) = x /\ (~Framed(x.tr.name) => ~x.tr.ears)
    BY <1>2, EmitsClose
  <1> QED  BY <1>1, <1>3, <1>4, <1>5

\* The parts with another engine that has no other mail.
LEMMA EngineSheds ==
  ASSUME NEW x \in Parts, NEW y \in Parts, y.sock.said = x.sock.said, y.sock.readyState = x.sock.readyState,
         y.srv.got = x.srv.got, Drops(x.tr, y.tr),
         Framed(x.tr.name) \/ (y.tr.ears => x.tr.ears /\ y.tr.snd = x.tr.snd /\ y.tr.flight = x.tr.flight)
  PROVE  Sheds(x, y)
  BY DEF Sheds, Direct

LEMMA EngineEnds ==
  ASSUME NEW x \in Parts, Mailed(x), NEW y \in Parts, Phase(y), y.sock = x.sock, y.srv.got = x.srv.got,
         Drops(x.tr, y.tr), NEW code \in {1000, 1006}
  PROVE  Mailed(EmitClose(y, code))
  <1>1. y.tr.name = x.tr.name
    BY DEF Drops
  <1>2. CASE Framed(x.tr.name)
    <2>1. Mailed(y)
      BY <1>2, EngineSheds, ShedsMailed
    <2> QED  BY <1>1, <1>2, <2>1, EmitCloseMailed
  <1>3. CASE ~Framed(x.tr.name)
    <2>1. LetGo(y) \in Parts
      BY LetGoTyped
    <2>3. y.sock.said = x.sock.said /\ y.sock.readyState = x.sock.readyState
      OBVIOUS
    <2>4. Sheds(x, LetGo(y))
      BY <2>3, LetGoSheds
    <2>2. Mailed(LetGo(y))
      BY <2>1, <2>4, ShedsMailed
    <2> QED  BY <1>1, <1>3, <2>2, EmitCloseMailed
  <1> QED  BY <1>2, <1>3

LEMMA ReceiverClosesMailed ==
  ASSUME NEW x \in Parts, Phase(x), Calm(x), Mailed(x), NEW reason
  PROVE  Mailed(ReceiverCloses(x, reason))
  <1>1. CASE ReceiverCloses(x, reason) = x
    BY <1>1
  <1>2. CASE ReceiverCloses(x, reason) = PollAgain(x)
    <2>1. PICK y \in Parts: y = PollAgain(x)
      BY PollAgainFields
    <2>2. /\ y.sock = x.sock /\ y.srv = x.srv /\ y.tr.name = x.tr.name /\ y.tr.ears = x.tr.ears
          /\ y.tr.snd = x.tr.snd /\ y.tr.buf = x.tr.buf /\ y.tr.flight = x.tr.flight /\ y.tr.up = x.tr.up
      BY <2>1, PollAgainFields
    <2>3. Drops(x.tr, y.tr)
      BY <2>2, DropsUpSame
    <2>4. Sheds(x, y)
      BY <2>2, <2>3, EngineSheds
    <2> QED  BY <1>2, <2>1, <2>4, ShedsMailed
  <1>3. CASE x.tr.rcv # "none" /\ ReceiverCloses(x, reason) = EmitClose([x EXCEPT !.tr = Finished(x.tr)], 1006)
    <2>1. PICK e \in Engines: e = Finished(x.tr)
      BY Fields, FinishedFields
    <2>2. e.ears = x.tr.ears
      BY <2>1, Fields, FinishedFields
    <2>3. PICK y \in Parts: y = [x EXCEPT !.tr = e] /\ y.tr = e /\ y.sock = x.sock /\ y.srv = x.srv
      BY WithTransport
    <2>4. Phase(y)
      <3>1. ~x.sock.ir
        BY <1>3, NoneFields DEF Phase
      <3> QED  BY <2>2, <2>3, <3>1, PhaseKept DEF Moves
    <2>5. Drops(x.tr, y.tr) /\ y.srv.got = x.srv.got
      BY <2>1, <2>3, Fields, FinishedDrops
    <2>6. 1006 \in {1000, 1006}
      OBVIOUS
    <2>7. Mailed(EmitClose(y, 1006))
      <3>1. y.sock = x.sock
        BY <2>3
      <3> QED  BY <2>4, <2>5, <2>6, <3>1, EngineEnds
    <2> QED  BY <1>3, <2>1, <2>3, <2>7
  <1> QED  BY <1>1, <1>2, <1>3, ReceiverEnds

-----------------------------------------------------------------------------
(* The steps. *)

Solid(x) == Phase(x) /\ Calm(x) /\ Lasting(x) /\ Mailed(x)
Step(x) == Moves(Now, x) /\ Calm(x) /\ Lasting(x) /\ Mailed(x)

LEMMA NowTyped == TypeOK => Now \in Parts
  BY DEF TypeOK, Now, Parts

LEMMA NowFields == Now.sock = sock /\ Now.tr = tr /\ Now.left = left /\ Now.srv = srv
  BY DEF Now

LEMMA Became ==
  ASSUME NEW x \in Parts, Become(x)
  PROVE  Now' = x /\ place' = place
  BY DEF Become, Now, Parts

\* The socket does not change, nor do the name and the ears of its transport.
LEMMA EngineStep ==
  ASSUME TypeOK, Solid(Now), NEW y \in Parts, y.sock = sock, Lasting(y), Mailed(y), tr.name # "none", y.tr.name = tr.name,
         y.tr.ears = tr.ears, y.tr.left = "no" => tr.left = "no", Tidy(y.tr),
         y.tr.frame = "removing" => tr.frame = "removing" \/ tr.ears \/ tr.left # "no"
  PROVE  Step(y)
  <1>1. Now \in Parts /\ Phase(Now) /\ Calm(Now)
    BY NowTyped DEF Solid
  <1>3. ~sock.ir
    BY <1>1, NowFields, NoneFields DEF Phase
  <1>4. Moves(Now, y)
    BY <1>1, <1>3, NowFields, PhaseKept
  <1>5. tr.ears => sock.readyState # CLOSED
    BY <1>1, NowFields DEF Phase, CONNECTING, OPEN, CLOSED
  <1>6. Calm(y)
    BY <1>1, <1>5, NowFields DEF Calm
  <1> QED  BY <1>4, <1>6 DEF Step

\* Only the receiver, the facade or the mail of the page has changed.
LEMMA EngineMailed ==
  ASSUME NEW x \in Parts, Mailed(x), NEW y \in Parts, y.sock = x.sock, y.srv.got = x.srv.got,
         y.tr.name = x.tr.name, y.tr.ears = x.tr.ears, y.tr.snd = x.tr.snd, y.tr.buf = x.tr.buf,
         y.tr.flight = x.tr.flight, y.tr.up = x.tr.up
  PROVE  Mailed(y)
  <1>1. Drops(x.tr, y.tr)
    BY DropsUpSame
  <1>2. Sheds(x, y)
    BY <1>1, EngineSheds
  <1> QED  BY <1>2, ShedsMailed

\* Only the server's side changes.
LEMMA SessionStep ==
  ASSUME TypeOK, Solid(Now), NEW y \in Parts, y.sock = sock, y.tr = tr, y.srv.got = srv.got, Lasting(y)
  PROVE  Step(y)
  <1>1. Now \in Parts /\ Phase(Now) /\ Calm(Now) /\ Mailed(Now)
    BY NowTyped DEF Solid
  <1>3. Moves(Now, y)
    BY <1>1, NowFields, PhaseKept
  <1>4. Calm(y)
    BY <1>1, NowFields DEF Calm
  <1>5. Mailed(y)
    BY <1>1, NowFields, SameMail
  <1> QED  BY <1>3, <1>4, <1>5 DEF Step

LEMMA ReceiveInfoMailed ==
  ASSUME NEW x \in Parts, Phase(x), Mailed(x), x.sock.ir, NEW got
  PROVE  Mailed(_receiveInfo(x, got))
  <1> DEFINE list == filterToEnabled(place.whitelist, place.browser, place.info, place.websocket)
  <1>1. PICK q \in Seq(TransportNames): q = list
    BY FilterTyped
  <1> HIDE DEF list
  <1>2. PICK s \in Sockets: s = Informed(x.sock)
    BY Fields, InformedFields
  <1>3. s.readyState = x.sock.readyState /\ s.said = x.sock.said
    BY <1>2, Fields, InformedFields
  <1>4. PICK t \in Sockets: t = [s EXCEPT !.transports = q]
    BY DEF Sockets
  <1>5. t.readyState = s.readyState /\ t.said = s.said
    BY <1>4 DEF Sockets
  <1>6. PICK y \in Parts: y = [x EXCEPT !.sock = s] /\ y.sock = s /\ y.tr = x.tr /\ y.srv = x.srv
    BY WithSocket
  <1>7. PICK z \in Parts: z = [x EXCEPT !.sock = t] /\ z.sock = t /\ z.tr = x.tr /\ z.srv = x.srv
    BY WithSocket
  <1>8. Mailed(y) /\ Mailed(z)
    BY <1>3, <1>5, <1>6, <1>7, SameMail
  <1>9. z.sock.readyState = CONNECTING
    BY <1>3, <1>5, <1>7 DEF Phase
  <1>10. _receiveInfo(x, got) = IF got THEN _connect(z) ELSE _close(y)
    BY <1>1, <1>2, <1>4, <1>6, <1>7, Zenon DEF _receiveInfo, list
  <1> QED  BY <1>8, <1>9, <1>10, CloseMailed, ConnectMailed

LEMMA UserSteps ==
  ASSUME TypeOK, Solid(Now), User
  PROVE  \E x \in Parts: Step(x) /\ Become(x)
  <1>1. Now \in Parts /\ Phase(Now) /\ Calm(Now) /\ Lasting(Now) /\ Mailed(Now)
    BY NowTyped DEF Solid
  <1>2. CASE UserSends
    <2>1. Become(send(Now))
      BY <1>2 DEF UserSends
    <2>2. Moves(Now, send(Now)) /\ Calm(send(Now)) /\ Lasting(send(Now))
      BY <1>1, UserTyped, HandlerMoves, HandlerCalm, SendFields, WireKept DEF Moves
    <2>3. Mailed(send(Now))
      BY <1>1, SendMailed
    <2> QED  BY <2>1, <2>2, <2>3 DEF Step, Moves
  <1>3. CASE UserCloses
    <2>1. Become(close(Now))
      BY <1>3 DEF UserCloses
    <2>2. close(Now).srv = Now.srv
      BY <1>1, CloseKeeps DEF close
    <2>3. Moves(Now, close(Now)) /\ Calm(close(Now)) /\ Lasting(close(Now))
      BY <1>1, <2>2, UserTyped, HandlerMoves, HandlerCalm, WireKept DEF Moves
    <2>4. Mailed(close(Now))
      BY <1>1, CloseMailed
    <2> QED  BY <2>1, <2>3, <2>4 DEF Step, Moves
  <1> QED  BY <1>2, <1>3 DEF User

LEMMA InfoSteps ==
  ASSUME TypeOK, Solid(Now), InfoStarts \/ InfoArrives \/ InfoTimesOut
  PROVE  \E x \in Parts: Step(x) /\ Become(x)
  <1>1. Now \in Parts /\ Phase(Now) /\ Calm(Now) /\ Lasting(Now) /\ Mailed(Now) /\ sock \in Sockets
    BY NowTyped DEF Solid, TypeOK
  <1>2. CASE InfoStarts
    <2>1. PICK s \in Sockets: s = [sock EXCEPT !.info = "asking"]
      BY <1>1 DEF Sockets
    <2>2. PICK y \in Parts: y = [Now EXCEPT !.sock = s] /\ y.sock = s /\ y.tr = tr /\ y.srv = srv
      BY <1>1, NowFields, WithSocket
    <2>3. Become(y)
      <3>1. [Now EXCEPT !.sock.info = "asking"] = [Now EXCEPT !.sock = [Now.sock EXCEPT !.info = "asking"]]
        BY <1>1 DEF Parts
      <3> QED  BY <1>2, <2>1, <2>2, <3>1, NowFields DEF InfoStarts
    <2>4. /\ s.ir = sock.ir /\ s.info = "asking" /\ s.readyState = sock.readyState /\ s.transport = sock.transport
          /\ s.timer = sock.timer /\ s.stale = sock.stale /\ s.closes = sock.closes /\ s.events = sock.events
          /\ s.said = sock.said
      BY <1>1, <2>1 DEF Sockets
    <2>5. sock.info = "scheduled"
      BY <1>2 DEF InfoStarts
    <2>6. Phase(y)
      BY <1>1, <2>2, <2>4, <2>5, NowFields DEF Phase
    <2>7. Grows(Now, y)
      BY <1>1, <2>2, <2>4, NowFields, Stays, GrowsSame DEF Moves, Grows
    <2>8. Calm(y) /\ Lasting(y)
      BY <1>1, <2>2, <2>4, NowFields DEF Calm, Lasting
    <2>9. Mailed(y)
      BY <1>1, <2>2, <2>4, NowFields, SameMail
    <2> QED  BY <2>3, <2>6, <2>7, <2>8, <2>9 DEF Step, Moves
  <1>3. CASE InfoArrives \/ InfoTimesOut
    <2>1. PICK got \in BOOLEAN: Become(_receiveInfo(Now, got))
      BY <1>3 DEF InfoArrives, InfoTimesOut
    <2>2. sock.ir
      BY <1>1, <1>3, NowFields DEF InfoArrives, InfoTimesOut, Phase
    <2>3. Moves(Now, _receiveInfo(Now, got)) /\ Calm(_receiveInfo(Now, got))
      BY <1>1, <2>2, NowFields, ReceiveInfoMoves, ReceiveInfoCalm
    <2>4. Lasting(_receiveInfo(Now, got))
      BY <1>1, ReceiveInfoKeeps, WireKept
    <2>5. Mailed(_receiveInfo(Now, got))
      BY <1>1, <2>2, NowFields, ReceiveInfoMailed
    <2> QED  BY <2>1, <2>3, <2>4, <2>5 DEF Step, Moves
  <1> QED  BY <1>2, <1>3

LEMMA LetGoMailed ==
  ASSUME NEW x \in Parts, Phase(x), Mailed(x)
  PROVE  Mailed(LetGo(x))
  <1>1. Drops(x.tr, x.tr)
    BY DropsUpSame
  <1>2. Sheds(x, LetGo(x))
    BY <1>1, LetGoSheds
  <1> QED  BY <1>2, LetGoMail, ShedsMailed

LEMMA TimedOutTyped == ASSUME NEW e \in Engines PROVE [e EXCEPT !.left = "timeout"] \in Engines
  BY DEF Engines

\* The timer of a transport lets it go.
LEMMA GivesUp ==
  ASSUME NEW x \in Parts, Phase(x), Calm(x), Lasting(x), Mailed(x), x.sock.readyState = CONNECTING, x.sock.transport,
         tr.name = x.tr.name
  PROVE  Moves(x, GiveUp(x)) /\ Calm(GiveUp(x)) /\ Lasting(GiveUp(x)) /\ Mailed(GiveUp(x))
  <1>1. x.tr.name # "none" /\ x.tr.name \in TransportNames /\ x.left \subseteq TransportNames
    BY Fields, EarsNamed DEF Calm, Phase, Engines
  <1>2. PICK e \in Engines: e = [x.tr EXCEPT !.left = "timeout"]
    <2>1. [x.tr EXCEPT !.left = "timeout"] \in Engines
      BY Fields, TimedOutTyped
    <2> QED  BY <2>1
  <1>3. /\ e.name = x.tr.name /\ e.ears = x.tr.ears /\ e.left = "timeout" /\ e.rcv = x.tr.rcv /\ e.snd = x.tr.snd
        /\ e.frame = x.tr.frame /\ e.facade = x.tr.facade /\ e.up = x.tr.up /\ e.down = x.tr.down
        /\ e.buf = x.tr.buf /\ e.flight = x.tr.flight
    BY <1>2, Fields DEF Engines
  <1>4. PICK y \in Parts: y = [x EXCEPT !.left = @ \cup {tr.name}, !.tr = e]
    BY <1>1 DEF Parts
  <1>5. y.sock = x.sock /\ y.tr = e /\ y.srv = x.srv
    BY <1>4 DEF Parts
  <1>6. GiveUp(x) = _transportClose(y, 2007)
    <2>1. [x EXCEPT !.left = @ \cup {tr.name}, !.tr.left = "timeout"] = y
      BY <1>2, <1>4 DEF Parts
    <2> QED  BY <2>1 DEF GiveUp
  <1>7. ~x.sock.ir
    BY DEF Phase
  <1>8. Moves(x, y)
    BY <1>3, <1>5, <1>7, PhaseKept
  <1>9. Tidy(e) /\ Over(e)
    BY <1>1, <1>3 DEF Calm, Tidy, Over
  <1>10. Calm(y) /\ Lasting(y)
    BY <1>3, <1>5, <1>9 DEF Calm, Lasting
  <1>11. Moves(y, _transportClose(y, 2007)) /\ Calm(_transportClose(y, 2007))
    BY <1>5, <1>8, <1>9, <1>10, TransportEndMoves, TransportEndCalm DEF Moves
  <1>12. Lasting(_transportClose(y, 2007))
    BY <1>10, TransportEndKeeps, WireKept
  <1>13. Mailed(y)
    BY <1>3, <1>5, EngineMailed
  <1>14. Mailed(_transportClose(y, 2007))
    <2>1. Phase(y)
      BY <1>8 DEF Moves
    <2> QED  BY <1>13, <2>1, LetGoMailed, TransportEndMailed
  <1> QED  BY <1>6, <1>8, <1>11, <1>12, <1>14, MovesOn

LEMMA TransportTimerSteps ==
  ASSUME TypeOK, Solid(Now), TransportTimesOut \/ StaleTimerFires
  PROVE  \E x \in Parts: Step(x) /\ Become(x)
  <1>1. Now \in Parts /\ Phase(Now) /\ Calm(Now) /\ Lasting(Now) /\ Mailed(Now) /\ sock \in Sockets
    BY NowTyped DEF Solid, TypeOK
  <1>2. sock.readyState = CONNECTING /\ ~sock.ir /\ sock.transport
    BY <1>1, NowFields DEF TransportTimesOut, StaleTimerFires, Phase
  <1>3. PICK s \in Sockets: /\ \/ s = [sock EXCEPT !.timer = FALSE]
                               \/ s = [sock EXCEPT !.stale = @ - 1] /\ sock.stale > 0
                            /\ Become(GiveUp([Now EXCEPT !.sock = s]))
    <2>1. CASE TransportTimesOut
      <3>1. PICK s \in Sockets: s = [sock EXCEPT !.timer = FALSE]
        BY <1>1 DEF Sockets
      <3>2. [Now EXCEPT !.sock.timer = FALSE] = [Now EXCEPT !.sock = s]
        BY <1>1, <3>1, NowFields DEF Parts
      <3> QED  BY <2>1, <3>1, <3>2 DEF TransportTimesOut
    <2>2. CASE StaleTimerFires
      <3>1. sock.stale - 1 \in Nat /\ sock.stale > 0
        BY <1>1, <2>2 DEF StaleTimerFires, Sockets
      <3>2. PICK s \in Sockets: s = [sock EXCEPT !.stale = @ - 1]
        BY <1>1, <3>1 DEF Sockets
      <3>3. [Now EXCEPT !.sock.stale = @ - 1] = [Now EXCEPT !.sock = s]
        BY <1>1, <3>2, NowFields DEF Parts
      <3> QED  BY <2>2, <3>1, <3>2, <3>3 DEF StaleTimerFires
    <2> QED  BY <2>1, <2>2
  <1>4. /\ s.ir = sock.ir /\ s.info = sock.info /\ s.readyState = sock.readyState /\ s.transport = sock.transport
        /\ s.closes = sock.closes /\ s.events = sock.events /\ s.said = sock.said
    BY <1>1, <1>3 DEF Sockets
  <1>5. PICK y \in Parts: y = [Now EXCEPT !.sock = s] /\ y.sock = s /\ y.tr = tr /\ y.srv = srv
    BY <1>1, NowFields, WithSocket
  <1>6. Phase(y) /\ Calm(y) /\ Lasting(y)
    BY <1>1, <1>2, <1>4, <1>5, NowFields DEF Phase, Calm, Lasting
  <1>7. Moves(Now, y)
    BY <1>1, <1>4, <1>5, <1>6, NowFields, Stays, GrowsSame DEF Moves, Grows
  <1>a. Mailed(y)
    BY <1>1, <1>4, <1>5, NowFields, SameMail
  <1>8. Moves(y, GiveUp(y)) /\ Calm(GiveUp(y)) /\ Lasting(GiveUp(y)) /\ Mailed(GiveUp(y))
    BY <1>2, <1>4, <1>5, <1>6, <1>a, GivesUp
  <1>9. Moves(Now, GiveUp(y))
    BY <1>7, <1>8, <1>1, MovesOn
  <1> QED  BY <1>3, <1>5, <1>8, <1>9 DEF Step, Moves

LEMMA OneOf ==
  ASSUME NEW S, NEW b \in S
  PROVE  Head(<<b>>) = b /\ Tail(<<b>>) = <<>> /\ Append(<<>>, b) = <<b>>
  <1>1. <<b>> \in Seq(S) /\ Len(<<b>>) = 1 /\ <<b>>[1] = b
    OBVIOUS
  <1>2. Head(<<b>>) = b /\ Append(<<>>, b) = <<b>>
    OBVIOUS
  <1>3. Len(Tail(<<b>>)) = 0 /\ Tail(<<b>>) \in Seq(S)
    BY <1>1, HeadTailProperties
  <1> QED  BY <1>2, <1>3, EmptySeq

LEMMA TwoOf ==
  ASSUME NEW S, NEW b \in S, NEW c \in S
  PROVE  Append(<<b>>, c) = <<b, c>>
  <1> DEFINE q == Append(<<b>>, c)
             r == <<b, c>>
  <1>1. <<b>> \in Seq(S) /\ Len(<<b>>) = 1 /\ <<b>>[1] = b
    OBVIOUS
  <1>2. q \in Seq(S) /\ Len(q) = 2 /\ q[1] = b /\ q[2] = c
    BY <1>1, AppendProperties
  <1>3. r \in Seq(S) /\ Len(r) = 2 /\ r[1] = b /\ r[2] = c
    OBVIOUS
  <1>4. \A i \in 1..2: q[i] = r[i]
    BY <1>2, <1>3
  <1> HIDE DEF q, r
  <1>5. q = r
    BY <1>2, <1>3, <1>4, SeqEqual
  <1> QED  BY <1>5 DEF q, r

LEMMA CloseTimerStep ==
  ASSUME TypeOK, Solid(Now), CloseTimer
  PROVE  \E x \in Parts: Step(x) /\ Become(x)
  <1>1. Now \in Parts /\ Phase(Now) /\ Calm(Now) /\ Lasting(Now) /\ Mailed(Now) /\ sock \in Sockets
    BY NowTyped DEF Solid, TypeOK
  <1>2. sock.closes # <<>> /\ tr.frame # "removing"
    BY DEF CloseTimer
  <1>3. sock.readyState = CLOSING /\ sock.closes \in {<<TRUE>>, <<FALSE>>}
    BY <1>1, <1>2, NowFields DEF Phase
  <1>4. /\ ~sock.ir /\ sock.info \notin {"scheduled", "asking"} /\ ~sock.transport /\ ~tr.ears
        /\ ~sock.timer /\ ~ (sock.stale > 0) /\ Api!Legal(CLOSING, sock.events)
        /\ (sock.closes = <<TRUE>> => sock.events = <<>>)
    <2>1. CLOSING \notin {CONNECTING, OPEN} /\ CLOSING # CONNECTING
      BY DEF CONNECTING, OPEN, CLOSING
    <2>2. ~sock.transport /\ ~tr.ears
      BY <1>1, <1>3, <2>1, NowFields DEF Phase
    <2>3. ~sock.ir /\ sock.info \notin {"scheduled", "asking"}
      BY <1>1, <1>3, <2>1, NowFields DEF Phase
    <2>4. ~sock.timer /\ ~ (sock.stale > 0)
      BY <1>1, <1>3, <2>1, NowFields DEF Phase
    <2>5. Api!Legal(CLOSING, sock.events) /\ (sock.closes = <<TRUE>> => sock.events = <<>>)
      BY <1>1, <1>3, NowFields DEF Phase
    <2> QED  BY <2>2, <2>3, <2>4, <2>5
  <1>5. Tail(sock.closes) = <<>> /\ Head(sock.closes) \in BOOLEAN /\ (Head(sock.closes) => sock.closes = <<TRUE>>)
    <2>1. CASE sock.closes = <<TRUE>>
      <3>1. Head(<<TRUE>>) = TRUE /\ Tail(<<TRUE>>) = <<>>
        BY OneOf
      <3> QED  BY <2>1, <3>1
    <2>2. CASE sock.closes = <<FALSE>>
      <3>1. Head(<<FALSE>>) = FALSE /\ Tail(<<FALSE>>) = <<>>
        BY OneOf
      <3> QED  BY <2>2, <3>1
    <2> QED  BY <1>3, <2>1, <2>2
  <1>6. PICK s \in Sockets: s = [sock EXCEPT !.readyState = CLOSED, !.closes = <<>>]
    <2>1. CLOSED \in CONNECTING..CLOSED /\ <<>> \in Seq(BOOLEAN)
      BY EmptyTyped DEF CONNECTING, CLOSED
    <2>2. [sock EXCEPT !.readyState = CLOSED, !.closes = <<>>] \in Sockets
      BY <1>1, <2>1 DEF Sockets
    <2> QED  BY <2>2
  <1>7. /\ s.readyState = CLOSED /\ s.closes = <<>> /\ s.ir = sock.ir /\ s.info = sock.info
        /\ s.transport = sock.transport /\ s.timer = sock.timer /\ s.stale = sock.stale /\ s.events = sock.events
        /\ s.said = sock.said
    BY <1>1, <1>6 DEF Sockets
  <1>8. PICK y \in Parts: y = [Now EXCEPT !.sock = s] /\ y.sock = s /\ y.tr = tr /\ y.srv = srv
    BY <1>1, NowFields, WithSocket
  <1>9. [Now EXCEPT !.sock.readyState = CLOSED, !.sock.closes = Tail(@)] = y
    BY <1>1, <1>5, <1>6, <1>8, NowFields DEF Parts
  <1>10. PICK z \in Parts: z = IF Head(sock.closes) THEN dispatchEvent(y, <<"error">>) ELSE y
    BY ToldTyped, TurnsMade
  <1>11. PICK w \in Parts: w = dispatchEvent(z, <<"close">>)
    BY ToldTyped, TurnsMade
  <1>12. Become(w)
    BY <1>9, <1>10, <1>11, Zenon DEF CloseTimer
  <1>13. /\ z.tr = tr /\ z.srv = srv /\ z.sock.readyState = CLOSED /\ z.sock.closes = <<>> /\ z.sock.ir = sock.ir
         /\ z.sock.info = sock.info /\ z.sock.transport = sock.transport /\ z.sock.timer = sock.timer
         /\ z.sock.stale = sock.stale /\ z.sock.said = sock.said
         /\ z.sock.events = IF Head(sock.closes) THEN Append(sock.events, <<"error">>) ELSE sock.events
    <2>1. CASE Head(sock.closes)
      <3>1. z = dispatchEvent(y, <<"error">>)
        BY <1>10, <2>1
      <3>2. /\ z.tr = y.tr /\ z.srv = y.srv /\ z.sock.readyState = y.sock.readyState
            /\ z.sock.closes = y.sock.closes /\ z.sock.ir = y.sock.ir /\ z.sock.info = y.sock.info
            /\ z.sock.transport = y.sock.transport /\ z.sock.timer = y.sock.timer
            /\ z.sock.stale = y.sock.stale /\ z.sock.said = y.sock.said /\ z.sock.events = Append(y.sock.events, <<"error">>)
        BY <3>1, ToldFields
      <3> QED  BY <1>7, <1>8, <2>1, <3>2
    <2>2. CASE ~Head(sock.closes)
      BY <1>7, <1>8, <1>10, <2>2
    <2> QED  BY <2>1, <2>2
  <1>14. /\ w.tr = tr /\ w.srv = srv /\ w.sock.readyState = CLOSED /\ w.sock.closes = <<>> /\ w.sock.ir = sock.ir
         /\ w.sock.info = sock.info /\ w.sock.transport = sock.transport /\ w.sock.timer = sock.timer
         /\ w.sock.stale = sock.stale /\ w.sock.said = sock.said /\ w.sock.events = Append(z.sock.events, <<"close">>)
    <2>1. /\ w.tr = z.tr /\ w.srv = z.srv /\ w.sock.readyState = z.sock.readyState
          /\ w.sock.closes = z.sock.closes /\ w.sock.ir = z.sock.ir /\ w.sock.info = z.sock.info
          /\ w.sock.transport = z.sock.transport /\ w.sock.timer = z.sock.timer
          /\ w.sock.stale = z.sock.stale /\ w.sock.said = z.sock.said /\ w.sock.events = Append(z.sock.events, <<"close">>)
      BY <1>11, ToldFields
    <2> QED  BY <1>13, <2>1
  <1>15. sock.events \in Seq(Events)
    BY <1>1 DEF Sockets
  <1>16. Api!Legal(CLOSED, w.sock.events)
    <2>1. CASE Head(sock.closes)
      <3>1. sock.events = <<>>
        BY <1>4, <1>5, <2>1
      <3>2. w.sock.events = << <<"error">>, <<"close">> >>
        <4>1. z.sock.events = << <<"error">> >>
          BY <1>13, <2>1, <3>1, OneOf
        <4>2. {<<"error">>, <<"close">>} \subseteq Events
          BY TurnsMade
        <4>3. Append(<< <<"error">> >>, <<"close">>) = << <<"error">>, <<"close">> >>
          BY <4>2, TwoOf
        <4> QED  BY <1>14, <4>1, <4>3
      <3> QED  BY <3>2, LegalError
    <2>2. CASE ~Head(sock.closes)
      BY <1>4, <1>13, <1>14, <1>15, <2>2, LegalClose
    <2> QED  BY <2>1, <2>2
  <1>17. CLOSED \notin {CONNECTING, OPEN} /\ CLOSED # CLOSING /\ CLOSED \in CLOSING..CLOSED /\ CLOSING # CLOSED
         /\ <<>> # <<TRUE>>
    BY DEF CONNECTING, OPEN, CLOSING, CLOSED
  <1>18. Phase(w)
    BY <1>4, <1>14, <1>16, <1>17 DEF Phase
  <1>19. Grows(Now, w)
    <2>1. z.sock.events \in Seq(Events) /\ Len(sock.events) \in Nat /\ Len(z.sock.events) \in Nat
      BY <1>15, Fields, LenProperties DEF Sockets
    <2>2. /\ Len(z.sock.events) \in Len(sock.events)..Len(sock.events) + 1
          /\ \A i \in 1..Len(sock.events): z.sock.events[i] = sock.events[i]
          /\ \A i \in Len(sock.events) + 1..Len(z.sock.events): z.sock.events[i] = <<"error">>
      <3>1. CASE Head(sock.closes)
        <4>1. z.sock.events = Append(sock.events, <<"error">>)
          BY <1>13, <3>1
        <4>2. <<"error">> \in Events
          BY TurnsMade
        <4>3. /\ Len(z.sock.events) = Len(sock.events) + 1
              /\ \A i \in 1..Len(sock.events): z.sock.events[i] = sock.events[i]
              /\ z.sock.events[Len(sock.events) + 1] = <<"error">>
          BY <1>15, <4>1, <4>2, AppendProperties
        <4> QED  BY <2>1, <4>3
      <3>2. CASE ~Head(sock.closes)
        <4>1. z.sock.events = sock.events
          BY <1>13, <3>2
        <4> QED  BY <2>1, <4>1
      <3> QED  BY <3>1, <3>2
    <2>3. /\ Len(w.sock.events) = Len(z.sock.events) + 1 /\ w.sock.events[Len(w.sock.events)] = <<"close">>
          /\ \A i \in 1..Len(z.sock.events): w.sock.events[i] = z.sock.events[i]
      BY <1>14, <2>1, AppendProperties, TurnsMade
    <2>4. /\ Len(sock.events) <= Len(w.sock.events)
          /\ \A i \in 1..Len(sock.events): w.sock.events[i] = sock.events[i]
      <3>1. PICK n \in Nat, m \in Nat: n = Len(sock.events) /\ m = Len(z.sock.events)
        BY <2>1
      <3>2. n <= m /\ m + 1 >= n /\ Len(w.sock.events) = m + 1
        BY <2>2, <2>3, <3>1
      <3>3. \A i \in 1..n: i \in 1..m /\ z.sock.events[i] = sock.events[i]
        BY <2>2, <3>1, <3>2
      <3>4. \A i \in 1..m: w.sock.events[i] = z.sock.events[i]
        BY <2>3, <3>1
      <3> QED  BY <3>1, <3>2, <3>3, <3>4
    <2>5. \A i \in Len(sock.events) + 1..Len(w.sock.events): w.sock.events[i] \in {<<"error">>, <<"close">>}
      <3> TAKE i \in Len(sock.events) + 1..Len(w.sock.events)
      <3>1. CASE i = Len(w.sock.events)
        <4>1. w.sock.events[i] = <<"close">>
          BY <2>3, <3>1
        <4> QED  BY <4>1
      <3>2. CASE i \in Len(sock.events) + 1..Len(z.sock.events)
        <4>1. z.sock.events[i] = <<"error">>
          BY <2>2, <3>2
        <4>2. w.sock.events[i] = z.sock.events[i]
          BY <2>1, <2>3, <3>2
        <4> QED  BY <4>1, <4>2
      <3> QED  BY <2>1, <2>3, <3>1, <3>2
    <2>6. ~IsMessage(<<"error">>) /\ ~IsMessage(<<"close">>) /\ <<"error">> # <<"open">> /\ <<"close">> # <<"open">>
      BY DEF IsMessage
    <2> QED  BY <1>3, <1>14, <1>17, <2>4, <2>5, <2>6, NowFields DEF Grows
  <1>20. Calm(w) /\ Lasting(w)
    BY <1>1, <1>2, <1>14, NowFields DEF Calm, Lasting
  <1>21. Mailed(w)
    BY <1>1, <1>14, <1>17, NowFields, SameMail
  <1> QED  BY <1>12, <1>18, <1>19, <1>20, <1>21 DEF Step, Moves

-----------------------------------------------------------------------------
LEMMA ReceiverTyped == ASSUME NEW e \in Engines, NEW r \in {"none", "scheduled", "waiting", "pause"},
                              NEW y \in {"none", "network", "permanent"}
                       PROVE  [e EXCEPT !.rcv = r, !.why = y] \in Engines /\ [e EXCEPT !.rcv = r] \in Engines
  <1>1. [e EXCEPT !.rcv = r, !.why = y] \in Engines
    BY DEF Engines
  <1>2. [e EXCEPT !.rcv = r] \in Engines
    BY DEF Engines
  <1> QED  BY <1>1, <1>2
LEMMA SenderTyped == ASSUME NEW e \in Engines, NEW s \in {"none", "scheduled", "inflight", "wait"}
                     PROVE  [e EXCEPT !.snd = s] \in Engines /\ [e EXCEPT !.snd = s, !.flight = <<>>] \in Engines
  <1>1. <<>> \in Seq(Said)
    BY EmptyTyped
  <1>2. [e EXCEPT !.snd = s] \in Engines
    BY DEF Engines
  <1>3. [e EXCEPT !.snd = s, !.flight = <<>>] \in Engines
    BY <1>1 DEF Engines
  <1> QED  BY <1>2, <1>3

LEMMA RequestStartsStep ==
  ASSUME TypeOK, Solid(Now), RequestStarts
  PROVE  \E x \in Parts: Step(x) /\ Become(x)
  <1>1. Now \in Parts /\ Tidy(tr) /\ Lasting(Now) /\ Mailed(Now) /\ tr \in Engines /\ tr.rcv = "scheduled"
    BY NowTyped, NowFields DEF Solid, TypeOK, Calm, RequestStarts
  <1>2. PICK e \in Engines: e = [tr EXCEPT !.rcv = "waiting"]
    BY <1>1, ReceiverTyped
  <1>3. /\ e.name = tr.name /\ e.ears = tr.ears /\ e.left = tr.left /\ e.rcv = "waiting" /\ e.snd = tr.snd
        /\ e.frame = tr.frame /\ e.facade = tr.facade /\ e.up = tr.up /\ e.down = tr.down
        /\ e.buf = tr.buf /\ e.flight = tr.flight
    BY <1>1, <1>2 DEF Engines
  <1>4. PICK y \in Parts: y = [Now EXCEPT !.tr = e] /\ y.tr = e /\ y.sock = sock /\ y.srv = srv
    BY <1>1, NowFields, WithTransport
  <1>5. Become(y)
    <2>1. [Now EXCEPT !.tr.rcv = "waiting"] = y
      BY <1>1, <1>2, <1>4, NowFields DEF Parts
    <2> QED  BY <2>1 DEF RequestStarts
  <1>6. tr.name # "none"
    BY <1>1, EarsNamed
  <1>7. Tidy(e)
    BY <1>1, <1>3, <1>6 DEF Tidy
  <1>8. Lasting(y)
    BY <1>1, <1>4, NowFields DEF Lasting
  <1>9. Mailed(y)
    BY <1>1, <1>3, <1>4, NowFields, EngineMailed
  <1> QED  BY <1>3, <1>4, <1>5, <1>6, <1>7, <1>8, <1>9, EngineStep

\* The mail of the sender moves on: into a request, or to the server.
LEMMA ScheduledMail ==
  ASSUME NEW x \in Parts, Mailed(x), x.tr.snd = "wait", Sender(x.tr.name) # "ws",
         NEW y \in Parts, y.sock = x.sock, y.srv = x.srv, y.tr = SendSchedule(x.tr)
  PROVE  Mailed(y)
  <1>1. PICK e \in Engines: e = x.tr
    BY Fields
  <1>2. PICK f \in Engines: f = y.tr
    BY Fields
  <1>3. f.name = e.name /\ f.ears = e.ears /\ f.up = e.up
    BY <1>1, <1>2, ScheduleKeeps
  <1>4. IF e.buf = <<>> THEN f.buf = <<>> /\ f.flight = e.flight /\ f.snd = "none"
        ELSE f.buf = <<>> /\ f.flight = e.buf /\ f.snd \in {"scheduled", "inflight"}
    BY <1>1, <1>2 DEF SendSchedule, Engines
  <1>5. /\ InTurn(x.srv.got, e.flight, e.buf) /\ Below(x, x.sock.said + 1)
        /\ \A i \in Mail(e.up): e.up[i].m <= x.sock.said /\ Below(x, e.up[i].m)
        /\ \A i, j \in Mail(e.up): i < j => e.up[i].m < e.up[j].m
        /\ x.sock.readyState = CONNECTING => x.sock.said = 0
    BY <1>1 DEF Mailed, Posted
  <1>6. \A n: Below(x, n) => Below(y, n)
    BY <1>1, <1>2, <1>4, NoneLeft DEF Below
  <1>7. InTurn(y.srv.got, f.flight, f.buf)
    BY <1>4, <1>5, NoneLeft DEF InTurn
  <1>8. Posted(y)
    BY <1>2, <1>3, <1>5, <1>6, <1>7 DEF Posted
  <1>9. ASSUME Direct(f) PROVE Whole(y)
    <2>1. Direct(e) /\ e.name \in TransportNames /\ ~Framed(e.name) /\ Sender(e.name) = "ajax" /\ e.snd = "wait"
      <3>1. Direct(e) /\ e.name \in TransportNames /\ ~Framed(e.name) /\ e.snd = "wait"
        BY <1>1, <1>3, <1>9 DEF Direct, Engines
      <3> QED  BY <1>1, <3>1, Kinds DEF Direct
    <2>2. /\ Counts(x.srv.got, 0) /\ e.flight = <<>> /\ Counts(e.buf, Len(x.srv.got) + Len(e.flight))
          /\ e.ears => x.sock.said = Len(x.srv.got) + Len(e.flight) + Len(e.buf)
      BY <1>1, <2>1 DEF Mailed, Whole
    <2>3. PICK g \in Nat, b \in Nat: g = Len(x.srv.got) /\ b = Len(e.buf)
      BY Fields, LenProperties DEF Sessions, Engines
    <2>4. Len(e.flight) = 0 /\ Len(f.buf) = 0 /\ f.buf = <<>> /\ g + 0 = g
      BY <1>4, <2>2, <2>3, NoneLeft
    <2>5. Counts(e.buf, g) /\ (e.ears => x.sock.said = g + b)
      BY <2>2, <2>3, <2>4
    <2>6. f.flight = e.buf
      BY <1>4, <2>2
    <2>7. Len(y.srv.got) = g /\ Len(f.flight) = b /\ Counts(y.srv.got, 0)
      BY <2>2, <2>3, <2>6
    <2>8. Counts(f.flight, g) /\ Counts(f.buf, g + b)
      BY <2>4, <2>5, <2>6, NoneLeft
    <2>9. f.ears => x.sock.said = g + b + Len(f.buf)
      <3>1. g + b + 0 = g + b
        BY <2>3
      <3> QED  BY <1>3, <2>4, <2>5, <3>1
    <2>10. Sender(f.name) = "ajax" /\ f.snd \in {"none", "wait"} => f.flight = <<>>
      BY <1>4, <2>2
    <2> QED  BY <1>2, <1>3, <2>1, <2>4, <2>7, <2>8, <2>9, <2>10 DEF Whole
  <1> QED  BY <1>2, <1>8, <1>9 DEF Mailed, Whole

LEMMA StartedMail ==
  ASSUME NEW x \in Parts, Mailed(x), x.tr.snd = "scheduled",
         NEW y \in Parts, y.sock = x.sock, y.srv = x.srv, y.tr.name = x.tr.name, y.tr.ears = x.tr.ears,
         y.tr.snd = "inflight", y.tr.flight = x.tr.flight, y.tr.buf = x.tr.buf, y.tr.up = x.tr.up
  PROVE  Mailed(y)
  <1>1. Posted(y)
    BY DEF Mailed, Posted, Below, Mail
  <1>2. Whole(y)
    BY DEF Mailed, Whole, Direct
  <1> QED  BY <1>1, <1>2 DEF Mailed

LEMMA AnsweredMail ==
  ASSUME NEW x \in Parts, Mailed(x), Sender(x.tr.name) # "ws", Sender(x.tr.name) = "ajax" => x.tr.flight = <<>>,
         x.tr.snd # "none",
         NEW y \in Parts, y.sock = x.sock, y.srv = x.srv, y.tr.name = x.tr.name, y.tr.ears = x.tr.ears,
         y.tr.snd = "wait", y.tr.flight = <<>>, y.tr.buf = x.tr.buf, y.tr.up = x.tr.up
  PROVE  Mailed(y)
  <1>1. /\ InTurn(x.srv.got, x.tr.flight, x.tr.buf) /\ Below(x, x.sock.said + 1)
        /\ \A i \in Mail(x.tr.up): x.tr.up[i].m <= x.sock.said /\ Below(x, x.tr.up[i].m)
        /\ \A i, j \in Mail(x.tr.up): i < j => x.tr.up[i].m < x.tr.up[j].m
        /\ x.sock.readyState = CONNECTING => x.sock.said = 0
    BY DEF Mailed, Posted
  <1>2. \A n: Below(x, n) => Below(y, n)
    BY NoneLeft DEF Below
  <1>3. InTurn(y.srv.got, y.tr.flight, y.tr.buf)
    BY <1>1, NoneLeft DEF InTurn
  <1>4. Posted(y)
    BY <1>1, <1>2, <1>3 DEF Posted
  <1>5. ASSUME Direct(y.tr) PROVE Whole(y)
    <2>1. x.tr.name \in TransportNames /\ Direct(x.tr)
      BY <1>5, Fields DEF Direct, Engines
    <2>2. Sender(x.tr.name) = "ajax"
      BY <2>1, Kinds DEF Direct
    <2> QED  BY <2>1, <2>2 DEF Mailed, Whole
  <1> QED  BY <1>4, <1>5 DEF Mailed, Whole

LEMMA SenderSteps ==
  ASSUME TypeOK, Solid(Now), SendStarts \/ SendSucceeds \/ WaitEnds
  PROVE  \E x \in Parts: Step(x) /\ Become(x)
  <1>1. Now \in Parts /\ Tidy(tr) /\ Lasting(Now) /\ Mailed(Now) /\ tr \in Engines /\ tr.snd # "none"
    BY NowTyped, NowFields DEF Solid, TypeOK, Calm, SendStarts, SendSucceeds, WaitEnds
  <1>2. PICK e \in Engines: /\ \/ tr.snd = "scheduled" /\ e = [tr EXCEPT !.snd = "inflight"]
                               \/ /\ e = [tr EXCEPT !.snd = "wait", !.flight = <<>>]
                                  /\ Sender(tr.name) = "ajax" => tr.flight = <<>>
                               \/ tr.snd = "wait" /\ e = SendSchedule(tr)
                            /\ Become([Now EXCEPT !.tr = e])
    <2>1. CASE SendStarts
      <3>1. PICK e \in Engines: e = [tr EXCEPT !.snd = "inflight"]
        BY <1>1, SenderTyped
      <3>2. [Now EXCEPT !.tr.snd = "inflight"] = [Now EXCEPT !.tr = e]
        BY <1>1, <3>1, NowFields DEF Parts
      <3> QED  BY <2>1, <3>1, <3>2 DEF SendStarts
    <2>2. CASE SendSucceeds
      <3>1. PICK e \in Engines: e = [tr EXCEPT !.snd = "wait", !.flight = <<>>]
        BY <1>1, SenderTyped
      <3>2. [Now EXCEPT !.tr.snd = "wait", !.tr.flight = <<>>] = [Now EXCEPT !.tr = e]
        BY <1>1, <3>1, NowFields DEF Parts
      <3> QED  BY <2>2, <3>1, <3>2 DEF SendSucceeds
    <2>3. CASE WaitEnds
      <3>1. PICK e \in Engines: e = SendSchedule(tr)
        BY <1>1, ScheduleTyped
      <3>2. [Now EXCEPT !.tr = SendSchedule(@)] = [Now EXCEPT !.tr = e]
        BY <3>1, NowFields
      <3> QED  BY <2>3, <3>1, <3>2 DEF WaitEnds
    <2> QED  BY <2>1, <2>2, <2>3
  <1>3. /\ e.name = tr.name /\ e.ears = tr.ears /\ e.left = tr.left /\ e.rcv = tr.rcv
        /\ e.frame = tr.frame /\ e.facade = tr.facade /\ e.up = tr.up /\ e.down = tr.down
    <2>1. CASE e = SendSchedule(tr)
      BY <1>1, <2>1, ScheduleKeeps
    <2>2. CASE e = [tr EXCEPT !.snd = "inflight"]
      BY <1>1, <2>2 DEF Engines
    <2>3. CASE e = [tr EXCEPT !.snd = "wait", !.flight = <<>>]
      BY <1>1, <2>3 DEF Engines
    <2> QED  BY <1>2, <2>1, <2>2, <2>3
  <1>4. PICK y \in Parts: y = [Now EXCEPT !.tr = e] /\ y.tr = e /\ y.sock = sock /\ y.srv = srv
    BY <1>1, NowFields, WithTransport
  <1>5. tr.name # "none"
    BY <1>1, EarsNamed
  <1>6. Tidy(e)
    BY <1>1, <1>3, <1>5 DEF Tidy
  <1>7. Lasting(y)
    BY <1>1, <1>4, NowFields DEF Lasting
  <1>8. Sender(tr.name) # "ws"
    BY <1>1, <1>5 DEF Tidy
  <1>9. Mailed(y)
    <2>1. CASE tr.snd = "scheduled" /\ e = [tr EXCEPT !.snd = "inflight"]
      <3>1. e.snd = "inflight" /\ e.buf = tr.buf /\ e.flight = tr.flight
        BY <1>1, <2>1 DEF Engines
      <3>2. y.sock = Now.sock /\ y.srv = Now.srv /\ y.tr = e /\ Now.tr = tr
        BY <1>4, NowFields
      <3>3. /\ Now.tr.snd = "scheduled" /\ y.tr.name = Now.tr.name /\ y.tr.ears = Now.tr.ears /\ y.tr.snd = "inflight"
            /\ y.tr.flight = Now.tr.flight /\ y.tr.buf = Now.tr.buf /\ y.tr.up = Now.tr.up
        BY <1>3, <2>1, <3>1, <3>2
      <3> QED  BY <1>1, <3>2, <3>3, StartedMail
    <2>2. CASE e = [tr EXCEPT !.snd = "wait", !.flight = <<>>] /\ (Sender(tr.name) = "ajax" => tr.flight = <<>>)
      <3>1. e.snd = "wait" /\ e.buf = tr.buf /\ e.flight = <<>>
        BY <1>1, <2>2 DEF Engines
      <3>2. /\ Sender(Now.tr.name) # "ws" /\ (Sender(Now.tr.name) = "ajax" => Now.tr.flight = <<>>) /\ Now.tr.snd # "none"
            /\ y.sock = Now.sock /\ y.srv = Now.srv /\ y.tr = e
        BY <1>1, <1>4, <1>8, <2>2, NowFields
      <3>3. /\ y.tr.name = Now.tr.name /\ y.tr.ears = Now.tr.ears /\ y.tr.snd = "wait" /\ y.tr.flight = <<>>
            /\ y.tr.buf = Now.tr.buf /\ y.tr.up = Now.tr.up
        BY <1>3, <1>4, <3>1, NowFields
      <3> QED  BY <1>1, <3>2, <3>3, AnsweredMail
    <2>3. CASE tr.snd = "wait" /\ e = SendSchedule(tr)
      BY <1>1, <1>4, <1>8, <2>3, NowFields, ScheduledMail
    <2> QED  BY <1>2, <2>1, <2>2, <2>3
  <1> QED  BY <1>2, <1>3, <1>4, <1>5, <1>6, <1>7, <1>9, EngineStep

-----------------------------------------------------------------------------
\* The receiver.

LEMMA ChunkStep ==
  ASSUME TypeOK, Solid(Now), Chunk
  PROVE  \E x \in Parts: Step(x) /\ Become(x)
  <1>1. Now \in Parts /\ Phase(Now) /\ Calm(Now) /\ Lasting(Now) /\ Mailed(Now)
    BY NowTyped DEF Solid
  <1>2. srv.wire \in Seq(OnWire) /\ Len(srv.wire) \in Nat
    BY LenProperties DEF TypeOK, Sessions
  <1>3. PICK n \in 0..Len(Now.srv.wire), does \in Does:
          /\ \A i \in 1..n: Now.srv.wire[i].type # "end"
          /\ Become(Receive(Now, n, does))
    BY <1>2, NowFields DEF Chunk
  <1>4. Moves(Now, Receive(Now, n, does)) /\ Calm(Receive(Now, n, does)) /\ Lasting(Receive(Now, n, does))
    BY <1>1, <1>3, ReceiveMoves, ReceiveCalm, ReceiveLasting
  <1>5. Mailed(Receive(Now, n, does))
    BY <1>1, <1>3, ReceiveMailed
  <1> QED  BY <1>3, <1>4, <1>5 DEF Step, Moves

LEMMA EmptiedFields ==
  ASSUME NEW x \in Parts
  PROVE  LET y == Emptied(x) IN
         /\ y \in Parts /\ y.sock = x.sock /\ y.tr = x.tr /\ y.left = x.left
         /\ y.srv.state = x.srv.state /\ y.srv.queue = x.srv.queue /\ y.srv.wire = <<>>
         /\ y.srv.sent = x.srv.sent /\ y.srv.base = x.srv.base /\ y.srv.got = x.srv.got
  <1>1. x.srv \in Sessions /\ <<>> \in Seq(OnWire)
    BY Fields, EmptyTyped
  <1>2. PICK s \in Sessions: s = [x.srv EXCEPT !.wire = <<>>]
    BY <1>1 DEF Sessions
  <1>3. /\ s.state = x.srv.state /\ s.queue = x.srv.queue /\ s.wire = <<>>
        /\ s.sent = x.srv.sent /\ s.base = x.srv.base /\ s.got = x.srv.got
    BY <1>1, <1>2 DEF Sessions
  <1>4. PICK y \in Parts: y = [x EXCEPT !.srv = s] /\ y.srv = s /\ y.sock = x.sock /\ y.left = x.left /\ y.tr = x.tr
    BY WithSession
  <1>5. Emptied(x) = y
    BY <1>2, <1>4 DEF Emptied, Parts
  <1> QED  BY <1>3, <1>4, <1>5

LEMMA EmptiedSteps ==
  ASSUME NEW x \in Parts, Phase(x), Calm(x), Mailed(x)
  PROVE  Moves(x, Emptied(x)) /\ Calm(Emptied(x)) /\ Lasting(Emptied(x)) /\ Mailed(Emptied(x))
  <1>1. Emptied(x) \in Parts /\ Emptied(x).sock = x.sock /\ Emptied(x).tr = x.tr /\ Emptied(x).srv.wire = <<>>
        /\ Emptied(x).srv.got = x.srv.got
    BY EmptiedFields
  <1>2. Moves(x, Emptied(x))
    BY <1>1, PhaseKept
  <1>3. Calm(Emptied(x))
    BY <1>1 DEF Calm
  <1>4. Lasting(Emptied(x))
    BY <1>1 DEF Lasting
  <1>5. Mailed(Emptied(x))
    BY <1>1, SameMail
  <1> QED  BY <1>2, <1>3, <1>4, <1>5

LEMMA ReceiverClosesSteps ==
  ASSUME NEW x \in Parts, Phase(x), Calm(x), Lasting(x), NEW y, Moves(x, y), Calm(y), Lasting(y), Mailed(y), NEW reason
  PROVE  LET z == ReceiverCloses(y, reason) IN Moves(x, z) /\ Calm(z) /\ Lasting(z) /\ Mailed(z)
  <1>1. y \in Parts /\ Phase(y)
    BY DEF Moves
  <1>2. Moves(y, ReceiverCloses(y, reason)) /\ Calm(ReceiverCloses(y, reason)) /\ Lasting(ReceiverCloses(y, reason))
    BY <1>1, ReceiverClosesMoves, ReceiverClosesCalm, ReceiverClosesKeeps, WireKept
  <1>3. Mailed(ReceiverCloses(y, reason))
    BY <1>1, ReceiverClosesMailed
  <1> QED  BY <1>2, <1>3, MovesOn

\* The event source waits before it tells that it ended.
LEMMA PauseStep ==
  ASSUME TypeOK, Solid(Now), tr.rcv # "none", NEW why \in {"network", "permanent"},
         Become([Emptied(Now) EXCEPT !.tr.rcv = "pause", !.tr.why = why])
  PROVE  \E x \in Parts: Step(x) /\ Become(x)
  <1>1. Now \in Parts /\ Phase(Now) /\ Calm(Now) /\ Mailed(Now) /\ Tidy(tr) /\ tr \in Engines
    BY NowTyped, NowFields DEF Solid, TypeOK, Calm
  <1>2. PICK e \in Engines: e = [tr EXCEPT !.rcv = "pause", !.why = why]
    <2>1. [tr EXCEPT !.rcv = "pause", !.why = why] \in Engines
      BY <1>1, ReceiverTyped
    <2> QED  BY <2>1
  <1>3. /\ e.name = tr.name /\ e.ears = tr.ears /\ e.left = tr.left /\ e.rcv = "pause" /\ e.snd = tr.snd
        /\ e.frame = tr.frame /\ e.facade = tr.facade /\ e.up = tr.up /\ e.down = tr.down
        /\ e.buf = tr.buf /\ e.flight = tr.flight
    BY <1>1, <1>2 DEF Engines
  <1>4. Emptied(Now) \in Parts /\ Emptied(Now).sock = sock /\ Emptied(Now).tr = tr /\ Emptied(Now).srv.wire = <<>>
        /\ Emptied(Now).srv.got = srv.got
    BY <1>1, NowFields, EmptiedFields
  <1>5. PICK y \in Parts: y = [Emptied(Now) EXCEPT !.tr = e] /\ y.tr = e /\ y.sock = sock /\ y.srv = Emptied(Now).srv
    BY <1>4, WithTransport
  <1>6. Become(y)
    <2>1. [Emptied(Now) EXCEPT !.tr.rcv = "pause", !.tr.why = why] = y
      BY <1>2, <1>4, <1>5 DEF Parts
    <2> QED  BY <2>1
  <1>7. tr.name # "none"
    BY <1>1, EarsNamed
  <1>8. Tidy(e)
    BY <1>1, <1>3, <1>7 DEF Tidy
  <1>9. Lasting(y)
    BY <1>4, <1>5 DEF Lasting
  <1>10. Mailed(y)
    BY <1>1, <1>3, <1>4, <1>5, NowFields, EngineMailed
  <1> QED  BY <1>3, <1>5, <1>6, <1>7, <1>8, <1>9, <1>10, EngineStep

LEMMA AnswerEndsStep ==
  ASSUME TypeOK, Solid(Now), AnswerEnds
  PROVE  \E x \in Parts: Step(x) /\ Become(x)
  <1> DEFINE ended == Last(srv.wire).type = "end"
             unread == Len(srv.wire) - (IF ended THEN 1 ELSE 0)
  <1>1. Now \in Parts /\ Phase(Now) /\ Calm(Now) /\ Lasting(Now) /\ Mailed(Now)
    BY NowTyped DEF Solid
  <1>2. srv.wire \in Seq(OnWire) /\ Len(srv.wire) \in Nat /\ srv.wire # <<>> /\ DOMAIN srv.wire = 1..Len(srv.wire)
    BY LenProperties DEF TypeOK, Sessions, AnswerEnds
  <1>3. Len(srv.wire) > 0
    BY <1>2, EmptySeq
  <1>4. unread \in 0..Len(srv.wire) /\ (\A i \in 1..unread: srv.wire[i].type # "end")
    <2>1. \A i \in 1..Len(srv.wire): srv.wire[i].type = "end" => i = Len(srv.wire)
      BY <1>1, <1>2, NowFields DEF Lasting
    <2>2. Last(srv.wire) = srv.wire[Len(srv.wire)]
      BY DEF Last
    <2>3. CASE ended
      <3>1. unread = Len(srv.wire) - 1
        BY <2>3
      <3> HIDE DEF ended, unread
      <3> QED  BY <1>2, <1>3, <2>1, <3>1
    <2>4. CASE ~ended
      <3>1. unread = Len(srv.wire)
        BY <1>2, <2>4
      <3>2. srv.wire[Len(srv.wire)].type # "end"
        BY <2>2, <2>4
      <3> HIDE DEF ended, unread
      <3> QED  BY <1>2, <1>3, <2>1, <3>1, <3>2
    <2> QED  BY <2>3, <2>4
  <1>5. tr.rcv = "waiting"
    BY DEF AnswerEnds
  <1>6. \/ \E does \in Does: Become(ReceiverCloses(Emptied(Receive(Now, unread, does)), "network"))
        \/ Become(ReceiverCloses(Emptied(Now), "network"))
        \/ Become([Emptied(Now) EXCEPT !.tr.rcv = "pause", !.tr.why = "network"])
    BY Zenon DEF AnswerEnds
  <1> HIDE DEF unread
  <1>7. CASE \E does \in Does: Become(ReceiverCloses(Emptied(Receive(Now, unread, does)), "network"))
    <2>1. PICK does \in Does: Become(ReceiverCloses(Emptied(Receive(Now, unread, does)), "network"))
      BY <1>7
    <2>2. unread \in 0..Len(Now.srv.wire) /\ (\A i \in 1..unread: Now.srv.wire[i].type # "end")
      BY <1>4, NowFields
    <2>3. /\ Moves(Now, Receive(Now, unread, does)) /\ Calm(Receive(Now, unread, does))
          /\ Mailed(Receive(Now, unread, does))
      BY <1>1, <2>2, ReceiveMoves, ReceiveCalm, ReceiveMailed
    <2>4. PICK y \in Parts: y = Receive(Now, unread, does) /\ Moves(Now, y) /\ Phase(y) /\ Calm(y) /\ Mailed(y)
      BY <2>3 DEF Moves
    <2>5. Moves(Now, Emptied(y)) /\ Calm(Emptied(y)) /\ Lasting(Emptied(y)) /\ Mailed(Emptied(y))
      <3>1. Moves(y, Emptied(y)) /\ Calm(Emptied(y)) /\ Lasting(Emptied(y)) /\ Mailed(Emptied(y))
        BY <2>4, EmptiedSteps
      <3> QED  BY <1>1, <2>4, <3>1, MovesOn
    <2>6. /\ Moves(Now, ReceiverCloses(Emptied(y), "network")) /\ Calm(ReceiverCloses(Emptied(y), "network"))
          /\ Lasting(ReceiverCloses(Emptied(y), "network")) /\ Mailed(ReceiverCloses(Emptied(y), "network"))
      BY <1>1, <2>5, ReceiverClosesSteps
    <2> QED  BY <2>1, <2>4, <2>6 DEF Step, Moves
  <1>8. CASE Become(ReceiverCloses(Emptied(Now), "network"))
    <2>1. Moves(Now, Emptied(Now)) /\ Calm(Emptied(Now)) /\ Lasting(Emptied(Now)) /\ Mailed(Emptied(Now))
      BY <1>1, EmptiedSteps
    <2>2. /\ Moves(Now, ReceiverCloses(Emptied(Now), "network")) /\ Calm(ReceiverCloses(Emptied(Now), "network"))
          /\ Lasting(ReceiverCloses(Emptied(Now), "network")) /\ Mailed(ReceiverCloses(Emptied(Now), "network"))
      BY <1>1, <2>1, ReceiverClosesSteps
    <2> QED  BY <1>8, <2>2 DEF Step, Moves
  <1>9. CASE Become([Emptied(Now) EXCEPT !.tr.rcv = "pause", !.tr.why = "network"])
    BY <1>5, <1>9, PauseStep
  <1> QED  BY <1>6, <1>7, <1>8, <1>9

LEMMA RequestFailsStep ==
  ASSUME TypeOK, Solid(Now), RequestFails
  PROVE  \E x \in Parts: Step(x) /\ Become(x)
  <1>1. Now \in Parts /\ Phase(Now) /\ Calm(Now) /\ Lasting(Now) /\ Mailed(Now) /\ tr.rcv # "none"
    BY NowTyped DEF Solid, RequestFails
  <1>2. \/ \E why \in {"network", "permanent"}: Become([Emptied(Now) EXCEPT !.tr.rcv = "pause", !.tr.why = why])
        \/ \E why \in {"network", "permanent"}: Become(ReceiverCloses(Emptied(Now), why))
    BY DEF RequestFails
  <1>3. CASE \E why \in {"network", "permanent"}: Become([Emptied(Now) EXCEPT !.tr.rcv = "pause", !.tr.why = why])
    BY <1>1, <1>3, PauseStep
  <1>4. CASE \E why \in {"network", "permanent"}: Become(ReceiverCloses(Emptied(Now), why))
    <2>1. PICK why: Become(ReceiverCloses(Emptied(Now), why))
      BY <1>4
    <2>2. Moves(Now, Emptied(Now)) /\ Calm(Emptied(Now)) /\ Lasting(Emptied(Now)) /\ Mailed(Emptied(Now))
      BY <1>1, EmptiedSteps
    <2>3. /\ Moves(Now, ReceiverCloses(Emptied(Now), why)) /\ Calm(ReceiverCloses(Emptied(Now), why))
          /\ Lasting(ReceiverCloses(Emptied(Now), why)) /\ Mailed(ReceiverCloses(Emptied(Now), why))
      BY <1>1, <2>2, ReceiverClosesSteps
    <2> QED  BY <2>1, <2>3 DEF Step, Moves
  <1> QED  BY <1>2, <1>3, <1>4

LEMMA PauseEndsStep ==
  ASSUME TypeOK, Solid(Now), PauseEnds
  PROVE  \E x \in Parts: Step(x) /\ Become(x)
  <1>1. Now \in Parts /\ Phase(Now) /\ Calm(Now) /\ Lasting(Now) /\ Mailed(Now)
    BY NowTyped DEF Solid
  <1>2. Moves(Now, Now)
    BY <1>1, Stays
  <1>3. /\ Moves(Now, ReceiverCloses(Now, tr.why)) /\ Calm(ReceiverCloses(Now, tr.why))
        /\ Lasting(ReceiverCloses(Now, tr.why)) /\ Mailed(ReceiverCloses(Now, tr.why))
    BY <1>1, <1>2, ReceiverClosesSteps
  <1> QED  BY <1>3 DEF Step, Moves, PauseEnds

LEMMA DroppedTyped ==
  ASSUME NEW e \in Engines
  PROVE  LET f == [e EXCEPT !.rcv = "none", !.flight = <<>>] IN
         /\ f \in Engines /\ f.name = e.name /\ f.ears = e.ears /\ f.left = e.left /\ f.rcv = "none" /\ f.snd = e.snd
         /\ f.frame = e.frame /\ f.facade = e.facade /\ f.up = e.up /\ f.down = e.down
         /\ f.buf = e.buf /\ f.flight = <<>>
  <1>1. <<>> \in Seq(Said)
    BY EmptyTyped
  <1>2. [e EXCEPT !.rcv = "none", !.flight = <<>>] \in Engines
    BY <1>1 DEF Engines
  <1> QED  BY <1>2 DEF Engines

LEMMA WebSocketEndsStep ==
  ASSUME TypeOK, Solid(Now), WebSocketEnds
  PROVE  \E x \in Parts: Step(x) /\ Become(x)
  <1>1. Now \in Parts /\ Phase(Now) /\ Calm(Now) /\ Lasting(Now) /\ Mailed(Now) /\ Tidy(tr) /\ tr \in Engines
    BY NowTyped, NowFields DEF Solid, TypeOK, Calm
  <1>2. PICK code \in {1000, 1006}:
          Become(EmitClose([Now EXCEPT !.srv.wire = <<>>, !.tr.rcv = "none", !.tr.flight = <<>>], code))
    BY DEF WebSocketEnds
  <1>3. tr.name # "none" /\ tr.name \in TransportNames /\ tr.rcv # "none" /\ Receiver(tr.name) = "ws"
    BY <1>1, EarsNamed DEF Engines, WebSocketEnds
  <1>4. Sender(tr.name) = "ws" /\ ~Framed(tr.name)
    BY <1>3, Kinds
  <1>5. tr.snd = "none"
    BY <1>1, <1>3, <1>4 DEF Tidy
  <1>6. Emptied(Now) \in Parts /\ Emptied(Now).sock = sock /\ Emptied(Now).tr = tr /\ Emptied(Now).srv.wire = <<>>
        /\ Emptied(Now).srv.got = srv.got
    BY <1>1, NowFields, EmptiedFields
  <1>7. PICK e \in Engines: e = [tr EXCEPT !.rcv = "none", !.flight = <<>>]
    BY <1>1, DroppedTyped
  <1>8. /\ e.name = tr.name /\ e.ears = tr.ears /\ e.left = tr.left /\ e.rcv = "none" /\ e.snd = "none"
        /\ e.frame = tr.frame /\ e.facade = tr.facade /\ e.up = tr.up /\ e.down = tr.down
        /\ e.buf = tr.buf /\ e.flight = <<>>
    BY <1>1, <1>5, <1>7 DEF Engines
  <1>a. PICK z \in Parts: z = Emptied(Now)
    BY <1>6
  <1>b. [z EXCEPT !.tr = e] \in Parts
    BY WithTransport
  <1>c. PICK y \in Parts: y = [z EXCEPT !.tr = e]
    BY <1>b
  <1>9. y.tr = e /\ y.sock = sock /\ y.srv = Emptied(Now).srv
    <2>1. y.tr = e /\ y.sock = z.sock /\ y.srv = z.srv
      BY <1>c, WithTransport
    <2> QED  BY <1>6, <1>a, <2>1
  <1>10. [Now EXCEPT !.srv.wire = <<>>, !.tr.rcv = "none", !.tr.flight = <<>>] = y
    <2>1. [Now EXCEPT !.srv.wire = <<>>, !.tr.rcv = "none", !.tr.flight = <<>>]
            = [Emptied(Now) EXCEPT !.tr.rcv = "none", !.tr.flight = <<>>]
      BY Zenon DEF Emptied
    <2>2. [z EXCEPT !.tr.rcv = "none", !.tr.flight = <<>>] = y
      BY <1>6, <1>7, <1>a, <1>c DEF Parts
    <2> QED  BY <1>a, <2>1, <2>2
  <1>11. ~sock.ir
    BY <1>1, <1>3, NowFields, NoneFields DEF Phase
  <1>12. Moves(Now, y)
    <2>1. y.sock = Now.sock /\ y.tr.ears = Now.tr.ears /\ ~Now.sock.ir
      BY <1>8, <1>9, <1>11, NowFields
    <2> QED  BY <1>1, <2>1, PhaseKept
  <1>13. Over(e) /\ Tidy(e)
    BY <1>1, <1>3, <1>4, <1>5, <1>8 DEF Tidy, Over
  <1>14. Calm(y)
    BY <1>1, <1>8, <1>9, <1>13, NowFields DEF Calm
  <1>15. Lasting(y)
    BY <1>6, <1>9 DEF Lasting
  <1>16. Moves(y, EmitClose(y, code)) /\ Calm(EmitClose(y, code)) /\ Lasting(EmitClose(y, code))
    <2>1. Phase(y) /\ Over(y.tr)
      BY <1>9, <1>12, <1>13 DEF Moves
    <2>2. Moves(y, EmitClose(y, code)) /\ Calm(EmitClose(y, code))
      BY <1>14, <2>1, EmitCloseMoves, EmitCloseCalm
    <2>3. EmitClose(y, code).srv \in {y.srv, NewSession(y.srv.sent)}
      BY EmitCloseKeeps
    <2> QED  BY <1>15, <2>2, <2>3, WireKept
  <1>17. Moves(Now, EmitClose(y, code))
    BY <1>1, <1>12, <1>16, MovesOn
  <1>18. Drops(tr, e)
    BY <1>4, <1>5, <1>8 DEF Drops, Mail
  <1>19. Mailed(EmitClose(y, code))
    <2>1. Phase(y) /\ y.sock = Now.sock /\ y.srv.got = Now.srv.got /\ Drops(Now.tr, y.tr)
      BY <1>6, <1>9, <1>12, <1>18, NowFields DEF Moves
    <2> QED  BY <1>1, <2>1, EngineEnds
  <1> QED  BY <1>2, <1>10, <1>16, <1>17, <1>19 DEF Step, Moves

-----------------------------------------------------------------------------
\* The end of the sender, and the iframe.

LEMMA SendFailedFields ==
  ASSUME NEW e \in Engines
  PROVE  LET f == [e EXCEPT !.snd = "none", !.flight = <<>>, !.left = IF @ = "no" THEN "send" ELSE @] IN
         /\ f \in Engines /\ f.name = e.name /\ f.ears = e.ears /\ f.left # "no" /\ f.rcv = e.rcv /\ f.snd = "none"
         /\ f.frame = e.frame /\ f.facade = e.facade /\ f.up = e.up /\ f.down = e.down
         /\ f.buf = e.buf /\ f.flight = <<>>
  <1>1. <<>> \in Seq(Said) /\ (IF e.left = "no" THEN "send" ELSE e.left) \in {"no", "early", "send", "timeout"}
    BY EmptyTyped DEF Engines
  <1>2. PICK l \in {"no", "early", "send", "timeout"}: l = IF e.left = "no" THEN "send" ELSE e.left
    BY <1>1
  <1>3. l # "no"
    BY <1>2
  <1>4. [e EXCEPT !.snd = "none", !.flight = <<>>, !.left = l] \in Engines
    BY <1>1 DEF Engines
  <1> QED  BY <1>2, <1>3, <1>4 DEF Engines

LEMMA DeafFacade ==
  ASSUME NEW e \in Engines
  PROVE  LET f == [e EXCEPT !.facade = IF @ = "hears" THEN "deaf" ELSE @] IN
         /\ f \in Engines /\ f.name = e.name /\ f.ears = e.ears /\ f.left = e.left /\ f.rcv = e.rcv /\ f.snd = e.snd
         /\ f.frame = e.frame /\ f.facade = (IF e.facade = "hears" THEN "deaf" ELSE e.facade)
         /\ f.up = e.up /\ f.down = e.down /\ f.buf = e.buf /\ f.flight = e.flight
  <1>1. PICK d \in {"none", "hears", "deaf"}: d = IF e.facade = "hears" THEN "deaf" ELSE e.facade
    BY DEF Engines
  <1>2. [e EXCEPT !.facade = d] \in Engines
    BY DEF Engines
  <1> QED  BY <1>1, <1>2 DEF Engines

LEMMA SendFailsStep ==
  ASSUME TypeOK, Solid(Now), SendFails
  PROVE  \E x \in Parts: Step(x) /\ Become(x)
  <1>1. Now \in Parts /\ Phase(Now) /\ Calm(Now) /\ Lasting(Now) /\ Mailed(Now)
        /\ Tidy(tr) /\ tr \in Engines /\ tr.snd # "none"
    BY NowTyped, NowFields DEF Solid, TypeOK, Calm, SendFails
  <1>2. PICK e \in Engines: e = [tr EXCEPT !.snd = "none", !.flight = <<>>, !.left = IF @ = "no" THEN "send" ELSE @]
    BY <1>1, SendFailedFields
  <1>3. /\ e.name = tr.name /\ e.ears = tr.ears /\ e.left # "no" /\ e.rcv = tr.rcv /\ e.snd = "none"
        /\ e.frame = tr.frame /\ e.facade = tr.facade /\ e.up = tr.up /\ e.down = tr.down
        /\ e.buf = tr.buf /\ e.flight = <<>>
    BY <1>1, <1>2, SendFailedFields
  <1>4. PICK y \in Parts: y = [Now EXCEPT !.tr = e] /\ y.tr = e /\ y.sock = sock /\ y.srv = srv
    BY <1>1, NowFields, WithTransport
  <1>5. tr.name # "none"
    BY <1>1, EarsNamed
  <1>6. ~sock.ir
    BY <1>1, <1>5, NowFields, NoneFields DEF Phase
  <1>7. Moves(Now, y)
    <2>1. y.sock = Now.sock /\ y.tr.ears = Now.tr.ears /\ ~Now.sock.ir
      BY <1>3, <1>4, <1>6, NowFields
    <2> QED  BY <1>1, <2>1, PhaseKept
  <1>8. Over(e) /\ Tidy(e)
    BY <1>1, <1>3, <1>5 DEF Tidy, Over
  <1>9. Calm(y) /\ Lasting(y)
    BY <1>1, <1>3, <1>4, <1>8, NowFields DEF Calm, Lasting
  <1>a. 1006 \in {1000, 1006}
    OBVIOUS
  <1>10. Moves(y, EmitClose(y, 1006)) /\ Calm(EmitClose(y, 1006)) /\ Lasting(EmitClose(y, 1006))
    <2>1. Phase(y) /\ Over(y.tr)
      BY <1>4, <1>7, <1>8 DEF Moves
    <2>2. Moves(y, EmitClose(y, 1006)) /\ Calm(EmitClose(y, 1006))
      BY <1>a, <1>9, <2>1, EmitCloseMoves, EmitCloseCalm
    <2>3. EmitClose(y, 1006).srv \in {y.srv, NewSession(y.srv.sent)}
      BY <1>a, EmitCloseKeeps
    <2> QED  BY <1>9, <2>2, <2>3, WireKept
  <1>11. PICK z \in Parts: z = EmitClose(y, 1006) /\ Moves(Now, z) /\ Calm(z) /\ Lasting(z) /\ Phase(z)
    <2>1. Moves(Now, EmitClose(y, 1006))
      BY <1>1, <1>7, <1>10, MovesOn
    <2>2. EmitClose(y, 1006) \in Parts /\ Phase(EmitClose(y, 1006))
      BY <2>1 DEF Moves
    <2> QED  BY <1>10, <2>1, <2>2
  <1>12. Framed(z.tr.name) \/ z.tr.facade = "none"
    BY <1>11 DEF Calm, Tidy
  <1>13. PICK f \in Engines: f = [z.tr EXCEPT !.facade = IF @ = "hears" THEN "deaf" ELSE @]
    <2>1. [z.tr EXCEPT !.facade = IF @ = "hears" THEN "deaf" ELSE @] \in Engines
      BY Fields, DeafFacade
    <2> QED  BY <2>1
  <1>14. /\ f.name = z.tr.name /\ f.ears = z.tr.ears /\ f.left = z.tr.left /\ f.rcv = z.tr.rcv /\ f.snd = z.tr.snd
         /\ f.frame = z.tr.frame /\ f.up = z.tr.up /\ f.down = z.tr.down
         /\ f.buf = z.tr.buf /\ f.flight = z.tr.flight
         /\ f.facade = (IF z.tr.facade = "hears" THEN "deaf" ELSE z.tr.facade)
    <2>1. z.tr \in Engines
      BY Fields
    <2> QED  BY <1>13, <2>1 DEF Engines
  <1>15. PICK w \in Parts: w = [z EXCEPT !.tr = f]
    <2>1. [z EXCEPT !.tr = f] \in Parts
      BY WithTransport
    <2> QED  BY <2>1
  <1>16. w.tr = f /\ w.sock = z.sock /\ w.srv = z.srv
    BY <1>15, WithTransport
  <1>17. Become(w)
    <2>1. [z EXCEPT !.tr.facade = IF @ = "hears" THEN "deaf" ELSE @] = w
      BY <1>13, <1>15 DEF Parts
    <2>2. Become([EmitClose([Now EXCEPT !.tr = e], 1006) EXCEPT !.tr.facade = IF @ = "hears" THEN "deaf" ELSE @])
      BY <1>2 DEF SendFails
    <2> QED  BY <1>4, <1>11, <2>1, <2>2
  <1>18. z.sock.ir => f = z.tr
    <2>1. z.sock.ir => z.tr.facade = "none"
      BY <1>11, NoneFields DEF Phase
    <2> QED  BY <1>13, <2>1 DEF Parts, Engines
  <1>19. Moves(z, w)
    BY <1>11, <1>14, <1>16, <1>18, PhaseKept
  <1>20. Moves(Now, w)
    BY <1>1, <1>11, <1>19, MovesOn
  <1>21. Tidy(f)
    <2>1. CASE z.tr.name = "none"
      <3>1. z.tr = NoTransport
        BY <1>11, <2>1 DEF Calm, Tidy
      <3>2. f = z.tr
        BY <1>13, <3>1, NoneFields, NoneTyped DEF Engines
      <3> QED  BY <1>11, <3>2 DEF Calm
    <2>2. CASE z.tr.name # "none"
      BY <1>11, <1>12, <1>14, <2>2 DEF Calm, Tidy
    <2> QED  BY <2>1, <2>2
  <1>22. Calm(w) /\ Lasting(w)
    BY <1>11, <1>14, <1>16, <1>21 DEF Calm, Lasting
  <1>23. Drops(tr, e)
    BY <1>3 DEF Drops, Mail
  <1>24. Mailed(z)
    <2>1. Phase(y) /\ y.sock = Now.sock /\ y.srv.got = Now.srv.got /\ Drops(Now.tr, y.tr)
      BY <1>4, <1>7, <1>23, NowFields DEF Moves
    <2> QED  BY <1>a, <1>1, <1>11, <2>1, EngineEnds
  <1>25. Mailed(w)
    BY <1>14, <1>16, <1>24, EngineMailed
  <1> QED  BY <1>17, <1>20, <1>22, <1>25 DEF Step

LEMMA FrameSet == ASSUME NEW e \in Engines PROVE [e EXCEPT !.frame = "booted"] \in Engines
  BY DEF Engines

LEMMA FrameBootsStep ==
  ASSUME TypeOK, Solid(Now), FrameBoots
  PROVE  \E x \in Parts: Step(x) /\ Become(x)
  <1>1. Now \in Parts /\ Tidy(tr) /\ Lasting(Now) /\ Mailed(Now) /\ tr \in Engines /\ tr.frame = "loading"
    BY NowTyped, NowFields DEF Solid, TypeOK, Calm, FrameBoots
  <1>2. PICK d \in ToPage: d = [type |-> "s"]
    <2>1. [type |-> "s"] \in [type: {"s"}]
      OBVIOUS
    <2>2. [type |-> "s"] \in ToPage
      BY <2>1 DEF ToPage
    <2> QED  BY <2>2
  <1>3. PICK b \in Engines: b = [tr EXCEPT !.frame = "booted"]
    <2>1. [tr EXCEPT !.frame = "booted"] \in Engines
      BY <1>1, FrameSet
    <2> QED  BY <2>1
  <1>4. /\ b.name = tr.name /\ b.ears = tr.ears /\ b.left = tr.left /\ b.rcv = tr.rcv /\ b.snd = tr.snd
        /\ b.frame = "booted" /\ b.facade = tr.facade /\ b.up = tr.up
        /\ b.buf = tr.buf /\ b.flight = tr.flight
    BY <1>1, <1>3 DEF Engines
  <1>5. PICK e \in Engines: e = postMessage(b, d)
    <2>1. postMessage(b, d) \in Engines
      BY PostedTyped
    <2> QED  BY <2>1
  <1>6. /\ e.name = b.name /\ e.ears = b.ears /\ e.left = b.left /\ e.rcv = b.rcv /\ e.snd = b.snd
        /\ e.frame = b.frame /\ e.facade = b.facade /\ e.up = b.up
        /\ e.buf = b.buf /\ e.flight = b.flight
    BY <1>5, PostedTyped
  <1>7. PICK y \in Parts: y = [Now EXCEPT !.tr = e] /\ y.tr = e /\ y.sock = sock /\ y.srv = srv
    BY <1>1, NowFields, WithTransport
  <1>8. Become(y)
    BY <1>2, <1>3, <1>5, <1>7, NowFields DEF FrameBoots
  <1>9. tr.name # "none" /\ (Framed(tr.name) \/ tr.frame = "none")
    BY <1>1, EarsNamed DEF Tidy
  <1>10. Framed(tr.name)
    BY <1>1, <1>9
  <1>11. Tidy(e)
    BY <1>1, <1>4, <1>6, <1>9, <1>10 DEF Tidy
  <1>12. Lasting(y)
    BY <1>1, <1>7, NowFields DEF Lasting
  <1>13. Mailed(y)
    BY <1>1, <1>4, <1>6, <1>7, NowFields, EngineMailed
  <1> QED  BY <1>4, <1>6, <1>7, <1>8, <1>9, <1>11, <1>12, <1>13, EngineStep

LEMMA EarsKept == ASSUME NEW e \in Engines, NEW b \in BOOLEAN PROVE [e EXCEPT !.ears = b] \in Engines
  BY DEF Engines

\* The iframe transport closes itself, but the socket still listens to it.
LEMMA FrameCloses ==
  ASSUME NEW e \in Engines, Tidy(e), e.frame \in {"loading", "booted", "up"}
  PROVE  LET f == [TransportClose(e) EXCEPT !.ears = e.ears] IN
         /\ f \in Engines /\ Tidy(f) /\ Over(f) /\ f.frame = "removing" /\ f.ears = e.ears /\ f.name = e.name
         /\ f.facade = e.facade /\ f.rcv = e.rcv /\ f.snd = e.snd /\ f.buf = e.buf /\ f.flight = e.flight
         /\ f.down = e.down /\ f.up = Append(e.up, [type |-> "c"]) /\ f.left = e.left
  <1>1. PICK c \in Engines: c = TransportClose(e)
    <2>1. TransportClose(e) \in Engines
      BY TransportCloseTyped
    <2> QED  BY <2>1
  <1>2. e.name # "none" /\ Framed(e.name)
    BY EarsNamed DEF Tidy
  <1>3. Tidy(c)
    BY <1>1, <1>2, TransportCloseTidy
  <1>4. /\ c.name = e.name /\ c.facade = e.facade /\ c.down = e.down /\ c.buf = e.buf /\ c.left = e.left
        /\ c.rcv = e.rcv /\ c.snd = e.snd /\ c.flight = e.flight /\ c.frame = "removing"
        /\ c.up = Append(e.up, [type |-> "c"])
    BY <1>1, <1>2, TransportCloseKeeps
  <1>5. PICK f \in Engines: f = [c EXCEPT !.ears = e.ears]
    <2>1. e.ears \in BOOLEAN
      BY DEF Engines
    <2>2. [c EXCEPT !.ears = e.ears] \in Engines
      BY <2>1, EarsKept
    <2> QED  BY <2>2
  <1>6. /\ f.name = c.name /\ f.facade = c.facade /\ f.down = c.down /\ f.buf = c.buf /\ f.left = c.left
        /\ f.rcv = c.rcv /\ f.snd = c.snd /\ f.flight = c.flight /\ f.frame = c.frame /\ f.up = c.up
        /\ f.ears = e.ears
    BY <1>5 DEF Engines
  <1>7. Tidy(f) /\ Over(f)
    BY <1>2, <1>3, <1>4, <1>6 DEF Tidy, Over
  <1> QED  BY <1>1, <1>4, <1>5, <1>6, <1>7

LEMMA FrameEmitsKeeps ==
  ASSUME NEW x \in Parts, NEW code
  PROVE  FrameEmits(x, code).srv \in {x.srv, NewSession(x.srv.sent)}
  BY TransportEndKeeps DEF FrameEmits

\* The iframe transport e of the page closes itself and says so.
LEMMA FrameEndsStep ==
  ASSUME TypeOK, Solid(Now), NEW e \in Engines, Tidy(e), e.frame \in {"loading", "booted", "up"},
         e.ears = tr.ears, e.name = tr.name, e.left = tr.left, e.snd = tr.snd, e.buf = tr.buf,
         e.flight = tr.flight, e.up = tr.up, NEW code,
         Become(FrameEmits([Now EXCEPT !.tr = [TransportClose(e) EXCEPT !.ears = tr.ears]], code))
  PROVE  \E x \in Parts: Step(x) /\ Become(x)
  <1>1. Now \in Parts /\ Phase(Now) /\ Calm(Now) /\ Lasting(Now) /\ Mailed(Now)
    BY NowTyped DEF Solid
  <1>2. PICK f \in Engines: /\ f = [TransportClose(e) EXCEPT !.ears = e.ears] /\ Tidy(f) /\ Over(f)
                            /\ f.frame = "removing" /\ f.ears = e.ears /\ f.name = e.name /\ f.left = e.left
                            /\ f.snd = e.snd /\ f.buf = e.buf /\ f.flight = e.flight
                            /\ f.up = Append(e.up, [type |-> "c"])
    BY FrameCloses
  <1>3. PICK y \in Parts: y = [Now EXCEPT !.tr = f] /\ y.tr = f /\ y.sock = sock /\ y.srv = srv
    BY <1>1, NowFields, WithTransport
  <1>4. e.name # "none" /\ Framed(e.name)
    BY EarsNamed DEF Tidy
  <1>5. ~sock.ir
    BY <1>1, <1>4, NowFields, NoneFields DEF Phase
  <1>6. Moves(Now, y)
    <2>1. y.sock = Now.sock /\ y.tr.ears = Now.tr.ears /\ ~Now.sock.ir
      BY <1>2, <1>3, <1>5, NowFields
    <2> QED  BY <1>1, <2>1, PhaseKept
  <1>7. sock.readyState = CLOSED => ~tr.ears
    BY <1>1, NowFields DEF Phase, CONNECTING, OPEN, CLOSED
  <1>8. sock.readyState = CLOSED => e.left # "no"
    BY <1>4, <1>7 DEF Tidy
  <1>9. Calm(y) /\ Lasting(y)
    <2>1. Tidy(y.tr) /\ y.tr.left = e.left /\ y.sock = sock /\ y.srv = Now.srv
      BY <1>2, <1>3, NowFields
    <2>2. Lasting(y)
      BY <1>1, <2>1 DEF Lasting
    <2> QED  BY <1>8, <2>1, <2>2 DEF Calm
  <1>10. Moves(y, FrameEmits(y, code)) /\ Calm(FrameEmits(y, code)) /\ Lasting(FrameEmits(y, code))
    <2>1. Phase(y) /\ Over(y.tr)
      BY <1>2, <1>3, <1>6 DEF Moves
    <2>2. Moves(y, FrameEmits(y, code)) /\ Calm(FrameEmits(y, code))
      BY <1>9, <2>1, FrameEmitsMoves, FrameEmitsCalm
    <2> QED  BY <1>9, <2>2, FrameEmitsKeeps, WireKept
  <1>11. Moves(Now, FrameEmits(y, code))
    BY <1>1, <1>6, <1>10, MovesOn
  <1>12. Become(FrameEmits(y, code))
    BY <1>2, <1>3
  <1>13. Drops(tr, f)
    <2>1. e.up \in Seq(ToFrame) /\ [type |-> "c"] \in ToFrame
      BY CloseMessage DEF Engines
    <2>2. \A i \in Mail(Append(e.up, [type |-> "c"])): i \in Mail(e.up) /\ Append(e.up, [type |-> "c"])[i] = e.up[i]
      BY <2>1, MailPosted
    <2>3. /\ f.name = tr.name /\ f.flight = tr.flight /\ f.buf = tr.buf /\ f.snd = tr.snd
          /\ f.up = Append(e.up, [type |-> "c"]) /\ e.up = tr.up
      BY <1>2
    <2>4. \A i \in Mail(f.up): i \in Mail(tr.up) /\ f.up[i] = tr.up[i]
      BY <2>2, <2>3, Zenon
    <2> QED  BY <2>3, <2>4, DropsSame
  <1>14. Mailed(LetGo(y))
    <2>1. Phase(y) /\ y.sock = Now.sock /\ y.srv = Now.srv /\ Drops(Now.tr, y.tr)
      BY <1>3, <1>6, <1>13, NowFields DEF Moves
    <2>2. Sheds(Now, LetGo(y))
      <3>1. /\ y.sock.said = Now.sock.said /\ y.srv.got = Now.srv.got
            /\ y.sock.readyState = Now.sock.readyState
        BY <2>1
      <3> QED  BY <1>1, <2>1, <3>1, LetGoSheds
    <2> QED  BY <1>1, <2>2, LetGoMail, ShedsMailed
  <1>15. Mailed(FrameEmits(y, code))
    <2>1. CASE y.tr.ears
      BY <1>14, <2>1, TransportEndMailed DEF FrameEmits
    <2>2. CASE ~y.tr.ears
      <3>1. LetGo(y) = y
        BY <1>6, <2>2 DEF LetGo, Moves, Phase
      <3> QED  BY <1>14, <2>2, <3>1 DEF FrameEmits
    <2> QED  BY <2>1, <2>2
  <1> QED  BY <1>10, <1>11, <1>12, <1>15 DEF Step, Moves

LEMMA FrameFailsStep ==
  ASSUME TypeOK, Solid(Now), FrameFails
  PROVE  \E x \in Parts: Step(x) /\ Become(x)
  <1>1. tr \in Engines /\ Tidy(tr) /\ tr.frame \in {"loading", "booted", "up"}
    BY NowFields DEF Solid, TypeOK, Calm, FrameFails
  <1>2. Become(FrameEmits([Now EXCEPT !.tr = [TransportClose(tr) EXCEPT !.ears = tr.ears]], 1006))
    BY DEF FrameFails
  <1> QED  BY <1>1, <1>2, FrameEndsStep

LEMMA HeardTyped ==
  ASSUME NEW e \in Engines, e.down # <<>>
  PROVE  LET f == [e EXCEPT !.down = Tail(@)] IN
         /\ f \in Engines /\ f.name = e.name /\ f.ears = e.ears /\ f.left = e.left /\ f.rcv = e.rcv /\ f.snd = e.snd
         /\ f.frame = e.frame /\ f.facade = e.facade /\ f.up = e.up /\ f.down = Tail(e.down)
         /\ f.buf = e.buf /\ f.flight = e.flight
  <1>1. e.down \in Seq(ToPage)
    BY DEF Engines
  <1>2. Tail(e.down) \in Seq(ToPage)
    BY <1>1, TailTyped
  <1>3. [e EXCEPT !.down = Tail(@)] \in Engines
    BY <1>2 DEF Engines
  <1> QED  BY <1>3 DEF Engines

LEMMA UpTyped ==
  ASSUME NEW e \in Engines
  PROVE  LET f == [e EXCEPT !.frame = "up", !.up = Append(@, [type |-> "s"])] IN
         /\ f \in Engines /\ f.name = e.name /\ f.ears = e.ears /\ f.left = e.left /\ f.rcv = e.rcv /\ f.snd = e.snd
         /\ f.frame = "up" /\ f.facade = e.facade /\ f.up = Append(e.up, [type |-> "s"]) /\ f.down = e.down
         /\ f.buf = e.buf /\ f.flight = e.flight
  <1>1. [type |-> "s"] \in [type: {"s", "c"}]
    OBVIOUS
  <1>2. e.up \in Seq(ToFrame) /\ [type |-> "s"] \in ToFrame
    BY <1>1 DEF Engines, ToFrame
  <1>3. PICK q \in Seq(ToFrame): q = Append(e.up, [type |-> "s"])
    BY <1>2, AppendTyped
  <1>4. [e EXCEPT !.frame = "up", !.up = q] \in Engines
    BY DEF Engines
  <1> QED  BY <1>3, <1>4 DEF Engines

LEMMA ToPageKinds ==
  ASSUME NEW d \in ToPage
  PROVE  d.type \in {"s", "t", "c"} /\ (d.type = "t" => d.frame \in Frames) /\ (d.type = "c" => d.code \in {1000, 1006})
  <1>1. d \in [type: {"s"}] \/ d \in [type: {"t"}, frame: Frames] \/ d \in [type: {"c"}, code: {1000, 1006}]
    BY DEF ToPage
  <1>2. CASE d \in [type: {"s"}]
    BY <1>2
  <1>3. CASE d \in [type: {"t"}, frame: Frames]
    BY <1>3
  <1>4. CASE d \in [type: {"c"}, code: {1000, 1006}]
    BY <1>4
  <1> QED  BY <1>1, <1>2, <1>3, <1>4

LEMMA PageReceivesStep ==
  ASSUME TypeOK, Solid(Now), PageReceives
  PROVE  \E x \in Parts: Step(x) /\ Become(x)
  <1>1. /\ Now \in Parts /\ Phase(Now) /\ Calm(Now) /\ Lasting(Now) /\ Mailed(Now) /\ tr \in Engines /\ Tidy(tr)
        /\ tr.frame \in {"booted", "up"} /\ tr.down # <<>>
    BY NowTyped, NowFields DEF Solid, TypeOK, Calm, PageReceives
  <1>2. PICK msg \in ToPage: msg = Head(tr.down)
    <2>1. tr.down \in Seq(ToPage)
      BY <1>1 DEF Engines
    <2> QED  BY <1>1, <2>1, TailTyped
  <1>3. PICK e \in Engines: e = [tr EXCEPT !.down = Tail(@)]
    <2>1. [tr EXCEPT !.down = Tail(@)] \in Engines
      BY <1>1, HeardTyped
    <2> QED  BY <2>1
  <1>4. /\ e.name = tr.name /\ e.ears = tr.ears /\ e.left = tr.left /\ e.rcv = tr.rcv /\ e.snd = tr.snd
        /\ e.frame = tr.frame /\ e.facade = tr.facade /\ e.up = tr.up
        /\ e.buf = tr.buf /\ e.flight = tr.flight
    BY <1>1, <1>3 DEF Engines
  <1>5. tr.name # "none" /\ Framed(tr.name)
    BY <1>1, EarsNamed DEF Tidy
  <1>6. Tidy(e)
    BY <1>1, <1>4, <1>5 DEF Tidy
  <1>7. CASE msg.type = "s"
    <2>1. PICK f \in Engines: f = [e EXCEPT !.frame = "up", !.up = Append(@, [type |-> "s"])]
      <3>1. [e EXCEPT !.frame = "up", !.up = Append(@, [type |-> "s"])] \in Engines
        BY UpTyped
      <3> QED  BY <3>1
    <2>2. /\ f.name = e.name /\ f.ears = e.ears /\ f.left = e.left /\ f.rcv = e.rcv /\ f.snd = e.snd
          /\ f.frame = "up" /\ f.facade = e.facade /\ f.buf = e.buf /\ f.flight = e.flight
          /\ f.up = Append(e.up, [type |-> "s"])
      BY <2>1, UpTyped
    <2>3. PICK y \in Parts: y = [Now EXCEPT !.tr = f] /\ y.tr = f /\ y.sock = sock /\ y.srv = srv
      BY <1>1, NowFields, WithTransport
    <2>4. Become(y)
      BY <1>2, <1>3, <1>7, <2>1, <2>3 DEF PageReceives
    <2>5. Tidy(f)
      BY <1>1, <1>4, <1>5, <2>2 DEF Tidy
    <2>6. Lasting(y)
      BY <1>1, <2>3, NowFields DEF Lasting
    <2>7. Mailed(y)
      <3>1. e.up \in Seq(ToFrame) /\ [type |-> "s"] \in ToFrame
        BY CloseMessage DEF Engines
      <3>2. \A i \in Mail(Append(e.up, [type |-> "s"])): i \in Mail(e.up) /\ Append(e.up, [type |-> "s"])[i] = e.up[i]
        BY <3>1, MailPosted
      <3>3. Drops(tr, f)
        <4>1. \A i \in Mail(f.up): i \in Mail(tr.up) /\ f.up[i] = tr.up[i]
          BY <1>4, <2>2, <3>2, Zenon
        <4>2. f.name = tr.name /\ f.flight = tr.flight /\ f.buf = tr.buf /\ f.snd = tr.snd
          BY <1>4, <2>2
        <4> QED  BY <4>1, <4>2, DropsSame
      <3>4. Sheds(Now, y)
        BY <1>1, <1>4, <2>2, <2>3, <3>3, NowFields, EngineSheds
      <3> QED  BY <1>1, <3>4, ShedsMailed
    <2> QED  BY <1>4, <1>5, <2>2, <2>3, <2>4, <2>5, <2>6, <2>7, EngineStep
  <1>8. CASE msg.type = "t"
    <2>1. PICK y \in Parts: y = [Now EXCEPT !.tr = e] /\ y.tr = e /\ y.sock = sock /\ y.srv = srv
      BY <1>1, NowFields, WithTransport
    <2>2. PICK does \in Does: Become(IF e.ears THEN _transportMessage(y, msg.frame, does) ELSE y)
      BY <1>2, <1>3, <1>8, <2>1 DEF PageReceives
    <2>3. Lasting(y)
      BY <1>1, <2>1, NowFields DEF Lasting
    <2>4. Step(y)
      <3>1. y.tr.frame = "removing" => tr.frame = "removing" \/ tr.ears \/ tr.left # "no"
        BY <1>1, <1>4, <2>1
      <3>2. Mailed(y)
        BY <1>1, <1>4, <2>1, NowFields, EngineMailed
      <3> QED  BY <1>4, <1>5, <1>6, <2>1, <2>3, <3>1, <3>2, EngineStep
    <2>5. CASE ~e.ears
      BY <2>2, <2>4, <2>5
    <2>6. CASE e.ears
      <3>1. msg.frame \in Frames
        BY <1>8, ToPageKinds
      <3>2. Phase(y) /\ Calm(y) /\ Mailed(y)
        BY <2>4 DEF Step, Moves
      <3>3. y.sock.transport
        BY <2>1, <2>6, <3>2 DEF Phase
      <3>4. PICK z \in Parts: z = _transportMessage(y, msg.frame, does) /\ Moves(y, z) /\ Calm(z) /\ z.srv = y.srv
                                /\ Mailed(z)
        BY <3>1, <3>2, <3>3, MessageMoves, MessageCalm, MessageKeeps, MessageMailed
      <3>5. Lasting(z)
        BY <2>3, <3>4, WireKept
      <3>6. Moves(Now, z)
        BY <1>1, <2>4, <3>4, MovesOn DEF Step
      <3> QED  BY <2>2, <2>6, <3>4, <3>5, <3>6 DEF Step
    <2> QED  BY <2>5, <2>6
  <1>9. CASE msg.type = "c"
    <2>1. Become(FrameEmits([Now EXCEPT !.tr = [TransportClose(e) EXCEPT !.ears = tr.ears]], msg.code))
      BY <1>2, <1>3, <1>9 DEF PageReceives
    <2> QED  BY <1>1, <1>4, <1>6, <2>1, FrameEndsStep
  <1> QED  BY <1>7, <1>8, <1>9, ToPageKinds

LEMMA FramedFields ==
  ASSUME NEW e \in Engines, e.up # <<>>, NEW refused \in BOOLEAN
  PROVE  LET f == FrameReceives(e, Head(e.up), refused) IN
         /\ f.name = e.name /\ f.ears = e.ears /\ f.left \in {e.left, "early"} /\ f.frame = e.frame
         /\ f.up = Tail(e.up) /\ f.down = e.down
         /\ Head(e.up) \in ToFrame
  <1>1. e.up \in Seq(ToFrame)
    BY DEF Engines
  <1>2. Head(e.up) \in ToFrame /\ Tail(e.up) \in Seq(ToFrame)
    BY <1>1, TailTyped
  <1>3. PICK r \in Engines: r = [e EXCEPT !.up = Tail(@)]
    <2>1. [e EXCEPT !.up = Tail(@)] \in Engines
      BY <1>2 DEF Engines
    <2> QED  BY <2>1
  <1>4. /\ r.name = e.name /\ r.ears = e.ears /\ r.left = e.left /\ r.frame = e.frame
        /\ r.up = Tail(e.up) /\ r.down = e.down
    BY <1>3 DEF Engines
  <1>a. Head(e.up).type = "m" => Head(e.up).m \in Said
    BY <1>2, ToFrameKinds
  <1>b. Head(e.up).type \in {"s", "m", "c"}
    BY <1>2, ToFrameKinds
  <1>5. CASE Head(e.up).type = "s"
    <2>1. FrameReceives(e, Head(e.up), refused) = IF refused THEN r ELSE [r EXCEPT !.facade = "hears", !.rcv = "scheduled"]
      BY <1>3, <1>5 DEF FrameReceives
    <2>2. LET f == [r EXCEPT !.facade = "hears", !.rcv = "scheduled"] IN
          /\ f.name = r.name /\ f.ears = r.ears /\ f.left = r.left /\ f.frame = r.frame /\ f.up = r.up /\ f.down = r.down
      BY DEF Engines
    <2> QED  BY <1>2, <1>4, <2>1, <2>2
  <1>6. CASE Head(e.up).type = "m"
    <2>1. FrameReceives(e, Head(e.up), refused) \in {r, EngineSend(r, Head(e.up).m)}
      BY <1>3, <1>6 DEF FrameReceives
    <2> QED  BY <1>2, <1>4, <1>6, <1>a, <2>1, EngineSendKeeps
  <1>7. CASE Head(e.up).type = "c"
    <2>1. PICK c \in Engines: c = EngineClose(r)
      BY EngineCloseTyped
    <2>2. c.name = r.name /\ c.ears = r.ears /\ c.left \in {r.left, "early"} /\ c.frame = r.frame /\ c.up = r.up /\ c.down = r.down
      BY <2>1, EngineCloseKeeps
    <2>3. FrameReceives(e, Head(e.up), refused) \in {r, [c EXCEPT !.facade = "none"]}
      BY <1>3, <1>7, <2>1 DEF FrameReceives
    <2>4. LET f == [c EXCEPT !.facade = "none"] IN
          /\ f.name = c.name /\ f.ears = c.ears /\ f.left = c.left /\ f.frame = c.frame /\ f.up = c.up /\ f.down = c.down
      BY DEF Engines
    <2> QED  BY <1>2, <1>4, <2>2, <2>3, <2>4
  <1> QED  BY <1>5, <1>6, <1>7, <1>b

\* The iframe takes the next mail of the page.
LEMMA TailMail ==
  ASSUME NEW q \in Seq(ToFrame), q # <<>>
  PROVE  /\ \A i \in Mail(Tail(q)): i \in Nat /\ i + 1 \in Mail(q) /\ Tail(q)[i] = q[i + 1]
         /\ Head(q).type = "m" => 1 \in Mail(q) /\ q[1] = Head(q) /\ \A i \in Mail(Tail(q)): 1 < i + 1
  <1>1. /\ Tail(q) \in Seq(ToFrame) /\ Len(q) \in Nat /\ Len(q) >= 1 /\ Len(Tail(q)) = Len(q) - 1 /\ Head(q) = q[1]
        /\ \A i \in 1..Len(Tail(q)): Tail(q)[i] = q[i + 1]
        /\ DOMAIN q = 1..Len(q)
    BY HeadTailProperties, LenProperties, EmptySeq
  <1>2. DOMAIN Tail(q) = 1..Len(Tail(q))
    BY <1>1, LenProperties
  <1>3. ASSUME NEW i \in Mail(Tail(q)) PROVE i \in Nat /\ i + 1 \in Mail(q) /\ Tail(q)[i] = q[i + 1] /\ 1 < i + 1
    <2>1. i \in 1..(Len(q) - 1) /\ Tail(q)[i].type = "m"
      BY <1>1, <1>2 DEF Mail
    <2>2. i \in Nat /\ i + 1 \in 1..Len(q) /\ Tail(q)[i] = q[i + 1] /\ 1 < i + 1
      BY <1>1, <2>1
    <2> QED  BY <1>1, <2>1, <2>2 DEF Mail
  <1>4. Head(q).type = "m" => 1 \in Mail(q)
    BY <1>1 DEF Mail
  <1> QED  BY <1>1, <1>3, <1>4

LEMMA FrameGetsMail ==
  ASSUME NEW x \in Parts, Mailed(x), x.tr.name # "none", Framed(x.tr.name), x.tr.up # <<>>, NEW refused \in BOOLEAN,
         NEW y \in Parts, y.sock = x.sock, y.srv = x.srv, y.tr = FrameReceives(x.tr, Head(x.tr.up), refused)
  PROVE  Mailed(y)
  <1>1. PICK e \in Engines: e = x.tr
    BY Fields
  <1>2. e.up \in Seq(ToFrame) /\ e.up # <<>> /\ e.name \in TransportNames /\ Framed(e.name)
    BY <1>1 DEF Engines
  <1>3. Head(e.up) \in ToFrame /\ Tail(e.up) \in Seq(ToFrame)
    BY <1>2, TailTyped
  <1>4. PICK r \in Engines: r = [e EXCEPT !.up = Tail(@)]
    <2>1. [e EXCEPT !.up = Tail(@)] \in Engines
      BY <1>3 DEF Engines
    <2> QED  BY <2>1
  <1>5. /\ r.name = e.name /\ r.ears = e.ears /\ r.snd = e.snd /\ r.buf = e.buf /\ r.flight = e.flight
        /\ r.up = Tail(e.up)
    BY <1>4 DEF Engines
  <1>6. PICK z \in Parts: z = [x EXCEPT !.tr = r] /\ z.tr = r /\ z.sock = x.sock /\ z.srv = x.srv
    BY WithTransport
  <1>7. /\ InTurn(x.srv.got, e.flight, e.buf) /\ Below(x, x.sock.said + 1)
        /\ \A i \in Mail(e.up): e.up[i].m <= x.sock.said /\ Below(x, e.up[i].m)
        /\ \A i, j \in Mail(e.up): i < j => e.up[i].m < e.up[j].m
        /\ x.sock.readyState = CONNECTING => x.sock.said = 0
    BY <1>1 DEF Mailed, Posted
  <1>8. \A n: Below(x, n) => Below(z, n)
    BY <1>1, <1>5, <1>6 DEF Below
  <1>9. /\ \A i \in Mail(r.up): r.up[i].m <= x.sock.said /\ Below(z, r.up[i].m)
        /\ \A i, j \in Mail(r.up): i < j => r.up[i].m < r.up[j].m
    <2>1. ASSUME NEW i \in Mail(r.up) PROVE r.up[i].m <= x.sock.said /\ Below(z, r.up[i].m)
      <3>1. i + 1 \in Mail(e.up) /\ r.up[i] = e.up[i + 1]
        BY <1>2, <1>5, TailMail
      <3> QED  BY <1>7, <1>8, <3>1
    <2>2. ASSUME NEW i \in Mail(r.up), NEW j \in Mail(r.up), i < j PROVE r.up[i].m < r.up[j].m
      <3>1. /\ i \in Nat /\ i + 1 \in Mail(e.up) /\ r.up[i] = e.up[i + 1]
            /\ j \in Nat /\ j + 1 \in Mail(e.up) /\ r.up[j] = e.up[j + 1]
        BY <1>2, <1>5, TailMail
      <3>2. i + 1 < j + 1
        BY <2>2, <3>1
      <3> QED  BY <1>7, <3>1, <3>2
    <2> QED  BY <2>1, <2>2
  <1>10. Posted(z)
    BY <1>5, <1>6, <1>7, <1>8, <1>9 DEF Posted
  <1>11. ~Direct(r) /\ Whole(z)
    BY <1>2, <1>5, <1>6 DEF Direct, Whole
  <1>12. z \in Parts /\ Mailed(z) /\ Framed(z.tr.name) /\ y.sock = z.sock /\ y.srv = z.srv
    BY <1>2, <1>5, <1>6, <1>10, <1>11 DEF Mailed
  <1>13. Head(e.up).type \in {"s", "m", "c"} /\ (Head(e.up).type = "m" => Head(e.up).m \in Said)
    BY <1>3, ToFrameKinds
  <1>14. CASE y.tr = r
    BY <1>6, <1>12, <1>14, SameMail
  <1>15. CASE Head(e.up).type = "s"
    <2>1. y.tr = IF refused THEN r ELSE [r EXCEPT !.facade = "hears", !.rcv = "scheduled"]
      BY <1>1, <1>4, <1>15 DEF FrameReceives
    <2>2. LET f == [r EXCEPT !.facade = "hears", !.rcv = "scheduled"] IN
          /\ f.name = r.name /\ f.ears = r.ears /\ f.snd = r.snd /\ f.buf = r.buf /\ f.flight = r.flight /\ f.up = r.up
      BY DEF Engines
    <2>3. /\ y.tr.name = r.name /\ y.tr.ears = r.ears /\ y.tr.snd = r.snd /\ y.tr.buf = r.buf
          /\ y.tr.flight = r.flight /\ y.tr.up = r.up
      BY <2>1, <2>2
    <2> QED  BY <1>6, <1>12, <2>3, EngineMailed
  <1>16. CASE Head(e.up).type = "c" /\ y.tr # r
    <2>1. PICK c \in Engines: c = EngineClose(r)
      BY EngineCloseTyped
    <2>2. y.tr = [c EXCEPT !.facade = "none"]
      BY <1>1, <1>4, <1>16, <2>1 DEF FrameReceives
    <2>3. /\ y.tr.name = c.name /\ y.tr.ears = c.ears /\ y.tr.snd = c.snd /\ y.tr.buf = c.buf
          /\ y.tr.flight = c.flight /\ y.tr.up = c.up
      BY <2>2 DEF Engines
    <2>4. PICK w \in Parts: w = [z EXCEPT !.tr = c]
      <3>1. [z EXCEPT !.tr = c] \in Parts
        BY WithTransport
      <3> QED  BY <3>1
    <2>5. w.tr = c /\ w.sock = z.sock /\ w.srv = z.srv
      BY <2>4, WithTransport
    <2>6. Drops(z.tr, w.tr)
      BY <1>6, <2>1, <2>5, EngineCloseDrops
    <2>7. Mailed(w)
      <3>1. Sheds(z, w)
        BY <1>12, <2>5, <2>6, EngineSheds
      <3> QED  BY <1>12, <3>1, ShedsMailed
    <2> QED  BY <1>12, <2>3, <2>5, <2>7, EngineMailed
  <1>17. CASE Head(e.up).type = "m" /\ y.tr # r
    <2>1. PICK m \in Said: m = Head(e.up).m
      BY <1>13, <1>17
    <2>2. y.tr = EngineSend(r, m)
      BY <1>1, <1>4, <1>17, <2>1 DEF FrameReceives
    <2>3. PICK f \in Engines: f = y.tr
      BY Fields
    <2>4. f.name = r.name /\ f.ears = r.ears /\ f.up = r.up
      BY <2>2, <2>3, EngineSendKeeps
    <2>5. 1 \in Mail(e.up) /\ e.up[1].m = m
      BY <1>2, <1>17, <2>1, TailMail
    <2>6. m <= x.sock.said /\ Under(x.srv.got, m) /\ Under(e.flight, m) /\ Under(e.buf, m)
      BY <1>1, <1>7, <2>5 DEF Below
    <2>7. x.srv.got \in Seq(Said) /\ x.sock.said \in Nat
      BY Fields, BoundsAssumption DEF Sessions, Sockets
    <2>8. Sender(r.name) # "ws"
      BY <1>2, <1>5, Kinds
    <2>9. InTurn(x.srv.got, f.flight, f.buf) /\ \A n \in Nat: m < n => Under(f.flight, n) /\ Under(f.buf, n)
      <3>1. InTurn(x.srv.got, r.flight, r.buf) /\ Under(r.flight, m) /\ Under(r.buf, m)
        BY <1>5, <1>7, <2>6
      <3> QED  BY <2>2, <2>3, <2>6, <2>7, <2>8, <3>1, EngineSendOrdered
    <2>10. \A n \in Nat: m < n /\ Below(x, n) => Below(y, n)
      BY <2>3, <2>9 DEF Below
    <2>11. Below(y, x.sock.said + 1)
      <3>1. m < x.sock.said + 1 /\ x.sock.said + 1 \in Nat
        BY <2>6, <2>7 DEF Said
      <3> QED  BY <1>7, <2>10, <3>1
    <2>12. ASSUME NEW i \in Mail(f.up) PROVE f.up[i].m <= x.sock.said /\ Below(y, f.up[i].m)
      <3>1. i + 1 \in Mail(e.up) /\ f.up[i] = e.up[i + 1] /\ 1 < i + 1
        BY <1>2, <1>5, <1>17, <2>4, TailMail
      <3>2. m < e.up[i + 1].m /\ e.up[i + 1].m <= x.sock.said /\ Below(x, e.up[i + 1].m)
        BY <1>7, <2>5, <3>1
      <3>3. e.up[i + 1].m \in Nat
        <4>1. i + 1 \in DOMAIN e.up /\ e.up[i + 1].type = "m"
          BY <3>1 DEF Mail
        <4>2. e.up[i + 1] \in ToFrame
          BY <1>2, <4>1, ElementOfSeq, LenProperties
        <4> QED  BY <4>1, <4>2, ToFrameKinds DEF Said
      <3> QED  BY <2>10, <3>1, <3>2, <3>3
    <2>13. \A i, j \in Mail(f.up): i < j => f.up[i].m < f.up[j].m
      BY <1>9, <2>4
    <2>14. Posted(y)
      BY <1>7, <2>3, <2>9, <2>11, <2>12, <2>13 DEF Posted
    <2>15. Whole(y)
      BY <1>2, <1>5, <2>3, <2>4 DEF Whole, Direct
    <2> QED  BY <2>14, <2>15 DEF Mailed
  <1> QED  BY <1>13, <1>14, <1>15, <1>16, <1>17

LEMMA GoneMail ==
  ASSUME NEW x \in Parts, Mailed(x), Framed(x.tr.name), NEW y \in Parts, y.sock = x.sock, y.srv.got = x.srv.got,
         y.tr = Removed(x.tr)
  PROVE  Mailed(y)
  <1>1. /\ y.tr.name = x.tr.name /\ y.tr.flight = <<>> /\ y.tr.buf = <<>> /\ y.tr.up = <<>>
    BY NoneTyped, NoneFields DEF Removed, Engines
  <1>2. Drops(x.tr, y.tr)
    <2>1. ~Direct(x.tr)
      BY DEF Direct
    <2> QED  BY <1>1, <2>1, NoneLeft DEF Drops
  <1>3. Sheds(x, y)
    BY <1>2, EngineSheds
  <1> QED  BY <1>3, ShedsMailed

LEMMA FrameGetsStep ==
  ASSUME TypeOK, Solid(Now), FrameGets
  PROVE  \E x \in Parts: Step(x) /\ Become(x)
  <1>1. /\ Now \in Parts /\ Tidy(tr) /\ Lasting(Now) /\ Mailed(Now) /\ tr \in Engines
        /\ tr.frame \in {"up", "removing"} /\ tr.up # <<>>
    BY NowTyped, NowFields DEF Solid, TypeOK, Calm, FrameGets
  <1>2. PICK refused \in BOOLEAN: Become([Now EXCEPT !.tr = FrameReceives(@, Head(tr.up), refused)])
    BY DEF FrameGets
  <1>3. PICK e \in Engines: e = FrameReceives(tr, Head(tr.up), refused)
    <2>1. FrameReceives(tr, Head(tr.up), refused) \in Engines
      BY <1>1, FrameReceivesTyped
    <2> QED  BY <2>1
  <1>4. /\ e.name = tr.name /\ e.ears = tr.ears /\ e.left \in {tr.left, "early"} /\ e.frame = tr.frame
    BY <1>1, <1>3, FramedFields
  <1>5. tr.name # "none" /\ Framed(tr.name)
    BY <1>1, EarsNamed DEF Tidy
  <1>6. Tidy(e)
    <2>1. tr.name \in TransportNames
      BY <1>1, <1>5 DEF Engines
    <2>2. Sender(tr.name) # "ws"
      BY <1>5, <2>1, Kinds
    <2> QED  BY <1>1, <1>4, <1>5, <2>2 DEF Tidy
  <1>7. PICK y \in Parts: y = [Now EXCEPT !.tr = e] /\ y.tr = e /\ y.sock = sock /\ y.srv = srv
    BY <1>1, NowFields, WithTransport
  <1>8. Become(y)
    BY <1>2, <1>3, <1>7, NowFields
  <1>9. Lasting(y)
    BY <1>1, <1>7, NowFields DEF Lasting
  <1>10. Mailed(y)
    BY <1>1, <1>3, <1>5, <1>7, NowFields, FrameGetsMail
  <1> QED  BY <1>4, <1>5, <1>6, <1>7, <1>8, <1>9, <1>10, EngineStep

LEMMA FrameRemovedStep ==
  ASSUME TypeOK, Solid(Now), FrameRemoved
  PROVE  \E x \in Parts: Step(x) /\ Become(x)
  <1>1. Now \in Parts /\ Phase(Now) /\ Calm(Now) /\ Mailed(Now) /\ Tidy(tr) /\ tr \in Engines /\ tr.frame = "removing"
    BY NowTyped, NowFields DEF Solid, TypeOK, Calm, FrameRemoved
  <1>2. PICK e \in Engines: e = Removed(tr)
    <2>1. Removed(tr) \in Engines
      BY <1>1, RemovedTyped
    <2> QED  BY <2>1
  <1>3. /\ e.name = tr.name /\ e.ears = tr.ears /\ e.left = tr.left /\ e.rcv = "none" /\ e.snd = "none" /\ e.frame = "gone"
    BY <1>2, NoneTyped, NoneFields DEF Removed, Engines
  <1>4. tr.name # "none" /\ Framed(tr.name)
    BY <1>1, EarsNamed DEF Tidy
  <1>5. Tidy(e)
    <2>1. tr.name \in TransportNames
      BY <1>1, <1>4 DEF Engines
    <2>2. Sender(tr.name) # "ws"
      BY <1>4, <2>1, Kinds
    <2> QED  BY <1>1, <1>3, <1>4, <2>2 DEF Tidy
  <1>6. PICK z \in Parts: z = Emptied(Now) /\ z.sock = sock /\ z.tr = tr /\ z.srv.wire = <<>> /\ z.srv.got = srv.got
    BY <1>1, NowFields, EmptiedFields
  <1>7. PICK y \in Parts: y = [z EXCEPT !.tr = e]
    <2>1. [z EXCEPT !.tr = e] \in Parts
      BY WithTransport
    <2> QED  BY <2>1
  <1>8. y.tr = e /\ y.sock = z.sock /\ y.srv = z.srv
    BY <1>7, WithTransport
  <1>9. Become(y)
    <2>1. [Now EXCEPT !.tr = Removed(@), !.srv.wire = <<>>] = [Emptied(Now) EXCEPT !.tr = Removed(@)]
      BY <1>1 DEF Emptied, Parts
    <2>2. [Emptied(Now) EXCEPT !.tr = Removed(@)] = y
      BY <1>2, <1>6, <1>7 DEF Parts
    <2> QED  BY <2>1, <2>2 DEF FrameRemoved
  <1>10. Lasting(y)
    BY <1>6, <1>8 DEF Lasting
  <1>11. Mailed(y)
    BY <1>1, <1>2, <1>4, <1>6, <1>8, NowFields, GoneMail
  <1> QED  BY <1>3, <1>4, <1>5, <1>6, <1>8, <1>9, <1>10, <1>11, EngineStep

-----------------------------------------------------------------------------
\* The server.

LEMMA OnWireKinds ==
  /\ [type |-> "o"] \in OnWire /\ [type |-> "h"] \in OnWire /\ [type |-> "c"] \in OnWire /\ [type |-> "end"] \in OnWire
  /\ \A q \in Seq(Messages): q # <<>> => [type |-> "a", msgs |-> q] \in OnWire
  <1>1. [type |-> "o"] \in [type: {"o", "h", "c"}] /\ [type |-> "h"] \in [type: {"o", "h", "c"}]
        /\ [type |-> "c"] \in [type: {"o", "h", "c"}] /\ [type |-> "end"] \in [type: {"end"}]
    OBVIOUS
  <1>2. ASSUME NEW q \in Seq(Messages), q # <<>>
        PROVE  [type |-> "a", msgs |-> q] \in [type: {"a"}, msgs: Seq(Messages) \ {<<>>}]
    BY <1>2
  <1> QED  BY <1>1, <1>2 DEF OnWire, Frames

LEMMA Written ==
  ASSUME TypeOK, Solid(Now), \A i \in DOMAIN srv.wire: srv.wire[i].type \notin {"end", "c"}, NEW f \in OnWire,
         NEW s \in Sessions, s.wire = Append(srv.wire, f), s.got = srv.got, srv' = s, UNCHANGED <<place, sock, tr, left>>
  PROVE  \E x \in Parts: Step(x) /\ Become(x)
  <1>1. Now \in Parts /\ srv.wire \in Seq(OnWire)
    BY NowTyped DEF TypeOK, Sessions
  <1>2. PICK y \in Parts: y = [Now EXCEPT !.srv = s] /\ y.srv = s /\ y.sock = sock /\ y.tr = tr /\ y.left = left
    BY <1>1, NowFields, WithSession
  <1>3. Become(y)
    BY <1>2 DEF Become
  <1>4. Len(srv.wire) \in Nat /\ DOMAIN srv.wire = 1..Len(srv.wire)
    BY <1>1, LenProperties
  <1>5. /\ Len(s.wire) = Len(srv.wire) + 1 /\ DOMAIN s.wire = 1..Len(srv.wire) + 1
        /\ \A i \in 1..Len(srv.wire): s.wire[i] = srv.wire[i]
    BY <1>1, <1>4, AppendProperties, LenProperties
  <1>6. Lasting(y)
    BY <1>2, <1>4, <1>5 DEF Lasting
  <1> QED  BY <1>2, <1>3, <1>6, SessionStep

LEMMA Unwritten ==
  ASSUME TypeOK, Solid(Now), NEW s \in Sessions, s.wire = srv.wire, s.got = srv.got, srv' = s, UNCHANGED <<place, sock, tr, left>>
  PROVE  \E x \in Parts: Step(x) /\ Become(x)
  <1>1. Now \in Parts /\ Lasting(Now)
    BY NowTyped DEF Solid
  <1>2. PICK y \in Parts: y = [Now EXCEPT !.srv = s] /\ y.srv = s /\ y.sock = sock /\ y.tr = tr /\ y.left = left
    BY <1>1, NowFields, WithSession
  <1>3. Become(y)
    BY <1>2 DEF Become
  <1>6. Lasting(y)
    BY <1>1, <1>2, NowFields DEF Lasting
  <1> QED  BY <1>2, <1>3, <1>6, SessionStep

LEMMA SessionTyped ==
  ASSUME NEW s \in Sessions
  PROVE  /\ \A f \in OnWire, st \in {"none", "open", "closed"}, q \in Seq(Messages):
              [s EXCEPT !.wire = Append(s.wire, f), !.state = st, !.queue = q] \in Sessions
         /\ \A st \in {"none", "open", "closed"}, q \in Seq(Messages), n \in 0..MaxMessages:
              [s EXCEPT !.state = st, !.queue = q, !.sent = n] \in Sessions
         /\ \A g \in Seq(Said): [s EXCEPT !.got = g] \in Sessions
  <1>1. ASSUME NEW f \in OnWire, NEW st \in {"none", "open", "closed"}, NEW q \in Seq(Messages)
        PROVE  [s EXCEPT !.wire = Append(s.wire, f), !.state = st, !.queue = q] \in Sessions
    <2>1. Append(s.wire, f) \in Seq(OnWire)
      BY AppendTyped DEF Sessions
    <2> QED  BY <2>1 DEF Sessions
  <1>2. ASSUME NEW st \in {"none", "open", "closed"}, NEW q \in Seq(Messages), NEW n \in 0..MaxMessages
        PROVE  [s EXCEPT !.state = st, !.queue = q, !.sent = n] \in Sessions
    BY DEF Sessions
  <1>3. ASSUME NEW g \in Seq(Said) PROVE [s EXCEPT !.got = g] \in Sessions
    BY DEF Sessions
  <1> QED  BY <1>1, <1>2, <1>3

LEMMA ServerSteps ==
  ASSUME TypeOK, Solid(Now), Server, ~ServerGets
  PROVE  \E x \in Parts: Step(x) /\ Become(x)
  <1>1. srv \in Sessions /\ srv.queue \in Seq(Messages) /\ <<>> \in Seq(Messages) /\ srv.state \in {"none", "open", "closed"}
        /\ srv.sent \in 0..MaxMessages /\ srv.wire \in Seq(OnWire)
    BY EmptyTyped DEF TypeOK, Sessions
  <1>2. CASE ServerOpens
    <2>1. PICK f \in OnWire: f = [type |-> "o"]
      BY OnWireKinds
    <2>2. PICK s \in Sessions: s = [srv EXCEPT !.wire = Append(srv.wire, f), !.state = "open", !.queue = srv.queue]
      BY <1>1, SessionTyped
    <2>3. s.wire = Append(srv.wire, f) /\ s.got = srv.got
      BY <1>1, <2>2 DEF Sessions
    <2>4. s = [srv EXCEPT !.wire = Append(@, [type |-> "o"]), !.state = "open"]
      BY <1>1, <2>1, <2>2 DEF Sessions
    <2>5. srv' = s /\ UNCHANGED <<place, sock, tr, left>> /\ \A i \in DOMAIN srv.wire: srv.wire[i].type \notin {"end", "c"}
      BY <1>2, <2>4 DEF ServerOpens, Answering
    <2> QED  BY <2>3, <2>5, Written
  <1>3. CASE ServerSends
    <2>1. srv.sent + 1 \in 0..MaxMessages /\ srv.sent + 1 \in Messages
      BY <1>1, <1>3, BoundsAssumption DEF ServerSends, Messages
    <2>2. PICK q \in Seq(Messages): q = Append(srv.queue, srv.sent + 1)
      BY <1>1, <2>1, AppendTyped
    <2>3. PICK n \in 0..MaxMessages: n = srv.sent + 1
      BY <2>1
    <2>4. PICK s \in Sessions: s = [srv EXCEPT !.state = srv.state, !.queue = q, !.sent = n]
      BY <1>1, SessionTyped
    <2>5. s.wire = srv.wire /\ s.got = srv.got
      BY <1>1, <2>4 DEF Sessions
    <2>6. s = [srv EXCEPT !.sent = @ + 1, !.queue = Append(@, srv.sent + 1)]
      BY <1>1, <2>2, <2>3, <2>4 DEF Sessions
    <2>7. srv' = s /\ UNCHANGED <<place, sock, tr, left>>
      BY <1>3, <2>6 DEF ServerSends
    <2> QED  BY <2>5, <2>7, Unwritten
  <1>4. CASE ServerWrites
    <2>1. PICK f \in OnWire: f = [type |-> "a", msgs |-> srv.queue]
      BY <1>1, <1>4, OnWireKinds DEF ServerWrites
    <2>a. <<>> \in Seq(Messages)
      BY EmptyTyped
    <2>2. PICK s \in Sessions: s = [srv EXCEPT !.wire = Append(srv.wire, f), !.state = srv.state, !.queue = <<>>]
      BY <1>1, <2>a, SessionTyped
    <2>3. s.wire = Append(srv.wire, f) /\ s.got = srv.got
      BY <1>1, <2>2 DEF Sessions
    <2>4. s = [srv EXCEPT !.wire = Append(@, [type |-> "a", msgs |-> srv.queue]), !.queue = <<>>]
      BY <1>1, <2>1, <2>2 DEF Sessions
    <2>5. srv' = s /\ UNCHANGED <<place, sock, tr, left>> /\ \A i \in DOMAIN srv.wire: srv.wire[i].type \notin {"end", "c"}
      BY <1>4, <2>4 DEF ServerWrites, Answering
    <2> QED  BY <2>3, <2>5, Written
  <1>5. CASE ServerBeats \/ ServerSaysSo \/ ServerEnds
    <2>1. PICK f \in OnWire: Answering /\ Answer(f) /\ UNCHANGED <<place, sock, tr, left>>
      BY <1>5, OnWireKinds DEF ServerBeats, ServerSaysSo, ServerEnds
    <2>2. PICK s \in Sessions: s = [srv EXCEPT !.wire = Append(srv.wire, f), !.state = srv.state, !.queue = srv.queue]
      BY <1>1, SessionTyped
    <2>3. s.wire = Append(srv.wire, f) /\ s.got = srv.got
      BY <1>1, <2>2 DEF Sessions
    <2>4. s = [srv EXCEPT !.wire = Append(@, f)]
      BY <1>1, <2>2 DEF Sessions
    <2>5. srv' = s /\ UNCHANGED <<place, sock, tr, left>> /\ \A i \in DOMAIN srv.wire: srv.wire[i].type \notin {"end", "c"}
      BY <2>1, <2>4 DEF Answer, Answering
    <2> QED  BY <2>3, <2>5, Written
  <1>6. CASE ServerCloses \/ ServerForgets
    <2>a. <<>> \in Seq(Messages)
      BY EmptyTyped
    <2>1. PICK st \in {"none", "open", "closed"}, q \in Seq(Messages):
             srv' = [srv EXCEPT !.state = st, !.queue = q] /\ UNCHANGED <<place, sock, tr, left>>
      <3>1. CASE ServerCloses
        <4>1. srv' = [srv EXCEPT !.state = "closed", !.queue = srv.queue]
          BY <1>1, <3>1 DEF ServerCloses, Sessions
        <4> QED  BY <1>1, <3>1, <4>1 DEF ServerCloses
      <3>2. CASE ServerForgets
        BY <2>a, <3>2 DEF ServerForgets
      <3> QED  BY <1>6, <3>1, <3>2
    <2>2. PICK s \in Sessions: s = [srv EXCEPT !.state = st, !.queue = q, !.sent = srv.sent]
      BY <1>1, SessionTyped
    <2>3. s.wire = srv.wire /\ s.got = srv.got
      BY <1>1, <2>2 DEF Sessions
    <2>4. s = [srv EXCEPT !.state = st, !.queue = q]
      BY <1>1, <2>2 DEF Sessions
    <2> QED  BY <2>1, <2>3, <2>4, Unwritten
  <1> QED  BY <1>2, <1>3, <1>4, <1>5, <1>6 DEF Server

LEMMA ConcatTyped == ASSUME NEW S, NEW q \in Seq(S), NEW r \in Seq(S) PROVE q \o r \in Seq(S)
  BY ConcatProperties

LEMMA NoFlightTyped ==
  ASSUME NEW e \in Engines
  PROVE  [e EXCEPT !.flight = <<>>] \in Engines
  <1>1. <<>> \in Seq(Said)
    BY EmptyTyped
  <1> QED  BY <1>1 DEF Engines

LEMMA DeliveredMail ==
  ASSUME NEW x \in Parts, Mailed(x), NEW y \in Parts, y.sock = x.sock, y.srv.got = x.srv.got \o x.tr.flight,
         y.tr.name = x.tr.name, y.tr.ears = x.tr.ears, y.tr.snd = x.tr.snd, y.tr.flight = <<>>,
         y.tr.buf = x.tr.buf, y.tr.up = x.tr.up
  PROVE  Mailed(y)
  <1>1. x.srv.got \in Seq(Said) /\ x.tr.flight \in Seq(Said) /\ x.tr.buf \in Seq(Said)
    BY Fields DEF Sessions, Engines
  <1>2. /\ InTurn(x.srv.got, x.tr.flight, x.tr.buf) /\ Below(x, x.sock.said + 1)
        /\ \A i \in Mail(x.tr.up): x.tr.up[i].m <= x.sock.said /\ Below(x, x.tr.up[i].m)
        /\ \A i, j \in Mail(x.tr.up): i < j => x.tr.up[i].m < x.tr.up[j].m
        /\ x.sock.readyState = CONNECTING => x.sock.said = 0
    BY DEF Mailed, Posted
  <1>3. /\ Ascending(y.srv.got)
        /\ \A n: Under(x.srv.got, n) /\ Under(x.tr.flight, n) => Under(y.srv.got, n)
        /\ Before(y.srv.got, x.tr.buf)
        /\ Counts(x.srv.got, 0) /\ Counts(x.tr.flight, Len(x.srv.got)) => Counts(y.srv.got, 0)
    <2>1. Ascending(x.srv.got) /\ Ascending(x.tr.flight) /\ Before(x.srv.got, x.tr.flight)
      BY <1>2 DEF InTurn
    <2>2. Before(x.srv.got, x.tr.buf) /\ Before(x.tr.flight, x.tr.buf)
      BY <1>2 DEF InTurn
    <2> QED  BY <1>1, <2>1, <2>2, ConcatOrdered
  <1>4. \A n: Below(x, n) => Below(y, n)
    BY <1>3, NoneLeft DEF Below
  <1>5. InTurn(y.srv.got, y.tr.flight, y.tr.buf)
    BY <1>2, <1>3, NoneLeft DEF InTurn
  <1>6. Posted(y)
    BY <1>2, <1>4, <1>5 DEF Posted
  <1>7. ASSUME Direct(y.tr) PROVE Whole(y)
    <2>1. Direct(x.tr)
      BY <1>7 DEF Direct
    <2>2. /\ Counts(x.srv.got, 0) /\ Counts(x.tr.flight, Len(x.srv.got))
          /\ x.tr.ears \/ x.tr.snd # "none" => Counts(x.tr.buf, Len(x.srv.got) + Len(x.tr.flight))
          /\ x.tr.ears => x.sock.said = Len(x.srv.got) + Len(x.tr.flight) + Len(x.tr.buf)
          /\ Sender(x.tr.name) = "ws" => x.tr.buf = <<>>
      BY <2>1 DEF Mailed, Whole
    <2>3. PICK g \in Nat, f \in Nat, b \in Nat: g = Len(x.srv.got) /\ f = Len(x.tr.flight) /\ b = Len(x.tr.buf)
      BY <1>1, LenProperties
    <2>4. Len(y.srv.got) = g + f /\ Len(y.tr.flight) = 0
      BY <1>1, <2>3, ConcatPlaces, NoneLeft
    <2>5. (g + f) + 0 = g + f /\ g + f + 0 + b = g + f + b
      BY <2>3
    <2>6. Counts(y.srv.got, 0) /\ Counts(y.tr.flight, g + f)
      BY <1>3, <2>2, NoneLeft
    <2>7. y.tr.ears \/ y.tr.snd # "none" => Counts(y.tr.buf, (g + f) + 0)
      BY <2>2, <2>3, <2>5
    <2>8. y.tr.ears => y.sock.said = (g + f) + 0 + Len(y.tr.buf)
      BY <2>2, <2>3, <2>5
    <2> QED  BY <2>2, <2>4, <2>6, <2>7, <2>8 DEF Whole
  <1> QED  BY <1>6, <1>7 DEF Mailed, Whole

LEMMA ServerGetsStep ==
  ASSUME TypeOK, Solid(Now), ServerGets
  PROVE  \E x \in Parts: Step(x) /\ Become(x)
  <1>1. /\ Now \in Parts /\ Phase(Now) /\ Calm(Now) /\ Lasting(Now) /\ Mailed(Now) /\ Tidy(tr)
        /\ tr \in Engines /\ srv \in Sessions /\ tr.flight # <<>>
    BY NowTyped, NowFields DEF Solid, TypeOK, Calm, ServerGets
  <1>2. PICK e \in Engines: e = [tr EXCEPT !.flight = <<>>]
    <2>1. [tr EXCEPT !.flight = <<>>] \in Engines
      BY <1>1, NoFlightTyped
    <2> QED  BY <2>1
  <1>3. /\ e.name = tr.name /\ e.ears = tr.ears /\ e.left = tr.left /\ e.rcv = tr.rcv /\ e.snd = tr.snd
        /\ e.frame = tr.frame /\ e.facade = tr.facade /\ e.up = tr.up /\ e.down = tr.down
        /\ e.buf = tr.buf /\ e.flight = <<>>
    BY <1>1, <1>2 DEF Engines
  <1>4. tr.name # "none"
    BY <1>1, NoneFields DEF Tidy
  <1>5. Tidy(e)
    BY <1>1, <1>3, <1>4 DEF Tidy
  <1>6. PICK g \in Seq(Said): g = srv.got \o tr.flight
    <2>1. srv.got \in Seq(Said) /\ tr.flight \in Seq(Said)
      BY <1>1 DEF Sessions, Engines
    <2>2. srv.got \o tr.flight \in Seq(Said)
      BY <2>1, ConcatTyped
    <2> QED  BY <2>2
  <1>7. PICK s \in Sessions: s = [srv EXCEPT !.got = g]
    BY <1>1, SessionTyped
  <1>8. s.wire = srv.wire /\ s.got = srv.got \o tr.flight
    BY <1>1, <1>6, <1>7 DEF Sessions
  <1>9. PICK z \in Parts: z = [Now EXCEPT !.srv = s]
    <2>1. [Now EXCEPT !.srv = s] \in Parts
      BY <1>1, WithSession
    <2> QED  BY <2>1
  <1>10. z.srv = s /\ z.sock = sock /\ z.tr = tr
    BY <1>1, <1>9, NowFields, WithSession
  <1>11. PICK y \in Parts: y = [z EXCEPT !.tr = e]
    <2>1. [z EXCEPT !.tr = e] \in Parts
      BY WithTransport
    <2> QED  BY <2>1
  <1>12. y.tr = e /\ y.sock = z.sock /\ y.srv = z.srv
    BY <1>11, WithTransport
  <1>13. [Now EXCEPT !.srv.got = @ \o tr.flight, !.tr.flight = <<>>] = y
    BY <1>1, <1>2, <1>6, <1>7, <1>9, <1>11, NowFields DEF Parts
  <1>14. Lasting(y)
    BY <1>1, <1>8, <1>10, <1>12, NowFields DEF Lasting
  <1>15. Become(y)
    BY <1>13 DEF ServerGets
  <1>16. Mailed(y)
    BY <1>1, <1>3, <1>8, <1>10, <1>12, NowFields, DeliveredMail
  <1> QED  BY <1>3, <1>4, <1>5, <1>10, <1>12, <1>14, <1>15, <1>16, EngineStep

-----------------------------------------------------------------------------
(* The theorems. *)

LEMMA InitSolid ==
  ASSUME Init
  PROVE  TypeOK /\ Solid(Now)
  <1>1. /\ place \in Places /\ left = {} /\ tr = NoTransport /\ srv = NewSession(0)
        /\ sock = [readyState |-> CONNECTING, ir |-> TRUE, info |-> "scheduled", transports |-> <<>>,
                   transport |-> FALSE, timer |-> FALSE, stale |-> 0, closes |-> <<>>,
                   said |-> 0, events |-> <<>>]
    BY DEF Init
  <1>2. tr \in Engines
    BY <1>1, NoneTyped
  <1>3. srv \in Sessions
    <2>1. 0 \in 0..MaxMessages
      BY BoundsAssumption
    <2> QED  BY <1>1, <2>1, NewSessionTyped
  <1>4. sock \in Sockets
    <2>1. 0 \in 0..MaxSaid /\ CONNECTING \in CONNECTING..CLOSED
      BY BoundsAssumption DEF CONNECTING, CLOSED
    <2>2. <<>> \in Seq(TransportNames) /\ <<>> \in Seq(BOOLEAN) /\ <<>> \in Seq(Events)
      BY EmptyTyped
    <2> QED  BY <1>1, <2>1, <2>2 DEF Sockets
  <1>5. TypeOK
    BY <1>1, <1>2, <1>3, <1>4 DEF TypeOK
  <1>6. Api!Legal(CONNECTING, <<>>)
    BY DEF Api!Legal, Api!CONNECTING, Api!OPEN, Api!CLOSED, CONNECTING
  <1>7. <<>> # <<TRUE>> /\ CONNECTING # CLOSING
    BY DEF CONNECTING, CLOSING
  <1>8. Phase(Now)
    BY <1>1, <1>6, <1>7, NowFields, NoneFields DEF Phase
  <1>9. Tidy(tr)
    <2>1. ~Framed("none")
      BY Names DEF Framed, FacadeTransport
    <2> QED  BY <1>1, <2>1, NoneFields DEF Tidy
  <1>10. Calm(Now)
    BY <1>1, <1>9, NowFields, NoneFields DEF Calm
  <1>11. Lasting(Now)
    <2>1. srv.wire = <<>>
      BY <1>1 DEF NewSession
    <2> QED  BY <2>1, NowFields DEF Lasting
  <1>12. Mailed(Now)
    <2>1. sock.said = 0 /\ srv.got = <<>> /\ tr.flight = <<>> /\ tr.buf = <<>> /\ tr.up = <<>> /\ tr.name = "none"
      BY <1>1, NoneFields DEF NewSession
    <2>2. Posted(Now)
      BY <2>1, NoneLeft, NowFields DEF Posted, InTurn, Below
    <2>3. Whole(Now)
      BY <2>1, NowFields DEF Whole, Direct
    <2> QED  BY <2>2, <2>3 DEF Mailed
  <1> QED  BY <1>5, <1>8, <1>10, <1>11, <1>12 DEF Solid

\* Every action makes a step of the parts.
LEMMA NextStep ==
  ASSUME TypeOK, Solid(Now), Next
  PROVE  \E x \in Parts: Step(x) /\ Become(x)
  <1>1. CASE User
    BY <1>1, UserSteps
  <1>2. CASE InfoStarts \/ InfoArrives \/ InfoTimesOut
    BY <1>2, InfoSteps
  <1>3. CASE TransportTimesOut \/ StaleTimerFires
    BY <1>3, TransportTimerSteps
  <1>4. CASE CloseTimer
    BY <1>4, CloseTimerStep
  <1>5. CASE RequestStarts
    BY <1>5, RequestStartsStep
  <1>6. CASE Chunk
    BY <1>6, ChunkStep
  <1>7. CASE AnswerEnds
    BY <1>7, AnswerEndsStep
  <1>8. CASE RequestFails
    BY <1>8, RequestFailsStep
  <1>9. CASE PauseEnds
    BY <1>9, PauseEndsStep
  <1>10. CASE WebSocketEnds
    BY <1>10, WebSocketEndsStep
  <1>11. CASE SendStarts \/ SendSucceeds \/ WaitEnds
    BY <1>11, SenderSteps
  <1>12. CASE SendFails
    BY <1>12, SendFailsStep
  <1>13. CASE FrameBoots
    BY <1>13, FrameBootsStep
  <1>14. CASE FrameFails
    BY <1>14, FrameFailsStep
  <1>15. CASE PageReceives
    BY <1>15, PageReceivesStep
  <1>16. CASE FrameGets
    BY <1>16, FrameGetsStep
  <1>17. CASE FrameRemoved
    BY <1>17, FrameRemovedStep
  <1>18. CASE ServerGets
    BY <1>18, ServerGetsStep
  <1>19. CASE Server /\ ~ServerGets
    BY <1>19, ServerSteps
  <1> QED  BY <1>1, <1>2, <1>3, <1>4, <1>5, <1>6, <1>7, <1>8, <1>9, <1>10, <1>11, <1>12, <1>13, <1>14, <1>15,
              <1>16, <1>17, <1>18, <1>19 DEF Next, Timers, Network, Iframe

LEMMA NextSolid ==
  ASSUME TypeOK, Solid(Now), [Next]_vars
  PROVE  TypeOK' /\ Solid(Now)' /\ Grows(Now, Now')
  <1>1. CASE Next
    <2>1. PICK x \in Parts: Step(x) /\ Become(x)
      BY <1>1, NextStep
    <2>2. Now' = x /\ place' = place
      BY <2>1, Became
    <2>3. /\ sock' = x.sock /\ tr' = x.tr /\ left' = x.left /\ srv' = x.srv
      BY <2>1 DEF Become
    <2>4. TypeOK'
      BY <2>2, <2>3, Fields DEF TypeOK
    <2>5. Solid(x) /\ Grows(Now, x)
      BY <2>1 DEF Step, Moves, Solid
    <2> QED  BY <2>2, <2>4, <2>5 DEF Solid, Phase, Calm, Lasting
  <1>2. CASE UNCHANGED vars
    <2>1. Now' = Now /\ place' = place /\ sock' = sock /\ tr' = tr /\ left' = left /\ srv' = srv
      BY <1>2 DEF vars, Now
    <2>2. TypeOK'
      BY <2>1 DEF TypeOK
    <2>3. Grows(Now, Now)
      BY NowTyped, Stays DEF Solid, Moves
    <2> QED  BY <2>1, <2>2, <2>3 DEF Solid, Phase, Calm, Lasting
  <1> QED  BY <1>1, <1>2

\* The parts keep their types.
THEOREM TypeCorrect == Spec => []TypeOK
  <1>1. Init => TypeOK /\ Solid(Now)
    BY InitSolid
  <1>2. TypeOK /\ Solid(Now) /\ [Next]_vars => (TypeOK /\ Solid(Now))'
    BY NextSolid
  <1> QED  BY <1>1, <1>2, PTL DEF Spec

\* The calls that are still to come fit the ready state, a transport nobody
\* listens to has nothing running, nothing comes behind the end of an answer,
\* and the messages of the user are in order on their whole way.
LEMMA SoundInvariant == Spec => [](TypeOK /\ Solid(Now))
  <1>1. Init => TypeOK /\ Solid(Now)
    BY InitSolid
  <1>2. TypeOK /\ Solid(Now) /\ [Next]_vars => (TypeOK /\ Solid(Now))'
    BY NextSolid
  <1> QED  BY <1>1, <1>2, PTL DEF Spec

\* A closed socket leaves nothing running but what nobody can stop.
THEOREM NothingLeftRunningHolds == Spec => []NothingLeftRunning
  <1>1. TypeOK /\ Solid(Now) => NothingLeftRunning
    <2> SUFFICES ASSUME TypeOK, Solid(Now), sock.readyState = CLOSED, tr.left = "no" PROVE ~Running(tr)
      BY DEF NothingLeftRunning
    <2>1. Tidy(tr) /\ tr.frame # "removing"
      BY NowFields DEF Solid, Calm
    <2>2. ~tr.ears
      BY NowFields DEF Solid, Phase, CONNECTING, OPEN, CLOSED
    <2>3. CASE tr.name = "none"
      BY <2>1, <2>3, NoneFields DEF Tidy, Running
    <2>4. CASE tr.name # "none" /\ Framed(tr.name)
      <3>1. tr.frame = "gone" /\ tr.rcv = "none" /\ tr.snd = "none"
        BY <2>1, <2>2, <2>4 DEF Tidy
      <3> QED  BY <3>1 DEF Running
    <2>5. CASE tr.name # "none" /\ ~Framed(tr.name)
      <3>1. tr.frame = "none" /\ tr.rcv = "none" /\ tr.snd = "none"
        BY <2>1, <2>2, <2>5 DEF Tidy
      <3> QED  BY <3>1 DEF Running
    <2> QED  BY <2>3, <2>4, <2>5
  <1> QED  BY <1>1, SoundInvariant, PTL

\* The server gets what the user said in order and without a double, and from
\* a transport of the page itself without a gap.
THEOREM PostedInOrderHolds == Spec => []PostedInOrder
  <1>1. TypeOK /\ Solid(Now) => PostedInOrder
    <2> SUFFICES ASSUME TypeOK, Solid(Now) PROVE PostedInOrder
      OBVIOUS
    <2>1. Posted(Now) /\ Whole(Now)
      BY DEF Solid, Mailed
    <2>2. Ascending(srv.got)
      BY <2>1, NowFields DEF Posted, InTurn
    <2>3. ASSUME tr.name # "none", ~(Framed(tr.name) \/ Sender(tr.name) = "form"), NEW i \in DOMAIN srv.got
          PROVE  srv.got[i] = i
      <3>1. Counts(srv.got, 0)
        BY <2>1, <2>3, NowFields DEF Whole, Direct
      <3>2. i \in Nat
        BY LenProperties DEF TypeOK, Sessions
      <3> QED  BY <3>1, <3>2 DEF Counts
    <2> QED  BY <2>2, <2>3 DEF PostedInOrder
  <1> QED  BY <1>1, SoundInvariant, PTL

\* What a step shows is a step of SocketApi.
LEMMA StepMaps ==
  ASSUME TypeOK, Solid(Now), [Next]_vars
  PROVE  [Api!Next]_<<sock.readyState, sock.events>>
  <1>1. TypeOK' /\ Solid(Now)' /\ Grows(Now, Now')
    BY NextSolid
  <1>2. Now' = [sock |-> sock', tr |-> tr', left |-> left', srv |-> srv']
    BY DEF Now
  <1>3. /\ sock.readyState \in CONNECTING..CLOSED /\ sock.events \in Seq(Events)
        /\ sock'.readyState \in CONNECTING..CLOSED /\ sock'.events \in Seq(Events)
    BY <1>1 DEF TypeOK, Sockets
  <1>4. /\ sock'.readyState \in sock.readyState..CLOSED
        /\ Len(sock.events) <= Len(sock'.events) /\ \A i \in 1..Len(sock.events): sock'.events[i] = sock.events[i]
        /\ \A i \in (Len(sock.events) + 1)..Len(sock'.events):
              /\ IsMessage(sock'.events[i]) => sock.readyState < CLOSING
              /\ sock'.events[i] = <<"open">> => sock.readyState = CONNECTING
        /\ sock.readyState = CLOSED => sock'.events = sock.events
    BY <1>1, <1>2, NowFields DEF Grows
  <1>5. CASE sock.readyState = CLOSED
    <2>1. sock'.readyState = CLOSED /\ sock'.events = sock.events
      BY <1>4, <1>5 DEF CLOSED
    <2> QED  BY <1>5, <2>1
  <1>6. CASE sock.readyState # CLOSED
    <2>1. Api!Legal(sock'.readyState, sock'.events)
      BY <1>1, <1>2 DEF Solid, Phase
    <2>2. SubSeq(sock'.events, 1, Len(sock.events)) = sock.events
      <3>1. Len(sock.events) \in Nat /\ Len(sock'.events) \in Nat
        BY <1>3, LenProperties
      <3>2. /\ SubSeq(sock'.events, 1, Len(sock.events)) \in Seq(Events)
            /\ Len(SubSeq(sock'.events, 1, Len(sock.events))) = Len(sock.events)
            /\ \A i \in 1..Len(sock.events): SubSeq(sock'.events, 1, Len(sock.events))[i] = sock'.events[i]
        BY <1>3, <1>4, <3>1, SubSeqProperties
      <3> QED  BY <1>3, <1>4, <3>2, SeqEqual
    <2>3. ASSUME NEW i \in (Len(sock.events) + 1)..Len(sock'.events)
          PROVE  /\ sock'.events[i] \in {<<"open">>, <<"error">>, <<"close">>} \cup ({"message"} \X Messages)
                 /\ sock'.events[i][1] = "message" => sock.readyState < CLOSING
                 /\ sock'.events[i][1] = "open" => sock.readyState = CONNECTING
      <3>1. i \in 1..Len(sock'.events)
        BY <1>3, LenProperties
      <3>2. sock'.events[i] \in Events
        BY <1>3, <3>1, ElementOfSeq
      <3>3. sock'.events[i][1] = "open" => sock'.events[i] = <<"open">>
        BY <3>2 DEF Events
      <3> QED  BY <1>4, <3>2, <3>3 DEF Events, IsMessage
    <2>4. sock.readyState # Api!CLOSED /\ sock'.readyState \in sock.readyState..Api!CLOSED
      BY <1>4, <1>6 DEF CLOSED, Api!CLOSED
    <2>5. Api!CLOSING = CLOSING /\ Api!CONNECTING = CONNECTING
      BY DEF Api!CLOSING, Api!CONNECTING, CLOSING, CONNECTING
    <2>6. Len(sock'.events) >= Len(sock.events)
      BY <1>3, <1>4, LenProperties
    <2> QED  BY <2>1, <2>2, <2>3, <2>4, <2>5, <2>6 DEF Api!Next
  <1> QED  BY <1>5, <1>6

\* SockJS, with every transport it may run on and every failure of it, keeps
\* the promises of a web-socket to its user.
THEOREM ImplementsSocketApiHolds == Spec => ImplementsSocketApi
  <1>1. Init => Api!Init
    BY DEF Init, Api!Init, Api!CONNECTING, CONNECTING
  <1>2. TypeOK /\ Solid(Now) /\ [Next]_vars => [Api!Next]_<<sock.readyState, sock.events>>
    BY StepMaps
  <1> QED  BY <1>1, <1>2, SoundInvariant, PTL DEF Spec, ImplementsSocketApi, Api!Spec
=============================================================================
