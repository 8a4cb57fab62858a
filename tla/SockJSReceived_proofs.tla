----------------------- MODULE SockJSReceived_proofs -----------------------
(***************************************************************************)
(* Proofs about the messages of the server in SockJS, for any places and   *)
(* any number of messages.                                                 *)
(*                                                                         *)
(* Line is everything that is still to come to the socket, in its order;   *)
(* Heard says of the line, of what the user has seen and of the queue of   *)
(* the server that they follow each other, and, while the socket listens   *)
(* to a transport that loses no frames, that nothing is missing in         *)
(* between.  Every part of a handler either takes the first of the line    *)
(* (Taking), adds something silent to it (Posts), cuts off its end         *)
(* (Hushed) or leaves it alone (Quiet).  Fresh is what keeps an iframe     *)
(* from being made twice, Listed and OpenFirst speak of the transports     *)
(* that were tried.                                                        *)
(***************************************************************************)
EXTENDS SockJS_proofs

\* The frames that still come to the socket: those posted to the page, then
\* those on the wire, unless the facade is deaf to them.  What is posted besides
\* frames counts as one that says nothing.
Fed(e) == ~Framed(e.name) \/ e.facade = "hears"
Shown(d) == IF d.type = "t" THEN d.frame ELSE [type |-> "h"]
Line(x) ==
    LET d == Len(x.tr.down)
        w == IF Fed(x.tr) THEN Len(x.srv.wire) ELSE 0
    IN  [p \in 1..(d + w) |-> IF p <= d THEN Shown(x.tr.down[p]) ELSE x.srv.wire[p - d]]

Msgs(f) == IF f.type = "a" THEN {f.msgs[k]: k \in DOMAIN f.msgs} ELSE {}
Within(q) == {q[i]: i \in DOMAIN q}
Tells(ev) == {i \in DOMAIN ev: IsMessage(ev[i])}
Seen(ev) == {ev[i][2]: i \in Tells(ev)}
Older(A, B) == \A a \in A, b \in B: a < b

\* Seen, coming and queued messages are older in this order.
Sorted(L, ev, s) ==
    /\ \A i, j \in Tells(ev): i < j => ev[i][2] < ev[j][2]
    /\ \A p \in DOMAIN L: L[p].type = "a" => Ascending(L[p].msgs)
    /\ \A p, r \in DOMAIN L: p < r => Older(Msgs(L[p]), Msgs(L[r]))
    /\ \A p \in DOMAIN L: /\ Older(Seen(ev), Msgs(L[p])) /\ Older(Msgs(L[p]), Within(s.queue))
                          /\ Msgs(L[p]) \subseteq (s.base + 1)..s.sent
    /\ Ascending(s.queue) /\ Older(Seen(ev), Within(s.queue)) /\ Within(s.queue) \subseteq (s.base + 1)..s.sent
    /\ Seen(ev) \subseteq 1..s.sent
    /\ s.base <= s.sent

\* A second open frame ends the socket: what comes behind it reaches nobody.
Passes(L, rs, p) ==
    \A q \in 1..p: L[q].type = "o" => rs = CONNECTING /\ \A r \in 1..(q - 1): L[r].type # "o"
Begun(L, rs) == rs # CONNECTING \/ \E p \in DOMAIN L: L[p].type = "o"

\* Up to every frame that reaches the socket there is no gap, in front of every
\* message there is the open frame, and as long as the receiver goes on the
\* queue joins them.
NoGap(L, ev, s, rs) ==
    \A p \in DOMAIN L: Passes(L, rs, p) =>
        \A m \in Msgs(L[p]): \A k \in (s.base + 1)..m: k \in Seen(ev) \/ \E r \in 1..p: k \in Msgs(L[r])
OpenAhead(L, rs) ==
    rs = CONNECTING => \A p \in DOMAIN L: L[p].type = "a" => \E r \in 1..(p - 1): L[r].type = "o"
Joined(L, ev, s, rs) ==
    /\ s.state # "none" => Begun(L, rs)
    /\ (\A p \in DOMAIN L: Passes(L, rs, p)) /\ (s.state = "none" => ~Begun(L, rs)) =>
           \A k \in (s.base + 1)..s.sent:
               k \in Seen(ev) \/ k \in Within(s.queue) \/ \E p \in DOMAIN L: k \in Msgs(L[p])
Alive(e) == Fed(e) /\ e.rcv # "none"
Complete(L, ev, s, rs, e) == NoGap(L, ev, s, rs) /\ OpenAhead(L, rs) /\ (Alive(e) => Joined(L, ev, s, rs))

Exact(e) == e.name # "none" /\ ~MayLoseFrames(e.name)
Unbroken(ev, s) == \A m \in Seen(ev): (s.base + 1)..m \subseteq Seen(ev)
Heard(x) ==
    /\ Sorted(Line(x), x.sock.events, x.srv)
    /\ Exact(x.tr) => Unbroken(x.sock.events, x.srv)
    /\ Exact(x.tr) /\ x.tr.ears => Complete(Line(x), x.sock.events, x.srv, x.sock.readyState, x.tr)

\* Nothing runs in an iframe before the first 's' has gone to the page and back,
\* and an event source that pauses has nothing left to read.
Signs(q) == {i \in DOMAIN q: q[i].type = "s"}
Young(e) == e.frame = "loading" \/ Signs(e.down) # {} \/ Signs(e.up) # {}
Fresh(x) ==
    LET e == x.tr IN
    /\ \A i, j \in Signs(e.down): i = j
    /\ \A i, j \in Signs(e.up): i = j
    /\ Signs(e.down) = {} \/ Signs(e.up) = {}
    /\ e.frame = "loading" => Signs(e.down) = {} /\ Signs(e.up) = {}
    /\ Young(e) => /\ e.facade = "none" /\ e.rcv = "none"
                   /\ x.srv.state = "none" /\ x.srv.wire = <<>> /\ x.srv.sent = x.srv.base
    /\ e.rcv = "pause" => x.srv.wire = <<>>

\* The transports are tried in the order of the list.
All == filterToEnabled(place.whitelist, place.browser, place.info, place.websocket)
TriedBy(q) == {All[i]: i \in 1..(Len(All) - Len(q))}
Listed(x) ==
    LET q == x.sock.transports
        n == Len(All) - Len(q)
    IN  /\ n >= 0 /\ \A i \in DOMAIN q: q[i] = All[n + i]
        /\ x.tr.name # "none" => x.tr.name \in TriedBy(q)
OpenFirst(x) ==
    \/ \E t \in TriedBy(x.sock.transports): MayLoseFrames(t)
    \/ x.sock.events # <<>> => ~IsMessage(Head(x.sock.events))

Told(x) == Heard(x) /\ Fresh(x) /\ Listed(x) /\ OpenFirst(x)

-----------------------------------------------------------------------------
(* The line of the frames that come to the socket. *)

LEMMA WireKinds ==
  ASSUME NEW f \in OnWire
  PROVE  /\ f.type \in {"o", "h", "a", "c", "end"}
         /\ f.type = "a" => f.msgs \in Seq(Messages) /\ f.msgs # <<>>
         /\ f.type # "end" => f \in Frames
  BY FrameKinds DEF OnWire, Frames

LEMMA ShownTyped ==
  ASSUME NEW d \in ToPage
  PROVE  Shown(d) \in OnWire /\ (d.type # "t" => Shown(d).type = "h")
  BY ToPageKinds, OnWireKinds DEF Shown, OnWire

LEMMA LineTyped ==
  ASSUME NEW x \in Parts
  PROVE  \E d, n \in Nat: /\ d = Len(x.tr.down) /\ d <= n
                          /\ n = IF Fed(x.tr) THEN d + Len(x.srv.wire) ELSE d
                          /\ DOMAIN Line(x) = 1..n
                          /\ \A p \in 1..n: /\ Line(x)[p] = IF p <= d THEN Shown(x.tr.down[p]) ELSE x.srv.wire[p - d]
                                            /\ Line(x)[p] \in OnWire
                                            /\ p <= d => p \in DOMAIN x.tr.down
                                            /\ p > d => p - d \in DOMAIN x.srv.wire
  <1> DEFINE d == Len(x.tr.down)
             w == IF Fed(x.tr) THEN Len(x.srv.wire) ELSE 0
             n == d + w
  <1>1. x.tr.down \in Seq(ToPage) /\ x.srv.wire \in Seq(OnWire)
    BY Fields DEF Engines, Sessions
  <1>2. d \in Nat /\ w \in Nat /\ DOMAIN x.tr.down = 1..d /\ DOMAIN x.srv.wire = 1..Len(x.srv.wire)
    BY <1>1, LenProperties
  <1>3. Line(x) = [p \in 1..n |-> IF p <= d THEN Shown(x.tr.down[p]) ELSE x.srv.wire[p - d]]
    BY Zenon DEF Line
  <1>4. \A p \in 1..d: x.tr.down[p] \in ToPage
    BY <1>1, <1>2, ElementOfSeq
  <1>5. \A p \in 1..Len(x.srv.wire): x.srv.wire[p] \in OnWire
    BY <1>1, <1>2, ElementOfSeq
  <1>6. n = IF Fed(x.tr) THEN d + Len(x.srv.wire) ELSE d
    <2>1. ASSUME Fed(x.tr) PROVE n = d + Len(x.srv.wire)
      BY <2>1
    <2>2. ASSUME ~Fed(x.tr) PROVE n = d
      <3>1. w = 0
        BY <2>2
      <3> HIDE DEF d, w
      <3> QED  BY <1>2, <3>1
    <2> HIDE DEF n
    <2> QED  BY <2>1, <2>2
  <1> HIDE DEF d, w
  <1>7. n \in Nat /\ d <= n
    BY <1>2
  <1>8. \A p \in 1..n: (p <= d => p \in 1..d) /\ (p > d => p - d \in 1..w)
    BY <1>2
  <1>9. w > 0 => w = Len(x.srv.wire)
    BY DEF w
  <1>10. \A p \in 1..n: p > d => p - d \in 1..Len(x.srv.wire)
    BY <1>2, <1>8, <1>9
  <1>11. \A p \in 1..n: Line(x)[p] = IF p <= d THEN Shown(x.tr.down[p]) ELSE x.srv.wire[p - d]
    BY <1>3
  <1>12. \A p \in 1..n: Line(x)[p] \in OnWire
    <2> TAKE p \in 1..n
    <2>1. CASE p <= d
      BY <2>1, <1>4, <1>8, <1>11, ShownTyped
    <2>2. CASE ~(p <= d)
      <3>1. p > d
        BY <2>2, <1>2
      <3> QED  BY <2>2, <3>1, <1>5, <1>10, <1>11
    <2> QED  BY <2>1, <2>2
  <1>13. DOMAIN Line(x) = 1..n
    BY <1>3
  <1> HIDE DEF n
  <1>14. \A p \in 1..n: (p <= d => p \in DOMAIN x.tr.down) /\ (p > d => p - d \in DOMAIN x.srv.wire)
    BY <1>2, <1>8, <1>10 DEF n
  <1> QED  BY <1>2, <1>6, <1>7, <1>11, <1>12, <1>13, <1>14 DEF d

LEMMA LineSame ==
  ASSUME NEW x, NEW y, y.tr.down = x.tr.down, y.srv.wire = x.srv.wire, Fed(y.tr) = Fed(x.tr)
  PROVE  Line(y) = Line(x)
  BY DEF Line

\* A line is cut at its end.
Cut(L, M) == \E k, n \in Nat: k <= n /\ DOMAIN L = 1..n /\ DOMAIN M = 1..k /\ \A p \in 1..k: M[p] = L[p]

LEMMA CutSame ==
  ASSUME NEW x \in Parts, NEW M, M = Line(x)
  PROVE  Cut(Line(x), M)
  <1>1. PICK n \in Nat: DOMAIN Line(x) = 1..n
    BY LineTyped
  <1> QED  BY <1>1 DEF Cut

\* What is on the wire is lost, or the facade is deaf to it.
LEMMA LineCut ==
  ASSUME NEW x \in Parts, NEW y \in Parts, y.tr.down = x.tr.down,
         (y.srv.wire = x.srv.wire /\ Fed(y.tr) = Fed(x.tr)) \/ y.srv.wire = <<>> \/ ~Fed(y.tr)
  PROVE  Cut(Line(x), Line(y))
  <1>1. CASE y.srv.wire = x.srv.wire /\ Fed(y.tr) = Fed(x.tr)
    BY <1>1, LineSame, CutSame
  <1>2. CASE y.srv.wire = <<>> \/ ~Fed(y.tr)
    <2>1. PICK d, n \in Nat: /\ d = Len(x.tr.down) /\ d <= n /\ DOMAIN Line(x) = 1..n
                             /\ \A p \in 1..n: Line(x)[p] = IF p <= d THEN Shown(x.tr.down[p]) ELSE x.srv.wire[p - d]
      BY LineTyped
    <2>2. PICK e, k \in Nat: /\ e = Len(y.tr.down) /\ e <= k
                             /\ k = IF Fed(y.tr) THEN e + Len(y.srv.wire) ELSE e
                             /\ DOMAIN Line(y) = 1..k
                             /\ \A p \in 1..k: /\ Line(y)[p] = IF p <= e THEN Shown(y.tr.down[p]) ELSE y.srv.wire[p - e]
                                               /\ Line(y)[p] \in OnWire
                                               /\ p <= e => p \in DOMAIN y.tr.down
                                               /\ p > e => p - e \in DOMAIN y.srv.wire
      BY LineTyped, Zenon
    <2>3. e = d /\ k = d
      <3>1. y.srv.wire = <<>> => Len(y.srv.wire) = 0
        BY EmptyTyped
      <3>2. e = d
        BY <2>1, <2>2
      <3>3. Fed(y.tr) => k = e + 0
        BY <1>2, <2>2, <3>1
      <3> QED  BY <2>2, <3>2, <3>3
    <2>4. \A p \in 1..k: p \in 1..n /\ p <= d
      BY <2>1, <2>3
    <2>5. \A p \in 1..k: Line(y)[p] = Line(x)[p]
      BY <2>1, <2>2, <2>3, <2>4
    <2> QED  BY <2>1, <2>2, <2>3, <2>5 DEF Cut
  <1> QED  BY <1>1, <1>2

OnLine(L) == \E n \in Nat: DOMAIN L = 1..n /\ \A p \in 1..n: L[p] \in OnWire

LEMMA LineOnLine ==
  ASSUME NEW x \in Parts
  PROVE  OnLine(Line(x))
  BY LineTyped DEF OnLine

LEMMA NoMessages ==
  ASSUME NEW f, f.type # "a"
  PROVE  Msgs(f) = {}
  BY DEF Msgs

\* What is cut off is lost, but nothing else changes.
LEMMA CutSorted ==
  ASSUME NEW L, NEW M, NEW ev, NEW s, Sorted(L, ev, s), Cut(L, M)
  PROVE  Sorted(M, ev, s)
  <1>1. PICK k, n \in Nat: k <= n /\ DOMAIN L = 1..n /\ DOMAIN M = 1..k /\ \A p \in 1..k: M[p] = L[p]
    BY DEF Cut
  <1>2. \A p \in DOMAIN M: p \in DOMAIN L /\ M[p] = L[p]
    BY <1>1
  <1> QED  BY <1>2 DEF Sorted

Silent(f) == f.type \notin {"a", "o"}

LEMMA CutComplete ==
  ASSUME NEW L, NEW M, NEW ev, NEW s, NEW rs, NEW e, NEW f, Complete(L, ev, s, rs, e), Cut(L, M),
         Alive(f) => Alive(e) /\ \A p \in DOMAIN L: p \notin DOMAIN M => Silent(L[p])
  PROVE  Complete(M, ev, s, rs, f)
  <1>1. PICK k, n \in Nat: k <= n /\ DOMAIN L = 1..n /\ DOMAIN M = 1..k /\ \A p \in 1..k: M[p] = L[p]
    BY DEF Cut
  <1>2. \A p \in DOMAIN M: p \in DOMAIN L /\ M[p] = L[p] /\ p \in Nat /\ p <= k /\ \A q \in 1..p: q \in DOMAIN M
    BY <1>1
  <1>3. \A p \in DOMAIN M: \A q \in 1..p: M[q] = L[q] /\ \A r \in 1..(q - 1): M[r] = L[r]
    BY <1>1
  <1>4. \A p \in DOMAIN M: Passes(M, rs, p) <=> Passes(L, rs, p)
    BY <1>3 DEF Passes
  <1>5. NoGap(M, ev, s, rs)
    <2>1. \A p \in DOMAIN M: Passes(M, rs, p) =>
            \A m \in Msgs(L[p]): \A i \in (s.base + 1)..m: i \in Seen(ev) \/ \E r \in 1..p: i \in Msgs(L[r])
      BY <1>2, <1>4 DEF Complete, NoGap
    <2> QED  BY <2>1, <1>2, <1>3 DEF NoGap
  <1>6. OpenAhead(M, rs)
    <2> SUFFICES ASSUME rs = CONNECTING, NEW p \in DOMAIN M, M[p].type = "a"
                 PROVE  \E r \in 1..(p - 1): M[r].type = "o"
      BY DEF OpenAhead
    <2>1. PICK r \in 1..(p - 1): L[r].type = "o"
      BY <1>2 DEF Complete, OpenAhead
    <2>2. M[r] = L[r]
      BY <1>1, <1>2
    <2> QED  BY <2>1, <2>2
  <1>7. ASSUME Alive(f) PROVE Joined(M, ev, s, rs)
    <2>1. Joined(L, ev, s, rs) /\ \A p \in DOMAIN L: p \notin DOMAIN M => Silent(L[p])
      BY <1>7 DEF Complete
    <2>2. Begun(L, rs) <=> Begun(M, rs)
      BY <2>1, <1>2 DEF Begun, Silent
    <2>3. (\A p \in DOMAIN M: Passes(M, rs, p)) => \A p \in DOMAIN L: Passes(L, rs, p)
      <3> SUFFICES ASSUME \A p \in DOMAIN M: Passes(M, rs, p), NEW p \in DOMAIN L, NEW q \in 1..p, L[q].type = "o"
                   PROVE  rs = CONNECTING /\ \A r \in 1..(q - 1): L[r].type # "o"
        BY DEF Passes
      <3>1. q \in DOMAIN L
        BY <1>1
      <3>2. q \in DOMAIN M /\ q \in 1..q
        BY <3>1, <2>1, <1>1 DEF Silent
      <3>3. Passes(L, rs, q)
        BY <3>2, <1>4
      <3> QED  BY <3>2, <3>3 DEF Passes
    <2>4. \A p \in DOMAIN L: \A m \in Msgs(L[p]): \E r \in DOMAIN M: m \in Msgs(M[r])
      BY <2>1, <1>2, NoMessages DEF Silent
    <2>5. s.state # "none" => Begun(M, rs)
      BY <2>1, <2>2 DEF Joined
    <2>6. ASSUME \A p \in DOMAIN M: Passes(M, rs, p), s.state = "none" => ~Begun(M, rs), NEW i \in (s.base + 1)..s.sent
          PROVE  i \in Seen(ev) \/ i \in Within(s.queue) \/ \E p \in DOMAIN M: i \in Msgs(M[p])
      <3>1. i \in Seen(ev) \/ i \in Within(s.queue) \/ \E p \in DOMAIN L: i \in Msgs(L[p])
        BY <2>1, <2>2, <2>3, <2>6 DEF Joined
      <3> QED  BY <3>1, <2>4
    <2> QED  BY <2>5, <2>6 DEF Joined
  <1> QED  BY <1>5, <1>6, <1>7 DEF Complete

\* The first frame of a line is taken.
Rest1(L, M) == \E n \in Nat: DOMAIN L = 1..(n + 1) /\ DOMAIN M = 1..n /\ \A p \in 1..n: M[p] = L[p + 1]

LEMMA SkipSorted ==
  ASSUME NEW L, NEW M, NEW ev, NEW s, Sorted(L, ev, s), Rest1(L, M)
  PROVE  Sorted(M, ev, s)
  <1>1. PICK n \in Nat: DOMAIN L = 1..(n + 1) /\ DOMAIN M = 1..n /\ \A p \in 1..n: M[p] = L[p + 1]
    BY DEF Rest1
  <1>2. \A p \in DOMAIN M: p + 1 \in DOMAIN L /\ M[p] = L[p + 1]
    BY <1>1
  <1>3. \A p, r \in DOMAIN M: p < r => p + 1 < r + 1
    BY <1>1
  <1>4. /\ \A p \in DOMAIN M: M[p].type = "a" => Ascending(M[p].msgs)
        /\ \A p, r \in DOMAIN M: p < r => Older(Msgs(M[p]), Msgs(M[r]))
        /\ \A p \in DOMAIN M: /\ Older(Seen(ev), Msgs(M[p])) /\ Older(Msgs(M[p]), Within(s.queue))
                              /\ Msgs(M[p]) \subseteq (s.base + 1)..s.sent
    BY <1>2, <1>3 DEF Sorted
  <1> QED  BY <1>4 DEF Sorted

\* Messages are told: all those of a frame, from the first to the last.
Telling(ev, q, w) ==
    \E n, k \in Nat: /\ DOMAIN ev = 1..n /\ DOMAIN q = 1..k /\ DOMAIN w = 1..(n + k)
                     /\ \A i \in 1..n: w[i] = ev[i]
                     /\ \A i \in 1..k: IsMessage(w[n + i]) /\ w[n + i][2] = q[i]

LEMMA TellingSeen ==
  ASSUME NEW ev, NEW q, NEW w, Telling(ev, q, w)
  PROVE  /\ Seen(w) = Seen(ev) \cup Within(q)
         /\ (\A i, j \in Tells(ev): i < j => ev[i][2] < ev[j][2]) /\ Ascending(q) /\ Older(Seen(ev), Within(q)) =>
              \A i, j \in Tells(w): i < j => w[i][2] < w[j][2]
  <1>1. PICK n, k \in Nat: /\ DOMAIN ev = 1..n /\ DOMAIN q = 1..k /\ DOMAIN w = 1..(n + k)
                           /\ \A i \in 1..n: w[i] = ev[i]
                           /\ \A i \in 1..k: IsMessage(w[n + i]) /\ w[n + i][2] = q[i]
    BY DEF Telling
  <1>2. \A i \in Tells(w): i \in Int /\ \/ i \in Tells(ev) /\ w[i] = ev[i] /\ i <= n
                                        \/ i - n \in DOMAIN q /\ w[i][2] = q[i - n] /\ i > n
    <2> TAKE i \in Tells(w)
    <2>1. i \in 1..(n + k) /\ IsMessage(w[i])
      BY <1>1 DEF Tells
    <2>2. CASE i <= n
      <3>1. i \in 1..n
        BY <2>1, <2>2
      <3> QED  BY <1>1, <2>1, <2>2, <3>1 DEF Tells
    <2>3. CASE i > n
      <3>1. i - n \in 1..k /\ n + (i - n) = i
        BY <2>1, <2>3
      <3> QED  BY <1>1, <2>1, <2>3, <3>1
    <2> QED  BY <2>1, <2>2, <2>3
  <1>3. \A i \in Tells(ev): i \in Tells(w) /\ w[i] = ev[i]
    BY <1>1 DEF Tells
  <1>4. \A i \in DOMAIN q: n + i \in Tells(w) /\ w[n + i][2] = q[i]
    BY <1>1 DEF Tells
  <1>5. Seen(w) = Seen(ev) \cup Within(q)
    <2>1. \A m \in Seen(w): m \in Seen(ev) \/ m \in Within(q)
      BY <1>2 DEF Seen, Within
    <2>2. \A m \in Seen(ev): m \in Seen(w)
      BY <1>3 DEF Seen
    <2>3. \A m \in Within(q): m \in Seen(w)
      BY <1>4 DEF Seen, Within
    <2> QED  BY <2>1, <2>2, <2>3
  <1>6. ASSUME \A i, j \in Tells(ev): i < j => ev[i][2] < ev[j][2], Ascending(q), Older(Seen(ev), Within(q)),
               NEW i \in Tells(w), NEW j \in Tells(w), i < j
        PROVE  w[i][2] < w[j][2]
    <2>1. CASE j <= n
      <3>1. i \in Tells(ev) /\ j \in Tells(ev) /\ w[i] = ev[i] /\ w[j] = ev[j]
        BY <2>1, <1>2, <1>6
      <3> QED  BY <3>1, <1>6
    <2>2. CASE i <= n /\ j > n
      <3>1. i \in Tells(ev) /\ w[i] = ev[i] /\ j - n \in DOMAIN q /\ w[j][2] = q[j - n]
        BY <2>2, <1>2
      <3>2. w[i][2] \in Seen(ev) /\ w[j][2] \in Within(q)
        BY <3>1 DEF Seen, Within
      <3> QED  BY <3>2, <1>6 DEF Older
    <2>3. CASE i > n
      <3>1. i - n \in DOMAIN q /\ w[i][2] = q[i - n] /\ j - n \in DOMAIN q /\ w[j][2] = q[j - n] /\ i - n < j - n
        BY <2>3, <1>2, <1>6
      <3> QED  BY <3>1, <1>6 DEF Ascending
    <2> QED  BY <2>1, <2>2, <2>3, <1>2
  <1> QED  BY <1>5, <1>6

\* What the first frame of a line tells.
LEMMA FrameMsgs ==
  ASSUME NEW f, f.type = "a"
  PROVE  Msgs(f) = Within(f.msgs)
  BY DEF Msgs, Within

LEMMA TakeSorted ==
  ASSUME NEW L, NEW M, NEW ev, NEW w, NEW s, Sorted(L, ev, s), Rest1(L, M), s.sent \in Nat, s.base \in Nat,
         L[1].type = "a", Telling(ev, L[1].msgs, w)
  PROVE  Sorted(M, w, s)
  <1>1. PICK n \in Nat: DOMAIN L = 1..(n + 1) /\ DOMAIN M = 1..n /\ \A p \in 1..n: M[p] = L[p + 1]
    BY DEF Rest1
  <1>2. 1 \in DOMAIN L /\ Msgs(L[1]) = Within(L[1].msgs)
    BY <1>1, FrameMsgs
  <1>3. Sorted(M, ev, s)
    BY SkipSorted
  <1>4. Ascending(L[1].msgs) /\ Older(Seen(ev), Within(L[1].msgs)) /\ \A i, j \in Tells(ev): i < j => ev[i][2] < ev[j][2]
    BY <1>2 DEF Sorted
  <1>5. Seen(w) = Seen(ev) \cup Msgs(L[1]) /\ \A i, j \in Tells(w): i < j => w[i][2] < w[j][2]
    BY <1>2, <1>4, TellingSeen
  <1>6. \A p \in DOMAIN M: Older(Msgs(L[1]), Msgs(M[p]))
    <2> TAKE p \in DOMAIN M
    <2>1. p + 1 \in DOMAIN L /\ 1 < p + 1 /\ M[p] = L[p + 1]
      BY <1>1
    <2> QED  BY <1>2, <2>1 DEF Sorted
  <1>7. \A p \in DOMAIN M: Older(Seen(w), Msgs(M[p]))
    BY <1>3, <1>5, <1>6 DEF Sorted, Older
  <1>8. Older(Msgs(L[1]), Within(s.queue)) /\ Msgs(L[1]) \subseteq (s.base + 1)..s.sent
    BY <1>2 DEF Sorted
  <1>9. Older(Seen(w), Within(s.queue))
    BY <1>3, <1>5, <1>8 DEF Sorted, Older
  <1>10. Seen(w) \subseteq 1..s.sent
    <2>1. \A m \in (s.base + 1)..s.sent: m \in 1..s.sent
      OBVIOUS
    <2> QED  BY <1>3, <1>5, <1>8, <2>1 DEF Sorted
  <1> QED  BY <1>3, <1>5, <1>7, <1>9, <1>10 DEF Sorted

LEMMA RestPasses ==
  ASSUME NEW L, NEW M, NEW rs, NEW n \in Nat, DOMAIN L = 1..(n + 1), DOMAIN M = 1..n, \A p \in 1..n: M[p] = L[p + 1],
         L[1].type # "o", NEW p \in 1..n
  PROVE  Passes(M, rs, p) <=> Passes(L, rs, p + 1)
  <1>1. ASSUME Passes(M, rs, p), NEW q \in 1..(p + 1), L[q].type = "o"
        PROVE  rs = CONNECTING /\ \A r \in 1..(q - 1): L[r].type # "o"
    <2>1. q # 1
      BY <1>1
    <2>2. q - 1 \in 1..p /\ M[q - 1] = L[q]
      BY <2>1
    <2>3. rs = CONNECTING /\ \A r \in 1..((q - 1) - 1): M[r].type # "o"
      BY <1>1, <2>2 DEF Passes
    <2>4. ASSUME NEW r \in 1..(q - 1), r # 1 PROVE r - 1 \in 1..((q - 1) - 1) /\ M[r - 1] = L[r]
      BY <2>4
    <2> QED  BY <2>3, <2>4
  <1>2. ASSUME Passes(L, rs, p + 1), NEW q \in 1..p, M[q].type = "o"
        PROVE  rs = CONNECTING /\ \A r \in 1..(q - 1): M[r].type # "o"
    <2>1. q + 1 \in 1..(p + 1) /\ M[q] = L[q + 1]
      OBVIOUS
    <2>2. rs = CONNECTING /\ \A r \in 1..((q + 1) - 1): L[r].type # "o"
      BY <1>2, <2>1 DEF Passes
    <2>3. \A r \in 1..(q - 1): r + 1 \in 1..((q + 1) - 1) /\ M[r] = L[r + 1]
      OBVIOUS
    <2> QED  BY <2>2, <2>3
  <1> QED  BY <1>1, <1>2 DEF Passes

LEMMA TakeComplete ==
  ASSUME NEW L, NEW M, NEW ev, NEW w, NEW s, NEW rs, NEW e, NEW f, Complete(L, ev, s, rs, e), Rest1(L, M),
         L[1].type # "o", Seen(w) = Seen(ev) \cup Msgs(L[1]), Alive(f) => Alive(e)
  PROVE  Complete(M, w, s, rs, f)
  <1>1. PICK n \in Nat: DOMAIN L = 1..(n + 1) /\ DOMAIN M = 1..n /\ \A p \in 1..n: M[p] = L[p + 1]
    BY DEF Rest1
  <1>2. \A p \in DOMAIN M: Passes(M, rs, p) <=> Passes(L, rs, p + 1)
    BY <1>1, RestPasses
  <1>3. \A p \in DOMAIN M: p \in Int /\ p + 1 \in DOMAIN L /\ M[p] = L[p + 1]
    BY <1>1
  <1>4. \A p \in DOMAIN L: p = 1 \/ (p - 1 \in DOMAIN M /\ M[p - 1] = L[p] /\ p = (p - 1) + 1)
    BY <1>1
  <1>5. NoGap(M, w, s, rs)
    <2> SUFFICES ASSUME NEW p \in DOMAIN M, Passes(M, rs, p), NEW m \in Msgs(M[p]), NEW k \in (s.base + 1)..m
                 PROVE  k \in Seen(w) \/ \E r \in 1..p: k \in Msgs(M[r])
      BY DEF NoGap
    <2>1. Passes(L, rs, p + 1) /\ p + 1 \in DOMAIN L /\ m \in Msgs(L[p + 1])
      BY <1>2, <1>3
    <2>2. k \in Seen(ev) \/ \E r \in 1..(p + 1): k \in Msgs(L[r])
      BY <2>1 DEF Complete, NoGap
    <2>3. ASSUME NEW r \in 1..(p + 1), k \in Msgs(L[r]) PROVE k \in Seen(w) \/ \E i \in 1..p: k \in Msgs(M[i])
      <3>1. CASE r = 1
        BY <2>3, <3>1
      <3>2. CASE r # 1
        <4>1. r - 1 \in 1..p /\ M[r - 1] = L[r]
          BY <1>1, <3>2
        <4> QED  BY <2>3, <4>1
      <3> QED  BY <3>1, <3>2
    <2> QED  BY <2>2, <2>3
  <1>6. OpenAhead(M, rs)
    <2> SUFFICES ASSUME rs = CONNECTING, NEW p \in DOMAIN M, M[p].type = "a"
                 PROVE  \E r \in 1..(p - 1): M[r].type = "o"
      BY DEF OpenAhead
    <2>1. p + 1 \in DOMAIN L /\ L[p + 1].type = "a"
      BY <1>3
    <2>2. PICK r \in 1..((p + 1) - 1): L[r].type = "o"
      BY <2>1 DEF Complete, OpenAhead
    <2>3. r # 1
      BY <2>2
    <2>4. r - 1 \in 1..(p - 1) /\ M[r - 1] = L[r]
      BY <1>1, <2>3
    <2> QED  BY <2>2, <2>4
  <1>7. ASSUME Alive(f) PROVE Joined(M, w, s, rs)
    <2>1. Joined(L, ev, s, rs)
      BY <1>7 DEF Complete
    <2>2. Begun(L, rs) <=> Begun(M, rs)
      BY <1>3, <1>4 DEF Begun
    <2>3. ASSUME \A p \in DOMAIN M: Passes(M, rs, p) PROVE \A p \in DOMAIN L: Passes(L, rs, p)
      <3> TAKE p \in DOMAIN L
      <3>1. CASE p = 1
        BY <3>1 DEF Passes
      <3>2. CASE p # 1
        BY <3>2, <2>3, <1>2, <1>4
      <3> QED  BY <3>1, <3>2
    <2>4. \A p \in DOMAIN L: \A m \in Msgs(L[p]): m \in Seen(w) \/ \E r \in DOMAIN M: m \in Msgs(M[r])
      BY <1>4
    <2>5. s.state # "none" => Begun(M, rs)
      BY <2>1, <2>2 DEF Joined
    <2>6. ASSUME \A p \in DOMAIN M: Passes(M, rs, p), s.state = "none" => ~Begun(M, rs), NEW i \in (s.base + 1)..s.sent
          PROVE  i \in Seen(w) \/ i \in Within(s.queue) \/ \E p \in DOMAIN M: i \in Msgs(M[p])
      <3>1. i \in Seen(ev) \/ i \in Within(s.queue) \/ \E p \in DOMAIN L: i \in Msgs(L[p])
        BY <2>1, <2>2, <2>3, <2>6 DEF Joined
      <3> QED  BY <3>1, <2>4
    <2> QED  BY <2>5, <2>6 DEF Joined
  <1> QED  BY <1>5, <1>6, <1>7 DEF Complete

\* The first frame opens the socket.
LEMMA OpenComplete ==
  ASSUME NEW L, NEW M, NEW ev, NEW w, NEW s, NEW e, NEW f, Complete(L, ev, s, CONNECTING, e), Rest1(L, M),
         L[1].type = "o", Seen(w) = Seen(ev), Alive(f) => Alive(e)
  PROVE  Complete(M, w, s, OPEN, f)
  <1>1. PICK n \in Nat: DOMAIN L = 1..(n + 1) /\ DOMAIN M = 1..n /\ \A p \in 1..n: M[p] = L[p + 1]
    BY DEF Rest1
  <1>2. OPEN # CONNECTING
    BY DEF OPEN, CONNECTING
  <1>3. \A p \in DOMAIN M: p \in Int /\ p + 1 \in DOMAIN L /\ M[p] = L[p + 1]
    BY <1>1
  <1>4. \A p \in DOMAIN L: p = 1 \/ (p - 1 \in DOMAIN M /\ M[p - 1] = L[p] /\ p = (p - 1) + 1)
    BY <1>1
  <1>5. \A p \in DOMAIN M: Passes(M, OPEN, p) => Passes(L, CONNECTING, p + 1)
    <2> SUFFICES ASSUME NEW p \in 1..n, \A q \in 1..p: M[q].type # "o", NEW q \in 1..(p + 1), L[q].type = "o"
                 PROVE  \A r \in 1..(q - 1): L[r].type # "o"
      BY <1>1, <1>2 DEF Passes
    <2>1. CASE q = 1
      BY <2>1
    <2>2. CASE q # 1
      <3>1. q - 1 \in 1..p /\ M[q - 1] = L[q]
        BY <1>1, <2>2
      <3> QED  BY <3>1
    <2> QED  BY <2>1, <2>2
  <1>6. Msgs(L[1]) = {}
    BY NoMessages
  <1>7. NoGap(M, w, s, OPEN)
    <2> SUFFICES ASSUME NEW p \in DOMAIN M, Passes(M, OPEN, p), NEW m \in Msgs(M[p]), NEW k \in (s.base + 1)..m
                 PROVE  k \in Seen(w) \/ \E r \in 1..p: k \in Msgs(M[r])
      BY DEF NoGap
    <2>1. Passes(L, CONNECTING, p + 1) /\ p + 1 \in DOMAIN L /\ m \in Msgs(L[p + 1])
      BY <1>3, <1>5
    <2>2. k \in Seen(ev) \/ \E r \in 1..(p + 1): k \in Msgs(L[r])
      BY <2>1 DEF Complete, NoGap
    <2>3. ASSUME NEW r \in 1..(p + 1), k \in Msgs(L[r]) PROVE \E i \in 1..p: k \in Msgs(M[i])
      <3>1. r # 1
        BY <1>6, <2>3
      <3>2. r - 1 \in 1..p /\ M[r - 1] = L[r]
        BY <1>1, <3>1
      <3> QED  BY <2>3, <3>2
    <2> QED  BY <2>2, <2>3
  <1>8. OpenAhead(M, OPEN)
    BY <1>2 DEF OpenAhead
  <1>9. ASSUME Alive(f) PROVE Joined(M, w, s, OPEN)
    <2>1. Joined(L, ev, s, CONNECTING)
      BY <1>9 DEF Complete
    <2>2. Begun(M, OPEN)
      BY <1>2 DEF Begun
    <2>3. ASSUME \A p \in DOMAIN M: Passes(M, OPEN, p) PROVE \A p \in DOMAIN L: Passes(L, CONNECTING, p)
      <3> TAKE p \in DOMAIN L
      <3>1. CASE p = 1
        BY <3>1 DEF Passes
      <3>2. CASE p # 1
        BY <3>2, <2>3, <1>5, <1>4
      <3> QED  BY <3>1, <3>2
    <2>4. \A p \in DOMAIN L: \A m \in Msgs(L[p]): \E r \in DOMAIN M: m \in Msgs(M[r])
      BY <1>4, <1>6
    <2>6. ASSUME \A p \in DOMAIN M: Passes(M, OPEN, p), s.state = "none" => ~Begun(M, OPEN), NEW i \in (s.base + 1)..s.sent
          PROVE  i \in Seen(w) \/ i \in Within(s.queue) \/ \E p \in DOMAIN M: i \in Msgs(M[p])
      <3>1. i \in Seen(ev) \/ i \in Within(s.queue) \/ \E p \in DOMAIN L: i \in Msgs(L[p])
        BY <2>1, <2>2, <2>3, <2>6 DEF Joined
      <3> QED  BY <3>1, <2>4
    <2> QED  BY <2>2, <2>6 DEF Joined
  <1> QED  BY <1>7, <1>8, <1>9 DEF Complete

\* What the user has seen has no gap.
LEMMA TakeUnbroken ==
  ASSUME NEW L, NEW ev, NEW w, NEW s, NEW rs, NEW e, Complete(L, ev, s, rs, e), Unbroken(ev, s), 1 \in DOMAIN L,
         L[1].type # "o", Seen(w) = Seen(ev) \cup Msgs(L[1])
  PROVE  Unbroken(w, s)
  <1>1. Passes(L, rs, 1)
    BY DEF Passes
  <1>2. \A m \in Msgs(L[1]): \A k \in (s.base + 1)..m: k \in Seen(w)
    BY <1>1 DEF Complete, NoGap
  <1> QED  BY <1>2 DEF Unbroken

\* A frame is added to the end of a line.
More1(L, M, f) == \E n \in Nat: /\ DOMAIN L = 1..n /\ DOMAIN M = 1..(n + 1) /\ M[n + 1] = f
                                /\ \A p \in 1..n: M[p] = L[p]

LEMMA MoreSorted ==
  ASSUME NEW L, NEW M, NEW f, NEW ev, NEW s, NEW t, Sorted(L, ev, s), More1(L, M, f),
         f.type = "a" => Ascending(f.msgs),
         t.sent = s.sent, t.base = s.base, Msgs(f) \cup Within(t.queue) \subseteq Within(s.queue),
         Ascending(t.queue), Older(Msgs(f), Within(t.queue))
  PROVE  Sorted(M, ev, t)
  <1>1. PICK n \in Nat: /\ DOMAIN L = 1..n /\ DOMAIN M = 1..(n + 1) /\ M[n + 1] = f
                        /\ \A p \in 1..n: M[p] = L[p]
    BY DEF More1
  <1>2. \A p \in DOMAIN M: p \in Int /\ ((p \in DOMAIN L /\ M[p] = L[p] /\ p < n + 1) \/ (p = n + 1 /\ M[p] = f))
    BY <1>1
  <1>3. \A p \in DOMAIN M: M[p].type = "a" => Ascending(M[p].msgs)
    BY <1>2 DEF Sorted
  <1>4. /\ Older(Seen(ev), Within(s.queue)) /\ Within(s.queue) \subseteq (s.base + 1)..s.sent
        /\ \A p \in DOMAIN L: /\ Older(Seen(ev), Msgs(L[p])) /\ Older(Msgs(L[p]), Within(s.queue))
                              /\ Msgs(L[p]) \subseteq (s.base + 1)..s.sent
    BY DEF Sorted
  <1>5. \A p \in DOMAIN M: /\ Older(Seen(ev), Msgs(M[p])) /\ Older(Msgs(M[p]), Within(t.queue))
                           /\ Msgs(M[p]) \subseteq (s.base + 1)..s.sent
    <2> TAKE p \in DOMAIN M
    <2>1. CASE p \in DOMAIN L /\ M[p] = L[p]
      BY <1>4, <2>1 DEF Older
    <2>2. CASE M[p] = f
      BY <1>4, <2>2 DEF Older
    <2> QED  BY <1>2, <2>1, <2>2
  <1>6. \A p, r \in DOMAIN M: p < r => Older(Msgs(M[p]), Msgs(M[r]))
    <2> SUFFICES ASSUME NEW p \in DOMAIN M, NEW r \in DOMAIN M, p < r PROVE Older(Msgs(M[p]), Msgs(M[r]))
      OBVIOUS
    <2>1. p \in DOMAIN L /\ M[p] = L[p]
      BY <1>1, <1>2
    <2>2. CASE r \in DOMAIN L /\ M[r] = L[r]
      BY <2>1, <2>2 DEF Sorted
    <2>3. CASE M[r] = f
      BY <1>4, <2>1, <2>3 DEF Older
    <2> QED  BY <1>2, <2>2, <2>3
  <1>7. Older(Seen(ev), Within(t.queue)) /\ Within(t.queue) \subseteq (s.base + 1)..s.sent
    BY <1>4 DEF Older
  <1>8. Seen(ev) \subseteq 1..t.sent /\ t.base <= t.sent /\ \A i, j \in Tells(ev): i < j => ev[i][2] < ev[j][2]
    BY DEF Sorted
  <1> QED  BY <1>3, <1>5, <1>6, <1>7, <1>8 DEF Sorted

LEMMA MorePasses ==
  ASSUME NEW L, NEW M, NEW f, NEW rs, More1(L, M, f)
  PROVE  \A p \in DOMAIN L: p \in DOMAIN M /\ M[p] = L[p] /\ (Passes(M, rs, p) <=> Passes(L, rs, p))
  <1>1. PICK n \in Nat: /\ DOMAIN L = 1..n /\ DOMAIN M = 1..(n + 1) /\ M[n + 1] = f
                        /\ \A p \in 1..n: M[p] = L[p]
    BY DEF More1
  <1>2. \A p \in DOMAIN L: p \in DOMAIN M /\ M[p] = L[p]
    BY <1>1
  <1>3. \A p \in DOMAIN L: \A q \in 1..p: M[q] = L[q] /\ \A r \in 1..(q - 1): M[r] = L[r]
    BY <1>1
  <1> QED  BY <1>2, <1>3 DEF Passes

LEMMA MoreNoGap ==
  ASSUME NEW L, NEW M, NEW f, NEW ev, NEW s, NEW t, NEW rs, More1(L, M, f), NoGap(L, ev, s, rs), OpenAhead(L, rs),
         t.base = s.base,
         f.type = "a" => /\ Begun(L, rs)
                         /\ (\A p \in DOMAIN L: Passes(L, rs, p)) =>
                              \A m \in Msgs(f): \A k \in (s.base + 1)..m:
                                 k \in Seen(ev) \/ k \in Msgs(f) \/ \E p \in DOMAIN L: k \in Msgs(L[p])
  PROVE  NoGap(M, ev, t, rs) /\ OpenAhead(M, rs)
  <1>1. PICK n \in Nat: /\ DOMAIN L = 1..n /\ DOMAIN M = 1..(n + 1) /\ M[n + 1] = f
                        /\ \A p \in 1..n: M[p] = L[p]
    BY DEF More1
  <1>2. \A p \in DOMAIN L: p \in DOMAIN M /\ M[p] = L[p] /\ (Passes(M, rs, p) <=> Passes(L, rs, p))
    BY MorePasses
  <1>3. \A p \in DOMAIN M: p \in DOMAIN L \/ p = n + 1
    BY <1>1
  <1>4. ASSUME NEW p \in DOMAIN M, Passes(M, rs, p), NEW m \in Msgs(M[p]), NEW k \in (s.base + 1)..m
        PROVE  k \in Seen(ev) \/ \E r \in 1..p: k \in Msgs(M[r])
    <2>1. CASE p \in DOMAIN L
      <3>1. k \in Seen(ev) \/ \E r \in 1..p: k \in Msgs(L[r])
        BY <1>2, <1>4, <2>1 DEF NoGap
      <3>2. \A r \in 1..p: M[r] = L[r]
        BY <1>1, <2>1
      <3> QED  BY <3>1, <3>2
    <2>2. CASE p = n + 1
      <3>1. f.type = "a"
        BY <1>1, <1>4, <2>2, NoMessages
      <3>2. \A q \in DOMAIN L: Passes(M, rs, q)
        <4> TAKE q \in DOMAIN L
        <4>1. \A r \in 1..q: r \in 1..p
          BY <1>1, <2>2
        <4> QED  BY <4>1, <1>4 DEF Passes
      <3>3. k \in Seen(ev) \/ k \in Msgs(f) \/ \E q \in DOMAIN L: k \in Msgs(L[q])
        BY <1>1, <1>2, <1>4, <2>2, <3>1, <3>2
      <3>4. \A q \in DOMAIN L: q \in 1..p /\ M[q] = L[q]
        BY <1>1, <2>2
      <3>5. p \in 1..p /\ M[p] = f
        BY <1>1, <2>2
      <3> QED  BY <3>3, <3>4, <3>5
    <2> QED  BY <1>3, <2>1, <2>2
  <1>5. ASSUME rs = CONNECTING, NEW p \in DOMAIN M, M[p].type = "a"
        PROVE  \E r \in 1..(p - 1): M[r].type = "o"
    <2>1. CASE p \in DOMAIN L
      <3>1. PICK r \in 1..(p - 1): L[r].type = "o"
        BY <1>2, <1>5, <2>1 DEF OpenAhead
      <3>2. M[r] = L[r]
        BY <1>1, <2>1
      <3> QED  BY <3>1, <3>2
    <2>2. CASE p = n + 1
      <3>1. PICK r \in DOMAIN L: L[r].type = "o"
        BY <1>1, <1>5, <2>2 DEF Begun
      <3>2. r \in 1..(p - 1) /\ M[r] = L[r]
        BY <1>1, <2>2
      <3> QED  BY <3>1, <3>2
    <2> QED  BY <1>3, <2>1, <2>2
  <1> QED  BY <1>4, <1>5 DEF NoGap, OpenAhead

LEMMA MoreJoined ==
  ASSUME NEW L, NEW M, NEW f, NEW ev, NEW s, NEW t, NEW rs, More1(L, M, f), Joined(L, ev, s, rs),
         t.sent = s.sent, t.base = s.base, Within(s.queue) \subseteq Msgs(f) \cup Within(t.queue),
         t.state = s.state \/ (f.type = "o" /\ s.state = "none")
  PROVE  Joined(M, ev, t, rs)
  <1>1. PICK n \in Nat: /\ DOMAIN L = 1..n /\ DOMAIN M = 1..(n + 1) /\ M[n + 1] = f
                        /\ \A p \in 1..n: M[p] = L[p]
    BY DEF More1
  <1>2. \A p \in DOMAIN L: p \in DOMAIN M /\ M[p] = L[p] /\ (Passes(M, rs, p) <=> Passes(L, rs, p))
    BY MorePasses
  <1>3. n + 1 \in DOMAIN M
    BY <1>1
  <1>4. t.state # "none" => Begun(M, rs)
    BY <1>1, <1>2, <1>3 DEF Joined, Begun
  <1>5. ASSUME \A p \in DOMAIN M: Passes(M, rs, p), t.state = "none" => ~Begun(M, rs), NEW k \in (s.base + 1)..s.sent
        PROVE  k \in Seen(ev) \/ k \in Within(t.queue) \/ \E p \in DOMAIN M: k \in Msgs(M[p])
    <2>1. \A p \in DOMAIN L: Passes(L, rs, p)
      BY <1>2, <1>5
    <2>2. s.state = "none" => ~Begun(L, rs)
      <3>1. CASE t.state = s.state
        BY <1>2, <1>5, <3>1 DEF Begun
      <3>2. CASE f.type = "o"
        <4>1. Passes(M, rs, n + 1) /\ n + 1 \in 1..(n + 1)
          BY <1>3, <1>5
        <4>2. rs = CONNECTING /\ \A r \in 1..((n + 1) - 1): M[r].type # "o"
          BY <1>1, <3>2, <4>1 DEF Passes
        <4>3. \A r \in DOMAIN L: r \in 1..((n + 1) - 1)
          BY <1>1
        <4> QED  BY <1>2, <4>2, <4>3 DEF Begun
      <3> QED  BY <3>1, <3>2
    <2>3. k \in Seen(ev) \/ k \in Within(s.queue) \/ \E p \in DOMAIN L: k \in Msgs(L[p])
      BY <1>5, <2>1, <2>2 DEF Joined
    <2> QED  BY <1>1, <1>2, <1>3, <2>3
  <1> QED  BY <1>4, <1>5 DEF Joined

\* The server sends, closes or forgets: the line stays.
Adds(s, t) == t.sent = s.sent + 1 /\ t.base = s.base /\ t.queue = Append(s.queue, s.sent + 1)

LEMMA SentMore ==
  ASSUME NEW L, NEW ev, NEW s \in Sessions, NEW t \in Sessions, Sorted(L, ev, s), Adds(s, t)
  PROVE  Sorted(L, ev, t) /\ Within(t.queue) = Within(s.queue) \cup {s.sent + 1}
  <1>a. t.sent = s.sent + 1 /\ t.base = s.base /\ t.queue = Append(s.queue, s.sent + 1)
    BY DEF Adds
  <1>1. s.queue \in Seq(Messages) /\ s.sent \in Nat /\ s.base \in Nat /\ s.sent + 1 \in Messages
    <2>1. s.sent \in 0..MaxMessages /\ t.sent \in 0..MaxMessages /\ s.base \in 0..MaxMessages /\ s.queue \in Seq(Messages)
      BY DEF Sessions
    <2> QED  BY <1>a, <2>1, BoundsAssumption DEF Messages
  <1>2. PICK n \in Nat: /\ DOMAIN s.queue = 1..n /\ DOMAIN t.queue = 1..(n + 1) /\ t.queue[n + 1] = s.sent + 1
                        /\ \A i \in 1..n: t.queue[i] = s.queue[i]
    <2>1. /\ Len(s.queue) \in Nat /\ DOMAIN s.queue = 1..Len(s.queue)
          /\ DOMAIN t.queue = 1..(Len(s.queue) + 1) /\ t.queue[Len(s.queue) + 1] = s.sent + 1
          /\ \A i \in DOMAIN s.queue: t.queue[i] = s.queue[i]
      BY <1>1, <1>a, AppendPlaces
    <2> QED  BY <2>1
  <1>3. Within(t.queue) = Within(s.queue) \cup {s.sent + 1}
    <2>1. \A i \in DOMAIN t.queue: (i \in DOMAIN s.queue /\ t.queue[i] = s.queue[i]) \/ t.queue[i] = s.sent + 1
      BY <1>2
    <2>2. n + 1 \in DOMAIN t.queue /\ \A i \in DOMAIN s.queue: i \in DOMAIN t.queue /\ t.queue[i] = s.queue[i]
      BY <1>2
    <2> QED  BY <1>2, <2>1, <2>2 DEF Within
  <1>4. \A m \in (s.base + 1)..s.sent: m < s.sent + 1 /\ m \in (s.base + 1)..(s.sent + 1)
    BY <1>1
  <1>5. \A m \in 1..s.sent: m < s.sent + 1 /\ m \in 1..(s.sent + 1)
    BY <1>1
  <1>6. Ascending(t.queue)
    <2> SUFFICES ASSUME NEW i \in 1..(n + 1), NEW j \in 1..(n + 1), i < j PROVE t.queue[i] < t.queue[j]
      BY <1>2 DEF Ascending
    <2>1. i \in 1..n
      OBVIOUS
    <2>2. CASE j \in 1..n
      BY <1>2, <2>1, <2>2 DEF Sorted, Ascending
    <2>3. CASE j = n + 1
      <3>1. s.queue[i] \in (s.base + 1)..s.sent
        BY <1>2, <2>1 DEF Sorted, Within
      <3>2. t.queue[i] = s.queue[i] /\ t.queue[j] = s.sent + 1
        BY <1>2, <2>1, <2>3
      <3>3. s.queue[i] < s.sent + 1
        BY <1>4, <3>1
      <3> QED  BY <3>2, <3>3, Zenon
    <2>4. j \in 1..n \/ j = n + 1
      OBVIOUS
    <2> QED  BY <2>2, <2>3, <2>4, Zenon
  <1>7. s.sent + 1 \in (s.base + 1)..(s.sent + 1) /\ s.base <= s.sent + 1
    BY <1>1 DEF Sorted
  <1>8. Older(Seen(ev), Within(t.queue)) /\ Within(t.queue) \subseteq (s.base + 1)..(s.sent + 1) /\ Seen(ev) \subseteq 1..(s.sent + 1)
    BY <1>3, <1>4, <1>5, <1>7 DEF Sorted, Older
  <1>9. \A p \in DOMAIN L: /\ Older(Seen(ev), Msgs(L[p])) /\ Older(Msgs(L[p]), Within(t.queue))
                           /\ Msgs(L[p]) \subseteq (s.base + 1)..(s.sent + 1)
    BY <1>3, <1>4 DEF Sorted, Older
  <1>10. /\ \A i, j \in Tells(ev): i < j => ev[i][2] < ev[j][2]
         /\ \A p \in DOMAIN L: L[p].type = "a" => Ascending(L[p].msgs)
         /\ \A p, r \in DOMAIN L: p < r => Older(Msgs(L[p]), Msgs(L[r]))
    BY DEF Sorted
  <1>11. t.sent = s.sent + 1 /\ t.base = s.base
    BY DEF Adds
  <1> QED  BY <1>3, <1>6, <1>7, <1>8, <1>9, <1>10, <1>11 DEF Sorted

-----------------------------------------------------------------------------
(* What a handler does to the line. *)

SameTalk(s, t) == t.queue = s.queue /\ t.sent = s.sent /\ t.base = s.base /\ t.state = s.state

LEMMA TalkSame ==
  ASSUME NEW s, NEW t, SameTalk(s, t), NEW L, NEW ev
  PROVE  /\ Sorted(L, ev, s) <=> Sorted(L, ev, t)
         /\ Unbroken(ev, s) <=> Unbroken(ev, t)
         /\ \A rs, e: Complete(L, ev, s, rs, e) <=> Complete(L, ev, t, rs, e)
  <1>1. (Sorted(L, ev, s) <=> Sorted(L, ev, t)) /\ (Unbroken(ev, s) <=> Unbroken(ev, t))
    BY DEF SameTalk, Sorted, Unbroken
  <1>2. \A rs: NoGap(L, ev, s, rs) <=> NoGap(L, ev, t, rs)
    BY DEF SameTalk, NoGap
  <1>3. \A rs: Joined(L, ev, s, rs) <=> Joined(L, ev, t, rs)
    BY DEF SameTalk, Joined
  <1> QED  BY <1>1, <1>2, <1>3 DEF Complete

\* Nothing new comes to the socket of y.
Hushed(x, y) ==
    /\ y.sock.events = x.sock.events /\ y.tr.name = x.tr.name /\ SameTalk(x.srv, y.srv)
    /\ Cut(Line(x), Line(y))
    /\ Exact(y.tr) /\ y.tr.ears =>
         /\ x.tr.ears /\ y.sock.readyState = x.sock.readyState
         /\ Alive(y.tr) => Alive(x.tr) /\ \A p \in DOMAIN Line(x): p \notin DOMAIN Line(y) => Silent(Line(x)[p])

LEMMA HushedHeard ==
  ASSUME NEW x, NEW y, Heard(x), Hushed(x, y)
  PROVE  Heard(y)
  <1>1. /\ y.sock.events = x.sock.events /\ y.tr.name = x.tr.name /\ SameTalk(x.srv, y.srv)
        /\ Cut(Line(x), Line(y))
    BY DEF Hushed
  <1>2. Sorted(Line(y), y.sock.events, y.srv)
    <2>1. Sorted(Line(y), x.sock.events, x.srv)
      BY <1>1, CutSorted DEF Heard
    <2> QED  BY <1>1, <2>1, TalkSame
  <1>3. Exact(y.tr) <=> Exact(x.tr)
    BY <1>1 DEF Exact
  <1>4. Exact(y.tr) => Unbroken(y.sock.events, y.srv)
    <2>1. Exact(y.tr) => Unbroken(x.sock.events, x.srv)
      BY <1>3 DEF Heard
    <2> QED  BY <1>1, <2>1, TalkSame
  <1>5. ASSUME Exact(y.tr), y.tr.ears
        PROVE  Complete(Line(y), y.sock.events, y.srv, y.sock.readyState, y.tr)
    <2>1. Complete(Line(x), x.sock.events, x.srv, x.sock.readyState, x.tr)
      BY <1>3, <1>5 DEF Heard, Hushed
    <2>2. /\ y.sock.readyState = x.sock.readyState
          /\ Alive(y.tr) => /\ Alive(x.tr)
                            /\ \A p \in DOMAIN Line(x): p \notin DOMAIN Line(y) => Silent(Line(x)[p])
      BY <1>5 DEF Hushed
    <2>3. Complete(Line(y), x.sock.events, x.srv, x.sock.readyState, y.tr)
      BY <1>1, <2>1, <2>2, CutComplete
    <2> QED  BY <1>1, <2>2, <2>3, TalkSame
  <1> QED  BY <1>2, <1>4, <1>5 DEF Heard

\* The first frame of the line is taken: it says nothing or nobody hears it, its
\* messages are told, or it opens the socket.
Opens(x, y) == /\ x.sock.readyState = CONNECTING /\ y.sock.events = Append(x.sock.events, <<"open">>)
               /\ y.tr.ears => y.sock.readyState = OPEN
Taking(x, y) ==
    LET f == Line(x)[1] IN
    /\ y.tr.name = x.tr.name /\ SameTalk(x.srv, y.srv) /\ Rest1(Line(x), Line(y))
    /\ y.tr.ears /\ Alive(y.tr) => Alive(x.tr)
    /\ y.tr.ears => x.tr.ears
    /\ \/ /\ y.sock.events = x.sock.events
          /\ y.tr.ears => y.sock.readyState = x.sock.readyState /\ Silent(f)
       \/ /\ f.type = "a" /\ x.tr.ears /\ Telling(x.sock.events, f.msgs, y.sock.events)
          /\ y.tr.ears => y.sock.readyState = x.sock.readyState
       \/ f.type = "o" /\ x.tr.ears /\ Opens(x, y)

\* The user sees something else than a message.
Turned(q, w) == /\ Tells(w) = Tells(q) /\ Seen(w) = Seen(q) /\ \A i \in Tells(q): w[i] = q[i]
                /\ (q = <<>> \/ ~IsMessage(Head(q))) => w # <<>> /\ ~IsMessage(Head(w))

LEMMA TurnTold ==
  ASSUME NEW q \in Seq(Events), NEW e \in {<<"open">>, <<"error">>, <<"close">>}, NEW w, w = Append(q, e)
  PROVE  Turned(q, w)
  <1>1. e \in Events /\ ~IsMessage(e)
    BY EventKinds, TurnsMade
  <1>2. /\ w \in Seq(Events) /\ Len(q) \in Nat /\ Len(w) = Len(q) + 1 /\ DOMAIN q = 1..Len(q) /\ DOMAIN w = 1..(Len(q) + 1)
        /\ \A i \in DOMAIN q: w[i] = q[i]
        /\ w[Len(q) + 1] = e
    BY <1>1, AppendPlaces
  <1>3. \A i \in DOMAIN w: i \in DOMAIN q \/ i = Len(q) + 1
    BY <1>2
  <1>4. \A i \in DOMAIN q: i \in DOMAIN w
    BY <1>2
  <1>5. Tells(w) = Tells(q)
    BY <1>1, <1>2, <1>3, <1>4 DEF Tells
  <1>6. \A i \in Tells(q): w[i] = q[i]
    BY <1>2 DEF Tells
  <1>7. Seen(w) = Seen(q)
    BY <1>5, <1>6 DEF Seen
  <1>8. (q = <<>> \/ ~IsMessage(Head(q))) => w # <<>> /\ ~IsMessage(Head(w))
    <2>1. w # <<>> /\ Head(w) = w[1]
      BY <1>2, HeadTailProperties, EmptyTyped
    <2>2. CASE q = <<>>
      <3>1. Len(q) = 0
        BY <2>2, EmptyTyped
      <3> QED  BY <1>1, <1>2, <2>1, <3>1
    <2>3. CASE q # <<>>
      <3>1. Head(q) = q[1] /\ 1 \in DOMAIN q
        BY <2>3, <1>2, HeadTailProperties, EmptySeq
      <3> QED  BY <1>2, <2>1, <2>3, <3>1
    <2> QED  BY <2>2, <2>3
  <1> QED  BY <1>5, <1>6, <1>7, <1>8 DEF Turned

LEMMA TakingHeard ==
  ASSUME NEW x \in Parts, NEW y \in Parts, Heard(x), Taking(x, y)
  PROVE  Heard(y)
  <1> DEFINE L == Line(x)
             M == Line(y)
             ev == x.sock.events
             w == y.sock.events
  <1>1. /\ y.tr.name = x.tr.name /\ SameTalk(x.srv, y.srv) /\ Rest1(L, M)
        /\ y.tr.ears => x.tr.ears /\ (Alive(y.tr) => Alive(x.tr))
        /\ \/ w = ev /\ (y.tr.ears => y.sock.readyState = x.sock.readyState /\ Silent(L[1]))
           \/ /\ L[1].type = "a" /\ x.tr.ears /\ Telling(ev, L[1].msgs, w)
              /\ y.tr.ears => y.sock.readyState = x.sock.readyState
           \/ L[1].type = "o" /\ x.tr.ears /\ Opens(x, y)
    BY DEF Taking
  <1>2. x.srv.sent \in Nat /\ x.srv.base \in Nat
    <2>1. x.srv.sent \in 0..MaxMessages /\ x.srv.base \in 0..MaxMessages
      BY Fields DEF Sessions
    <2> QED  BY <2>1, BoundsAssumption
  <1>3. ev \in Seq(Events) /\ 1 \in DOMAIN L
    <2>1. ev \in Seq(Events)
      BY Fields DEF Sockets
    <2>2. PICK n \in Nat: DOMAIN L = 1..(n + 1)
      BY <1>1 DEF Rest1
    <2> QED  BY <2>1, <2>2
  <1>4. /\ Sorted(L, ev, x.srv) /\ (Exact(x.tr) => Unbroken(ev, x.srv))
        /\ Exact(x.tr) /\ x.tr.ears => Complete(L, ev, x.srv, x.sock.readyState, x.tr)
    BY DEF Heard
  <1>5. Exact(y.tr) <=> Exact(x.tr)
    BY <1>1 DEF Exact
  <1> SUFFICES /\ Sorted(M, w, x.srv) /\ (Exact(y.tr) => Unbroken(w, x.srv))
               /\ Exact(y.tr) /\ y.tr.ears => Complete(M, w, x.srv, y.sock.readyState, y.tr)
    BY <1>1, TalkSame DEF Heard
  <1> HIDE DEF L, M, ev, w
  <1>6. CASE w = ev /\ (y.tr.ears => y.sock.readyState = x.sock.readyState /\ Silent(L[1]))
    <2>1. Sorted(M, ev, x.srv)
      BY <1>1, <1>4, SkipSorted
    <2>2. ASSUME Exact(y.tr), y.tr.ears PROVE Complete(M, ev, x.srv, x.sock.readyState, y.tr)
      <3>1. L[1].type # "o" /\ Msgs(L[1]) = {}
        BY <1>6, <2>2, NoMessages DEF Silent
      <3>2. Seen(ev) = Seen(ev) \cup Msgs(L[1])
        BY <3>1
      <3> QED  BY <1>1, <1>4, <1>5, <2>2, <3>1, <3>2, TakeComplete
    <2> QED  BY <1>4, <1>5, <1>6, <2>1, <2>2
  <1>7. CASE /\ L[1].type = "a" /\ x.tr.ears /\ Telling(ev, L[1].msgs, w)
             /\ y.tr.ears => y.sock.readyState = x.sock.readyState
    <2>1. Sorted(M, w, x.srv)
      BY <1>1, <1>2, <1>4, <1>7, TakeSorted
    <2>2. Seen(w) = Seen(ev) \cup Msgs(L[1])
      BY <1>7, FrameMsgs, TellingSeen
    <2>3. L[1].type # "o"
      BY <1>7
    <2>4. ASSUME Exact(y.tr) PROVE Complete(L, ev, x.srv, x.sock.readyState, x.tr) /\ Unbroken(ev, x.srv)
      BY <1>4, <1>5, <1>7, <2>4
    <2>5. Exact(y.tr) => Unbroken(w, x.srv)
      BY <1>3, <2>2, <2>3, <2>4, TakeUnbroken
    <2>6. Exact(y.tr) /\ y.tr.ears => Complete(M, w, x.srv, x.sock.readyState, y.tr)
      BY <1>1, <2>2, <2>3, <2>4, TakeComplete
    <2> QED  BY <1>7, <2>1, <2>5, <2>6
  <1>8. CASE L[1].type = "o" /\ x.tr.ears /\ Opens(x, y)
    <2>1. /\ Tells(w) = Tells(ev) /\ Seen(w) = Seen(ev) /\ \A i \in Tells(ev): w[i] = ev[i]
      <3>1. w = Append(ev, <<"open">>)
        BY <1>8 DEF Opens, ev, w
      <3>2. Turned(ev, w)
        BY <1>3, <3>1, TurnTold
      <3> QED  BY <3>2 DEF Turned
    <2>2. Sorted(M, ev, x.srv)
      BY <1>1, <1>4, SkipSorted
    <2>3. Sorted(M, w, x.srv)
      BY <2>1, <2>2 DEF Sorted
    <2>4. Exact(y.tr) => Unbroken(w, x.srv)
      BY <1>4, <1>5, <2>1 DEF Unbroken
    <2>5. ASSUME Exact(y.tr), y.tr.ears PROVE Complete(M, w, x.srv, y.sock.readyState, y.tr)
      <3>1. Complete(L, ev, x.srv, CONNECTING, x.tr) /\ y.sock.readyState = OPEN
        BY <1>4, <1>5, <1>8, <2>5 DEF Opens
      <3>2. Complete(M, w, x.srv, OPEN, y.tr)
        BY <1>1, <1>8, <2>1, <2>5, <3>1, OpenComplete
      <3> QED  BY <3>1, <3>2
    <2> QED  BY <2>3, <2>4, <2>5
  <1> QED  BY <1>1, <1>6, <1>7, <1>8

LEMMA TellingFirst ==
  ASSUME NEW q \in Seq(Events), NEW m \in Seq(Messages), NEW w \in Seq(Events), Telling(q, m, w), q # <<>>, w # <<>>
  PROVE  Head(w) = Head(q)
  <1>1. PICK n, k \in Nat: DOMAIN q = 1..n /\ DOMAIN w = 1..(n + k) /\ \A i \in 1..n: w[i] = q[i]
    BY DEF Telling
  <1>2. Head(q) = q[1] /\ Head(w) = w[1] /\ 1 \in DOMAIN q
    BY HeadTailProperties, EmptySeq, LenProperties
  <1> QED  BY <1>1, <1>2

\* A message is the first thing the user sees only after a transport that may
\* lose the open frame.
LEMMA TakingOpenFirst ==
  ASSUME NEW x \in Parts, NEW y \in Parts, Phase(x), Heard(x), Listed(x), OpenFirst(x), Taking(x, y), x.tr.name # "none",
         y.sock.transports = x.sock.transports
  PROVE  OpenFirst(y)
  <1> DEFINE L == Line(x)
             ev == x.sock.events
             w == y.sock.events
  <1> SUFFICES ASSUME ~ \E t \in TriedBy(x.sock.transports): MayLoseFrames(t), w # <<>>
               PROVE  ~IsMessage(Head(w))
    BY DEF OpenFirst
  <1>1. ev \in Seq(Events) /\ w \in Seq(Events)
    BY Fields DEF Sockets
  <1>2. ev # <<>> => ~IsMessage(Head(ev))
    BY DEF OpenFirst
  <1>3. Exact(x.tr)
    BY DEF Listed, Exact
  <1>4. CASE w = ev
    BY <1>2, <1>4
  <1>5. CASE L[1].type = "a" /\ x.tr.ears /\ Telling(ev, L[1].msgs, w)
    <2>1. PICK n \in Nat: DOMAIN L = 1..(n + 1)
      BY DEF Taking, Rest1
    <2>2. 1 \in DOMAIN L
      BY <2>1
    <2>3. L[1] \in OnWire
      BY <2>2, LineTyped
    <2>4. ev # <<>>
      <3> SUFFICES ASSUME ev = <<>> PROVE FALSE
        OBVIOUS
      <3>1. DOMAIN ev = {}
        OBVIOUS
      <3>2. x.sock.readyState # OPEN
        BY <3>1 DEF Phase, Api!Legal, Api!OPEN, OPEN
      <3>3. x.sock.readyState = CONNECTING
        BY <1>5, <3>2 DEF Phase
      <3>4. OpenAhead(L, CONNECTING)
        BY <1>3, <1>5, <3>3 DEF Heard, Complete
      <3>5. \E r \in 1..(1 - 1): L[r].type = "o"
        BY <1>5, <2>2, <3>4 DEF OpenAhead
      <3> QED  BY <3>5
    <2> QED  BY <1>1, <1>2, <1>5, <2>3, <2>4, WireKinds, TellingFirst
  <1>6. CASE L[1].type = "o" /\ x.tr.ears /\ Opens(x, y)
    <2>1. w = Append(ev, <<"open">>)
      BY <1>6 DEF Opens
    <2>2. Turned(ev, w)
      BY <1>1, <2>1, TurnTold
    <2> QED  BY <1>2, <2>2 DEF Turned
  <1> QED  BY <1>4, <1>5, <1>6 DEF Taking

-----------------------------------------------------------------------------
(* The iframe before anything runs in it. *)

Fewer(q, r) == \E d \in Nat: \A i \in Signs(r): i + d \in Signs(q)
Calmer(x, y) ==
    /\ Fewer(x.tr.down, y.tr.down) /\ Fewer(x.tr.up, y.tr.up)
    /\ y.tr.frame = "loading" => x.tr.frame = "loading"
    /\ x.tr.facade = "none" => y.tr.facade = "none"
    /\ x.tr.rcv = "none" => y.tr.rcv = "none"
    /\ x.tr.rcv = "none" /\ x.srv.state = "none" => y.srv.state = "none" /\ y.srv.sent = x.srv.sent /\ y.srv.base = x.srv.base
    /\ x.tr.rcv # "waiting" /\ x.srv.wire = <<>> => y.srv.wire = <<>>
    /\ y.tr.rcv = "pause" => x.tr.rcv = "pause" \/ y.srv.wire = <<>>

LEMMA FewerSame ==
  ASSUME NEW S, NEW q \in Seq(S)
  PROVE  Fewer(q, q) /\ Fewer(q, <<>>)
  <1>1. \A i \in Signs(<<>>): FALSE
    BY DEF Signs
  <1>2. \A i \in Signs(q): i \in Int
    BY LenProperties DEF Signs
  <1>3. \A i \in Signs(q): i + 0 \in Signs(q)
    BY <1>2
  <1>4. \A i \in Signs(<<>>): i + 0 \in Signs(q)
    BY <1>1
  <1> QED  BY <1>3, <1>4 DEF Fewer

LEMMA CalmerFresh ==
  ASSUME NEW x \in Parts, NEW y \in Parts, Fresh(x), Calmer(x, y)
  PROVE  Fresh(y)
  <1>1. x.tr.down \in Seq(ToPage) /\ x.tr.up \in Seq(ToFrame) /\ y.tr.down \in Seq(ToPage) /\ y.tr.up \in Seq(ToFrame)
    BY Fields DEF Engines
  <1>2. Signs(y.tr.down) \subseteq Int /\ Signs(y.tr.up) \subseteq Int
    BY <1>1, LenProperties DEF Signs
  <1>3. PICK d \in Nat: \A i \in Signs(y.tr.down): i + d \in Signs(x.tr.down)
    BY DEF Calmer, Fewer
  <1>4. PICK u \in Nat: \A i \in Signs(y.tr.up): i + u \in Signs(x.tr.up)
    BY DEF Calmer, Fewer
  <1>5. \A i, j \in Signs(y.tr.down): i = j
    BY <1>2, <1>3 DEF Fresh
  <1>6. \A i, j \in Signs(y.tr.up): i = j
    BY <1>2, <1>4 DEF Fresh
  <1>7. /\ Signs(y.tr.down) = {} \/ Signs(y.tr.up) = {}
        /\ y.tr.frame = "loading" => Signs(y.tr.down) = {} /\ Signs(y.tr.up) = {}
    BY <1>3, <1>4 DEF Fresh, Calmer
  <1>8. ASSUME Young(y.tr) PROVE Young(x.tr)
    BY <1>3, <1>4, <1>8 DEF Young, Calmer
  <1>9. Young(y.tr) => /\ y.tr.facade = "none" /\ y.tr.rcv = "none"
                       /\ y.srv.state = "none" /\ y.srv.wire = <<>> /\ y.srv.sent = y.srv.base
    BY <1>8 DEF Fresh, Calmer
  <1>10. y.tr.rcv = "pause" => y.srv.wire = <<>>
    BY DEF Fresh, Calmer
  <1> QED  BY <1>5, <1>6, <1>7, <1>9, <1>10 DEF Fresh

-----------------------------------------------------------------------------
(* What handlers keep. *)

LEMMA BecameTold ==
  ASSUME NEW x \in Parts, Told(x), Become(x)
  PROVE  Told(Now)'
  <1>1. Now' = x /\ place' = place
    BY Became
  <1>2. Heard(Now)' /\ Fresh(Now)'
    BY <1>1 DEF Told
  <1>3. Listed(Now)' /\ OpenFirst(Now)'
    BY <1>1 DEF Told, Listed, OpenFirst, TriedBy, All
  <1> QED  BY <1>2, <1>3 DEF Told

LEMMA HushedTold ==
  ASSUME NEW x \in Parts, NEW y \in Parts, Told(x), Hushed(x, y), Calmer(x, y), y.sock.transports = x.sock.transports
  PROVE  Told(y)
  <1>1. Heard(y) /\ Fresh(y)
    BY HushedHeard, CalmerFresh DEF Told
  <1>2. Listed(y) /\ OpenFirst(y)
    BY DEF Told, Hushed, Listed, OpenFirst
  <1> QED  BY <1>1, <1>2 DEF Told

LEMMA TakingTold ==
  ASSUME NEW x \in Parts, NEW y \in Parts, Told(x), Phase(x), Taking(x, y), Calmer(x, y), x.tr.name # "none",
         y.sock.transports = x.sock.transports
  PROVE  Told(y)
  <1>1. Heard(x) /\ Fresh(x) /\ Listed(x) /\ OpenFirst(x)
    BY DEF Told
  <1>2. Heard(y) /\ Fresh(y) /\ OpenFirst(y)
    BY <1>1, TakingHeard, CalmerFresh, TakingOpenFirst
  <1>3. Listed(y)
    BY <1>1 DEF Taking, Listed
  <1> QED  BY <1>2, <1>3 DEF Told

\* Something that says nothing is posted to the page.
Posts(x, y) ==
    /\ y.sock.events = x.sock.events /\ y.sock.transports = x.sock.transports
    /\ y.tr.name = x.tr.name /\ SameTalk(x.srv, y.srv)
    /\ \E f: f.type = "h" /\ More1(Line(x), Line(y), f)
    /\ y.tr.ears => x.tr.ears /\ y.sock.readyState = x.sock.readyState
    /\ Alive(y.tr) => Alive(x.tr)

LEMMA PostsHeard ==
  ASSUME NEW x \in Parts, NEW y \in Parts, Heard(x), Posts(x, y)
  PROVE  Heard(y)
  <1>1. /\ y.sock.events = x.sock.events /\ y.tr.name = x.tr.name /\ SameTalk(x.srv, y.srv)
        /\ y.tr.ears => x.tr.ears /\ y.sock.readyState = x.sock.readyState
        /\ Alive(y.tr) => Alive(x.tr)
    BY DEF Posts
  <1>2. PICK f: f.type = "h" /\ More1(Line(x), Line(y), f)
    BY DEF Posts
  <1>3. f.type # "a" /\ Msgs(f) = {}
    BY <1>2, NoMessages
  <1>4. Sorted(Line(y), x.sock.events, x.srv)
    <2>1. Sorted(Line(x), x.sock.events, x.srv)
      BY DEF Heard
    <2>2. Ascending(x.srv.queue) /\ Older(Msgs(f), Within(x.srv.queue)) /\ Msgs(f) \cup Within(x.srv.queue) \subseteq Within(x.srv.queue)
      BY <1>3, <2>1 DEF Sorted, Older
    <2> QED  BY <1>2, <1>3, <2>1, <2>2, MoreSorted
  <1>5. Exact(y.tr) <=> Exact(x.tr)
    BY <1>1 DEF Exact
  <1>6. Exact(y.tr) => Unbroken(x.sock.events, x.srv)
    BY <1>5 DEF Heard
  <1>7. ASSUME Exact(y.tr), y.tr.ears
        PROVE  Complete(Line(y), x.sock.events, x.srv, x.sock.readyState, y.tr)
    <2>1. Complete(Line(x), x.sock.events, x.srv, x.sock.readyState, x.tr)
      BY <1>1, <1>5, <1>7 DEF Heard
    <2>2. NoGap(Line(y), x.sock.events, x.srv, x.sock.readyState) /\ OpenAhead(Line(y), x.sock.readyState)
      BY <1>2, <1>3, <2>1, MoreNoGap DEF Complete
    <2>3. Alive(y.tr) => Joined(Line(x), x.sock.events, x.srv, x.sock.readyState)
      BY <1>1, <2>1 DEF Complete
    <2>4. Within(x.srv.queue) \subseteq Msgs(f) \cup Within(x.srv.queue)
      OBVIOUS
    <2>5. Alive(y.tr) => Joined(Line(y), x.sock.events, x.srv, x.sock.readyState)
      BY <1>2, <2>3, <2>4, MoreJoined
    <2> QED  BY <2>2, <2>5 DEF Complete
  <1>8. /\ Sorted(Line(y), y.sock.events, y.srv) /\ (Exact(y.tr) => Unbroken(y.sock.events, y.srv))
        /\ Exact(y.tr) /\ y.tr.ears => Complete(Line(y), y.sock.events, y.srv, y.sock.readyState, y.tr)
    BY <1>1, <1>4, <1>6, <1>7, TalkSame
  <1> QED  BY <1>8 DEF Heard

LEMMA PostsTold ==
  ASSUME NEW x \in Parts, NEW y \in Parts, Told(x), Posts(x, y), Fresh(y)
  PROVE  Told(y)
  <1>1. Heard(y)
    BY PostsHeard DEF Told
  <1>2. Listed(y) /\ OpenFirst(y)
    BY DEF Told, Posts, Listed, OpenFirst
  <1> QED  BY <1>1, <1>2 DEF Told

\* Nothing that comes to the socket is touched.
Still(e, f) ==
    /\ f.name = e.name /\ f.down = e.down /\ f.facade = e.facade
    /\ e.rcv = "none" => f.rcv = "none"
    /\ f.rcv = "pause" => e.rcv = "pause"
    /\ f.frame = "loading" => e.frame = "loading"
    /\ Fewer(e.up, f.up)
Quiet(x, y) ==
    /\ y.sock.events = x.sock.events /\ y.sock.transports = x.sock.transports
    /\ Still(x.tr, y.tr) /\ SameTalk(x.srv, y.srv) /\ y.srv.wire = x.srv.wire
    /\ y.tr.ears => x.tr.ears /\ y.sock.readyState = x.sock.readyState

LEMMA QuietTold ==
  ASSUME NEW x \in Parts, NEW y \in Parts, Told(x), Quiet(x, y)
  PROVE  Told(y)
  <1>1. Fed(y.tr) = Fed(x.tr)
    BY DEF Quiet, Still, Fed
  <1>2. Line(y) = Line(x)
    BY <1>1, LineSame DEF Quiet, Still
  <1>3. Cut(Line(x), Line(y))
    BY <1>2, CutSame
  <1>4. Alive(y.tr) => Alive(x.tr)
    BY <1>1 DEF Quiet, Still, Alive
  <1>5. Hushed(x, y)
    BY <1>2, <1>3, <1>4 DEF Quiet, Still, Hushed
  <1>6. x.tr.down \in Seq(ToPage)
    BY Fields DEF Engines
  <1>7. Fewer(x.tr.down, y.tr.down)
    BY <1>6, FewerSame DEF Quiet, Still
  <1>8. Calmer(x, y)
    BY <1>7 DEF Quiet, Still, SameTalk, Calmer
  <1>9. y.sock.transports = x.sock.transports
    BY DEF Quiet, Still
  <1> QED  BY <1>5, <1>8, <1>9, HushedTold

\* What is added to the mail besides 's'.
LEMMA FewerMore ==
  ASSUME NEW S, NEW q \in Seq(S), NEW d \in S, d.type # "s"
  PROVE  Fewer(q, Append(q, d))
  <1> DEFINE r == Append(q, d)
  <1>1. /\ Len(q) \in Nat /\ DOMAIN q = 1..Len(q) /\ DOMAIN r = 1..(Len(q) + 1)
        /\ \A i \in DOMAIN q: r[i] = q[i]
        /\ r[Len(q) + 1] = d
    BY AppendPlaces
  <1> HIDE DEF r
  <1>2. \A i \in Signs(r): i + 0 \in Signs(q)
    <2> TAKE i \in Signs(r)
    <2>1. i \in DOMAIN r /\ r[i].type = "s"
      BY DEF Signs
    <2>2. i \in DOMAIN q /\ i + 0 = i
      BY <1>1, <2>1
    <2> QED  BY <1>1, <2>1, <2>2 DEF Signs
  <1>3. Fewer(q, r)
    BY <1>2 DEF Fewer
  <1> QED  BY <1>3 DEF r

LEMMA FewerTail ==
  ASSUME NEW S, NEW q \in Seq(S), q # <<>>
  PROVE  Fewer(q, Tail(q))
  <1> DEFINE r == Tail(q)
  <1>1. /\ Len(q) \in Nat /\ DOMAIN q = 1..Len(q) /\ DOMAIN r = 1..(Len(q) - 1)
        /\ \A i \in 1..(Len(q) - 1): r[i] = q[i + 1]
    BY HeadTailProperties, LenProperties
  <1> HIDE DEF r
  <1>2. \A i \in Signs(r): i + 1 \in Signs(q)
    <2> TAKE i \in Signs(r)
    <2>1. i \in DOMAIN r /\ r[i].type = "s"
      BY DEF Signs
    <2>2. i + 1 \in DOMAIN q /\ r[i] = q[i + 1]
      BY <1>1, <2>1
    <2> QED  BY <2>1, <2>2 DEF Signs
  <1>3. Fewer(q, r)
    BY <1>2 DEF Fewer
  <1> QED  BY <1>3 DEF r

-----------------------------------------------------------------------------
(* What the operators of the socket keep. *)

LEMMA StillSame ==
  ASSUME NEW e \in Engines, NEW f, f.name = e.name, f.down = e.down, f.facade = e.facade, f.up = e.up,
         f.rcv \in {e.rcv, "none"}, f.frame = "loading" => e.frame = "loading"
  PROVE  Still(e, f)
  <1>1. e.up \in Seq(ToFrame)
    BY DEF Engines
  <1>2. Fewer(e.up, f.up)
    BY <1>1, FewerSame
  <1> QED  BY <1>2 DEF Still

LEMMA EngineCloseStill ==
  ASSUME NEW e \in Engines
  PROVE  Still(e, EngineClose(e)) /\ Still(e, Finished(e))
  <1>1. LET f == EngineClose(e) IN
        /\ f.name = e.name /\ f.down = e.down /\ f.facade = e.facade /\ f.up = e.up
        /\ f.rcv \in {e.rcv, "none"} /\ f.frame = e.frame
    BY EngineCloseKeeps
  <1>2. LET f == Finished(e) IN
        /\ f.name = e.name /\ f.down = e.down /\ f.facade = e.facade /\ f.up = e.up
        /\ f.rcv \in {e.rcv, "none"} /\ f.frame = e.frame
    BY FinishedFields
  <1> QED  BY <1>1, <1>2, StillSame

LEMMA UpStill ==
  ASSUME NEW e \in Engines, NEW f, f.name = e.name, f.down = e.down, f.facade = e.facade, f.rcv = e.rcv,
         NEW d \in ToFrame, d.type # "s", f.up = Append(e.up, d), f.frame = "loading" => e.frame = "loading"
  PROVE  Still(e, f)
  <1>1. e.up \in Seq(ToFrame)
    BY DEF Engines
  <1>2. Fewer(e.up, f.up)
    BY <1>1, FewerMore
  <1> QED  BY <1>2 DEF Still

LEMMA TransportCloseStill ==
  ASSUME NEW e \in Engines
  PROVE  Still(e, TransportClose(e)) /\ ~TransportClose(e).ears
  <1> DEFINE f == TransportClose(e)
             c == EngineClose(e)
  <1>1. /\ ~f.ears /\ f.name = e.name /\ f.facade = e.facade /\ f.down = e.down
        /\ IF ~Framed(e.name) THEN f.rcv = c.rcv /\ f.frame = c.frame /\ f.up = c.up
           ELSE /\ f.rcv = e.rcv
                /\ IF e.frame \notin {"loading", "booted", "up"} THEN f.frame = e.frame /\ f.up = e.up
                   ELSE f.frame = "removing" /\ f.up = Append(e.up, [type |-> "c"])
    BY TransportCloseKeeps
  <1>2. c.rcv \in {e.rcv, "none"} /\ c.frame = e.frame /\ c.up = e.up
    BY EngineCloseKeeps
  <1> HIDE DEF f, c
  <1>3. CASE ~Framed(e.name)
    BY <1>1, <1>2, <1>3, StillSame DEF f
  <1>4. CASE Framed(e.name) /\ e.frame \notin {"loading", "booted", "up"}
    BY <1>1, <1>4, StillSame DEF f
  <1>5. CASE Framed(e.name) /\ e.frame \in {"loading", "booted", "up"}
    <2> DEFINE d == [type |-> "c"]
    <2>1. d \in ToFrame /\ d.type # "s"
      BY CloseMessage
    <2>2. f.rcv = e.rcv /\ f.frame = "removing" /\ f.up = Append(e.up, d)
      BY <1>1, <1>5
    <2> HIDE DEF d
    <2>3. Still(e, f)
      BY <1>1, <2>1, <2>2, UpStill
    <2> QED  BY <1>1, <2>3 DEF f
  <1> QED  BY <1>3, <1>4, <1>5

LEMMA TransportSendStill ==
  ASSUME NEW e \in Engines, NEW m \in Said
  PROVE  Still(e, TransportSend(e, m)) /\ TransportSend(e, m).ears = e.ears
  <1> DEFINE f == TransportSend(e, m)
             d == [type |-> "m", m |-> m]
  <1>1. /\ f.name = e.name /\ f.ears = e.ears /\ f.rcv = e.rcv /\ f.frame = e.frame /\ f.facade = e.facade /\ f.down = e.down
        /\ IF Framed(e.name) THEN f.up = Append(e.up, d) ELSE f.up = e.up
    BY SendKeeps
  <1>2. d \in ToFrame /\ d.type # "s"
    BY DEF ToFrame
  <1> HIDE DEF f, d
  <1>3. CASE ~Framed(e.name)
    BY <1>1, <1>3, StillSame DEF f
  <1>4. CASE Framed(e.name)
    <2>1. Still(e, f)
      BY <1>1, <1>2, <1>4, UpStill
    <2> QED  BY <1>1, <2>1 DEF f
  <1> QED  BY <1>3, <1>4

LEMMA TalkItself == \A s: SameTalk(s, s)
  BY DEF SameTalk

LEMMA SameStill == ASSUME NEW e \in Engines PROVE Still(e, e)
  BY StillSame

LEMMA CloseQuiet ==
  ASSUME NEW x \in Parts, x.sock.transport \/ ~x.tr.ears
  PROVE  Quiet(x, _close(x)) /\ ~_close(x).tr.ears
  <1> DEFINE y == _close(x)
  <1>1. /\ y.srv = x.srv /\ y.sock.transports = x.sock.transports /\ y.sock.events = x.sock.events
        /\ y.tr = IF x.sock.transport THEN TransportClose(x.tr) ELSE x.tr
    BY CloseKeeps, CloseFields
  <1>2. x.tr \in Engines
    BY Fields
  <1>3. Still(x.tr, y.tr) /\ ~y.tr.ears
    <2> HIDE DEF y
    <2>1. CASE x.sock.transport
      BY <1>1, <1>2, <2>1, TransportCloseStill
    <2>2. CASE ~x.sock.transport
      BY <1>1, <1>2, <2>2, SameStill
    <2> QED  BY <2>1, <2>2
  <1> HIDE DEF y
  <1>4. Quiet(x, y) /\ ~y.tr.ears
    BY <1>1, <1>3, TalkItself DEF Quiet
  <1> QED  BY <1>4 DEF y

LEMMA SameQuiet == ASSUME NEW x \in Parts PROVE Quiet(x, x)
  <1>1. Still(x.tr, x.tr)
    BY Fields, SameStill
  <1> QED  BY <1>1, TalkItself DEF Quiet

LEMMA SendQuiet ==
  ASSUME NEW x \in Parts
  PROVE  Quiet(x, send(x))
  <1> DEFINE y == send(x)
  <1>1. /\ y.srv = x.srv /\ y.sock.readyState = x.sock.readyState
        /\ y.sock.transports = x.sock.transports /\ y.sock.events = x.sock.events
        /\ y.tr = x.tr \/ (x.sock.said + 1 \in Said /\ y.tr = TransportSend(x.tr, x.sock.said + 1))
    BY SendFields
  <1>2. x.tr \in Engines
    BY Fields
  <1> HIDE DEF y
  <1>3. Still(x.tr, y.tr) /\ y.tr.ears = x.tr.ears
    <2>1. CASE y.tr = x.tr
      BY <1>2, <2>1, SameStill
    <2>2. CASE x.sock.said + 1 \in Said /\ y.tr = TransportSend(x.tr, x.sock.said + 1)
      BY <1>2, <2>2, TransportSendStill
    <2> QED  BY <1>1, <2>1, <2>2
  <1>4. Quiet(x, y)
    BY <1>1, <1>3, TalkItself DEF Quiet
  <1> QED  BY <1>4 DEF y

LEMMA HandlerQuiet ==
  ASSUME NEW x \in Parts, x.sock.transport \/ ~x.tr.ears, NEW does
  PROVE  Quiet(x, Handler(x, does)) /\ Quiet(x, close(x))
  <1>1. Quiet(x, close(x))
    BY CloseQuiet, SameQuiet DEF close
  <1>2. Handler(x, does) \in {send(x), close(x), x}
    BY DEF Handler
  <1> QED  BY <1>1, <1>2, SendQuiet, SameQuiet

LEMMA LetGoQuiet ==
  ASSUME NEW x \in Parts
  PROVE  Quiet(x, LetGo(x))
  <1> DEFINE y == LetGo(x)
  <1>1. /\ y.srv = x.srv /\ y.sock.readyState = x.sock.readyState
        /\ y.sock.transports = x.sock.transports /\ y.sock.events = x.sock.events
        /\ y.tr = IF x.sock.transport THEN [x.tr EXCEPT !.ears = FALSE] ELSE x.tr
    BY LetGoFields
  <1>2. x.tr \in Engines
    BY Fields
  <1>3. /\ y.tr.name = x.tr.name /\ y.tr.down = x.tr.down /\ y.tr.facade = x.tr.facade /\ y.tr.up = x.tr.up
        /\ y.tr.rcv = x.tr.rcv /\ y.tr.frame = x.tr.frame /\ (y.tr.ears => x.tr.ears)
    BY <1>1, <1>2 DEF Engines
  <1> HIDE DEF y
  <1>4. Still(x.tr, y.tr)
    BY <1>2, <1>3, StillSame
  <1>5. Quiet(x, y)
    BY <1>1, <1>3, <1>4, TalkItself DEF Quiet
  <1> QED  BY <1>5 DEF y

-----------------------------------------------------------------------------
(* The end of a transport. *)

LEMMA CloseTold ==
  ASSUME NEW x \in Parts, Told(x), x.sock.transport \/ ~x.tr.ears
  PROVE  Told(_close(x))
  BY CloseQuiet, CloseFields, QuietTold

LEMMA LetGoTold ==
  ASSUME NEW x \in Parts, Told(x)
  PROVE  Told(LetGo(x))
  BY LetGoQuiet, LetGoFields, QuietTold

LEMMA ListTyped == All \in Seq(TransportNames)
  BY FilterTyped DEF All

LEMMA NextTried ==
  ASSUME NEW x \in Parts, Listed(x), x.sock.transports # <<>>
  PROVE  LET q == x.sock.transports
             r == Tail(q)
             n == Len(All) - Len(r)
         IN  /\ n >= 0 /\ \A i \in DOMAIN r: r[i] = All[n + i]
             /\ TriedBy(q) \subseteq TriedBy(r) /\ Head(q) \in TriedBy(r)
  <1> DEFINE q == x.sock.transports
             r == Tail(q)
  <1>1. q \in Seq(TransportNames)
    BY Fields DEF Sockets
  <1>2. /\ Len(q) \in Nat /\ Len(q) # 0 /\ DOMAIN q = 1..Len(q) /\ Head(q) = q[1] /\ Len(r) = Len(q) - 1
        /\ DOMAIN r = 1..(Len(q) - 1) /\ \A i \in 1..(Len(q) - 1): r[i] = q[i + 1]
    BY <1>1, HeadTailProperties, LenProperties, EmptySeq
  <1>3. Len(All) \in Nat
    BY ListTyped, LenProperties
  <1>4. Len(All) - Len(q) >= 0 /\ \A i \in DOMAIN q: q[i] = All[(Len(All) - Len(q)) + i]
    BY DEF Listed
  <1> HIDE DEF q, r
  <1>5. PICK l, a \in Nat: l = Len(q) /\ a = Len(All)
    BY <1>2, <1>3
  <1>6. a - Len(r) = (a - l) + 1 /\ a - Len(r) >= 0 /\ a - l >= 0
    BY <1>2, <1>4, <1>5
  <1>7. \A i \in DOMAIN r: r[i] = All[(Len(All) - Len(r)) + i]
    <2> TAKE i \in DOMAIN r
    <2>1. i + 1 \in DOMAIN q /\ r[i] = q[i + 1]
      BY <1>2, <1>5
    <2>2. q[i + 1] = All[(a - l) + (i + 1)]
      BY <1>4, <1>5, <2>1
    <2>3. (a - l) + (i + 1) = (a - Len(r)) + i
      BY <1>2, <1>5, <1>6
    <2> QED  BY <1>5, <2>1, <2>2, <2>3
  <1>8. TriedBy(q) \subseteq TriedBy(r)
    <2>1. \A i \in 1..(a - l): i \in 1..(a - Len(r))
      BY <1>5, <1>6
    <2> QED  BY <1>5, <2>1 DEF TriedBy
  <1>9. Head(q) \in TriedBy(r)
    <2>1. 1 \in DOMAIN q /\ (a - l) + 1 \in 1..(a - Len(r))
      BY <1>2, <1>5, <1>6
    <2>2. Head(q) = All[(a - l) + 1]
      BY <1>2, <1>4, <1>5, <2>1
    <2> QED  BY <1>5, <2>1, <2>2 DEF TriedBy
  <1>10. Len(All) - Len(r) >= 0
    BY <1>5, <1>6
  <1> QED  BY <1>7, <1>8, <1>9, <1>10 DEF q, r

LEMMA NewSessionFields ==
  ASSUME NEW n
  PROVE  LET s == NewSession(n) IN s.state = "none" /\ s.queue = <<>> /\ s.wire = <<>> /\ s.sent = n /\ s.base = n
  BY DEF NewSession

\* Nothing comes in a new session, and everything the user has seen is older.
LEMMA NewHeard ==
  ASSUME NEW x \in Parts, Heard(x), NEW y \in Parts, y.sock.events = x.sock.events, y.tr.down = <<>>,
         y.srv = NewSession(x.srv.sent)
  PROVE  Heard(y)
  <1> DEFINE n == x.srv.sent
             ev == x.sock.events
             L == Line(y)
  <1>1. n \in Nat
    <2>1. n \in 0..MaxMessages
      BY Fields DEF Sessions
    <2> QED  BY <2>1, BoundsAssumption
  <1>2. y.srv.state = "none" /\ y.srv.queue = <<>> /\ y.srv.wire = <<>> /\ y.srv.sent = n /\ y.srv.base = n
    BY NewSessionFields
  <1>3. DOMAIN L = {}
    <2>1. PICK d, m \in Nat: /\ d = Len(y.tr.down) /\ m = (IF Fed(y.tr) THEN d + Len(y.srv.wire) ELSE d)
                             /\ DOMAIN L = 1..m
      BY LineTyped
    <2>2. m = 0
      BY <1>2, <2>1, EmptyTyped
    <2> QED  BY <2>1, <2>2
  <1>4. (\A i, j \in Tells(ev): i < j => ev[i][2] < ev[j][2]) /\ Seen(ev) \subseteq 1..n
    BY DEF Heard, Sorted
  <1> HIDE DEF L, n, ev
  <1>5. Within(<<>>) = {} /\ Ascending(<<>>)
    BY DEF Within, Ascending
  <1>6. Sorted(L, ev, y.srv)
    BY <1>1, <1>2, <1>3, <1>4, <1>5 DEF Sorted, Older
  <1>7. \A k \in (n + 1)..n: FALSE
    BY <1>1
  <1>8. Unbroken(ev, y.srv)
    <2>1. \A m \in Seen(ev): \A k \in (n + 1)..m: FALSE
      BY <1>1, <1>4
    <2> QED  BY <1>2, <2>1 DEF Unbroken
  <1>9. \A rs, e: Complete(L, ev, y.srv, rs, e)
    BY <1>2, <1>3, <1>7 DEF Complete, NoGap, OpenAhead, Joined
  <1> QED  BY <1>6, <1>8, <1>9 DEF Heard, L, ev

LEMMA NewFresh ==
  ASSUME NEW y \in Parts, NEW t \in TransportNames, y.tr = NewTransport(t), NEW n, y.srv = NewSession(n)
  PROVE  Fresh(y)
  <1>1. /\ y.srv.state = "none" /\ y.srv.wire = <<>> /\ y.srv.sent = y.srv.base
    BY NewSessionFields
  <1>2. /\ y.tr.up = <<>> /\ y.tr.down = <<>> /\ y.tr.facade = "none"
        /\ y.tr.rcv = (IF Framed(t) THEN "none" ELSE "scheduled") /\ y.tr.frame = (IF Framed(t) THEN "loading" ELSE "none")
    BY NewTidy
  <1>3. Signs(<<>>) = {}
    BY DEF Signs
  <1> QED  BY <1>1, <1>2, <1>3 DEF Fresh, Young

LEMMA ConnectTold ==
  ASSUME NEW x \in Parts, Told(x), x.sock.transport \/ ~x.tr.ears
  PROVE  Told(_connect(x))
  <1>1. CASE x.sock.transports = <<>>
    BY <1>1, CloseTold DEF _connect
  <1>2. CASE x.sock.transports # <<>>
    <2> DEFINE y == _connect(x)
               t == Head(x.sock.transports)
    <2>1. y \in Parts /\ y.srv = NewSession(x.srv.sent) /\ y.tr = NewTransport(t) /\ y.sock = Attempting(x.sock) /\ t \in TransportNames
      BY <1>2, ConnectFields
    <2>2. x.sock \in Sockets
      BY Fields
    <2>3. y.sock.transports = Tail(x.sock.transports) /\ y.sock.events = x.sock.events
      BY <1>2, <2>1, <2>2, AttemptingFields
    <2>4. y.tr.name = t /\ y.tr.down = <<>>
      BY <2>1, NewTidy
    <2> HIDE DEF y
    <2>5. Heard(y)
      BY <2>1, <2>3, <2>4, NewHeard DEF Told
    <2>6. Fresh(y)
      BY <2>1, NewFresh
    <2>7. /\ Len(All) - Len(y.sock.transports) >= 0
          /\ \A i \in DOMAIN y.sock.transports: y.sock.transports[i] = All[(Len(All) - Len(y.sock.transports)) + i]
          /\ TriedBy(x.sock.transports) \subseteq TriedBy(y.sock.transports) /\ t \in TriedBy(y.sock.transports)
      BY <1>2, <2>3, NextTried DEF Told
    <2>8. Listed(y)
      BY <2>4, <2>7 DEF Listed
    <2>9. OpenFirst(y)
      BY <2>3, <2>7 DEF Told, OpenFirst
    <2>10. Told(y)
      BY <2>5, <2>6, <2>8, <2>9 DEF Told
    <2> QED  BY <2>10 DEF y
  <1> QED  BY <1>1, <1>2

LEMMA TransportEndTold ==
  ASSUME NEW x \in Parts, Told(x), x.sock.transport \/ ~x.tr.ears, NEW code
  PROVE  Told(_transportClose(x, code))
  <1> DEFINE y == LetGo(x)
  <1>1. Told(y) /\ y \in Parts
    BY LetGoTold, LetGoFields
  <1>2. y.sock.transport \/ ~y.tr.ears
    <2>1. y.tr = (IF x.sock.transport THEN [x.tr EXCEPT !.ears = FALSE] ELSE x.tr) /\ (x.sock.transport => ~y.tr.ears)
      BY LetGoFields
    <2> QED  BY <2>1
  <1>3. _transportClose(x, code) \in {_connect(y), _close(y)}
    BY DEF _transportClose, LetGo
  <1> HIDE DEF y
  <1> QED  BY <1>1, <1>2, <1>3, ConnectTold, CloseTold

LEMMA ReceiveInfoTold ==
  ASSUME NEW x \in Parts, Phase(x), Told(x), x.sock.ir, NEW got
  PROVE  Told(_receiveInfo(x, got))
  <1> DEFINE i == Informed(x.sock)
             s == [i EXCEPT !.transports = All]
             y == [x EXCEPT !.sock = s]
             z == [x EXCEPT !.sock = i]
  <1>1. x.sock \in Sockets /\ x.tr \in Engines
    BY Fields
  <1>2. i \in Sockets /\ i.readyState = x.sock.readyState /\ i.transports = x.sock.transports /\ i.events = x.sock.events
    BY <1>1, InformedFields
  <1>3. s \in Sockets /\ s.readyState = i.readyState /\ s.events = i.events /\ s.transports = All
    <2> HIDE DEF i
    <2>1. All \in Seq(TransportNames)
      BY ListTyped
    <2> QED  BY <1>2, <2>1 DEF Sockets
  <1>4. z \in Parts /\ z.sock = i /\ z.tr = x.tr /\ z.srv = x.srv
    BY <1>2, WithSocket
  <1>5. y \in Parts /\ y.sock = s /\ y.tr = x.tr /\ y.srv = x.srv
    <2> HIDE DEF s
    <2> QED  BY <1>3, WithSocket
  <1>6. x.sock.events = <<>> /\ x.tr = NoTransport
    BY DEF Phase
  <1>7. ~x.tr.ears /\ x.tr.name = "none"
    BY <1>6, NoneFields
  <1>8. got => _receiveInfo(x, got) = _connect(y)
    BY DEF _receiveInfo, All
  <1>9. ~got => _receiveInfo(x, got) = _close(z)
    BY DEF _receiveInfo
  <1> HIDE DEF i, s, y, z
  <1>10. Told(z)
    <2>1. Quiet(x, z)
      BY <1>1, <1>2, <1>4, SameStill, TalkItself DEF Quiet
    <2> QED  BY <1>4, <2>1, QuietTold
  <1>11. Told(y)
    <2>1. Line(y) = Line(x)
      BY <1>5, LineSame
    <2>2. Cut(Line(x), Line(y))
      BY <2>1, CutSame
    <2>3. Hushed(x, y)
      BY <1>2, <1>3, <1>5, <1>7, <2>2, TalkItself DEF Hushed
    <2>4. Heard(y)
      BY <2>3, HushedHeard DEF Told
    <2>5. Fresh(y)
      BY <1>5 DEF Told, Fresh
    <2>6. Listed(y)
      <3>1. Len(All) \in Nat
        BY ListTyped, LenProperties
      <3>2. Len(All) - Len(All) = 0 /\ \A k \in DOMAIN All: 0 + k = k
        <4>1. \A k \in DOMAIN All: k \in Int
          BY ListTyped, LenProperties
        <4> QED  BY <3>1, <4>1
      <3>3. \A k \in DOMAIN All: All[k] = All[0 + k]
        BY <3>2
      <3> QED  BY <1>3, <1>5, <1>7, <3>2, <3>3 DEF Listed
    <2>7. OpenFirst(y)
      BY <1>2, <1>3, <1>5, <1>6 DEF OpenFirst
    <2> QED  BY <2>4, <2>5, <2>6, <2>7 DEF Told
  <1>12. got => Told(_connect(y))
    BY <1>5, <1>7, <1>11, ConnectTold
  <1>13. ~got => Told(_close(z))
    BY <1>4, <1>7, <1>10, CloseTold
  <1> QED  BY <1>8, <1>9, <1>12, <1>13

-----------------------------------------------------------------------------
(* A frame reaches the socket. *)

Hears(x, f, y) ==
    /\ y.sock.transports = x.sock.transports /\ y.srv = x.srv /\ Still(x.tr, y.tr)
    /\ y.tr.ears => x.tr.ears
    /\ \/ /\ y.sock.events = x.sock.events
          /\ y.tr.ears => y.sock.readyState = x.sock.readyState /\ Silent(f)
       \/ /\ f.type = "a" /\ Telling(x.sock.events, f.msgs, y.sock.events)
          /\ y.tr.ears => y.sock.readyState = x.sock.readyState
       \/ f.type = "o" /\ Opens(x, y)

LEMMA MessagesTelling ==
  ASSUME NEW q \in Seq(Events), NEW m \in Seq(Messages), m # <<>>,
         NEW e \in Events, IsMessage(e), e[2] = m[1],
         NEW r \in Seq(Events), Len(r) = Len(m) - 1, \A i \in 1..Len(r): IsMessage(r[i]) /\ r[i][2] = m[i + 1]
  PROVE  Telling(q, m, Append(q, e) \o r)
  <1> DEFINE p == Append(q, e)
             w == p \o r
  <1>1. /\ p \in Seq(Events) /\ Len(q) \in Nat /\ Len(p) = Len(q) + 1 /\ DOMAIN q = 1..Len(q)
        /\ DOMAIN p = 1..(Len(q) + 1) /\ \A i \in DOMAIN q: p[i] = q[i]
        /\ p[Len(q) + 1] = e
    BY AppendPlaces
  <1>p. p \in Seq(Events)
    BY <1>1
  <1> HIDE DEF p
  <1>2. /\ Len(p) \in Nat /\ Len(r) \in Nat /\ DOMAIN r = 1..Len(r) /\ DOMAIN w = 1..(Len(p) + Len(r))
        /\ \A i \in DOMAIN p: w[i] = p[i]
        /\ \A i \in DOMAIN w: i \notin DOMAIN p => i - Len(p) \in DOMAIN r /\ w[i] = r[i - Len(p)]
    <2>1. Len(p) \in Nat /\ Len(r) \in Nat /\ DOMAIN r = 1..Len(r) /\ DOMAIN p = 1..Len(p)
      BY <1>p, LenProperties
    <2>2. w \in Seq(Events) /\ Len(w) = Len(p) + Len(r) /\ DOMAIN w = 1..Len(w)
      BY <1>p, ConcatProperties, LenProperties
    <2>3. \A i \in 1..Len(w): w[i] = IF i <= Len(p) THEN p[i] ELSE r[i - Len(p)]
      BY <1>p, ConcatProperties
    <2> HIDE DEF w
    <2>4. \A i \in 1..Len(p): w[i] = p[i]
      BY <2>1, <2>2, <2>3
    <2>5. \A i \in 1..Len(w): i \notin 1..Len(p) => i - Len(p) \in 1..Len(r) /\ w[i] = r[i - Len(p)]
      BY <2>1, <2>2, <2>3
    <2> QED  BY <2>1, <2>2, <2>4, <2>5
  <1> HIDE DEF w
  <1>3. Len(m) \in Nat /\ DOMAIN m = 1..Len(m)
    BY LenProperties
  <1>4. PICK n, k \in Nat: n = Len(q) /\ k = Len(m)
    BY <1>1, <1>3
  <1>5. DOMAIN q = 1..n /\ DOMAIN m = 1..k /\ DOMAIN w = 1..(n + k) /\ Len(p) = n + 1 /\ Len(r) = k - 1
    <2>1. (n + 1) + (k - 1) = n + k
      BY <1>4
    <2> QED  BY <1>1, <1>2, <1>3, <1>4, <2>1
  <1>6. \A i \in 1..n: w[i] = q[i]
    <2> TAKE i \in 1..n
    <2>1. i \in DOMAIN q /\ i \in DOMAIN p
      BY <1>1, <1>4
    <2> QED  BY <1>1, <1>2, <2>1
  <1>7. ASSUME NEW i \in 1..k PROVE IsMessage(w[n + i]) /\ w[n + i][2] = m[i]
    <2>1. CASE i = 1
      <3>1. n + 1 \in DOMAIN p /\ n + i = n + 1
        BY <1>1, <1>4, <2>1
      <3>2. w[n + i] = e
        BY <1>1, <1>2, <1>4, <3>1
      <3> QED  BY <2>1, <3>2
    <2>2. CASE i # 1
      <3>1. n + i \in DOMAIN w /\ n + i \notin DOMAIN p /\ (n + i) - (n + 1) = i - 1 /\ i - 1 \in 1..(k - 1) /\ (i - 1) + 1 = i
        BY <1>1, <1>4, <1>5, <2>2
      <3>2. w[n + i] = r[i - 1]
        BY <1>2, <1>5, <3>1
      <3>3. IsMessage(r[i - 1]) /\ r[i - 1][2] = m[i]
        BY <1>5, <3>1
      <3> QED  BY <3>2, <3>3
    <2> QED  BY <2>1, <2>2
  <1>8. Telling(q, m, w)
    BY <1>5, <1>6, <1>7 DEF Telling
  <1> QED  BY <1>8 DEF w, p

LEMMA ClosedHears ==
  ASSUME NEW x \in Parts, Phase(x), NEW f
  PROVE  Hears(x, f, _close(x))
  <1>1. x.sock.transport \/ ~x.tr.ears
    BY DEF Phase
  <1>2. Quiet(x, _close(x)) /\ ~_close(x).tr.ears /\ _close(x).srv = x.srv
    BY <1>1, CloseQuiet, CloseFields
  <1> QED  BY <1>2 DEF Hears, Quiet

LEMMA AllToldHears ==
  ASSUME NEW x \in Parts, Phase(x), x.sock.transport, NEW f, f.type = "a", f.msgs \in Seq(Messages), f.msgs # <<>>, NEW does
  PROVE  Hears(x, f, dispatchAll(x, f.msgs, does))
  <1> DEFINE msgs == f.msgs
             rest == [i \in 1..Len(msgs) - 1 |-> <<"message", msgs[i + 1]>>]
             e == <<"message", Head(msgs)>>
  <1>1. PICK y \in Parts, z \in Parts, w \in Parts: AllTold(x, msgs, does, y, z, w)
    BY AllToldStep
  <1>2. w = dispatchAll(x, msgs, does)
    BY <1>1 DEF AllTold
  <1>3. /\ y.tr = x.tr /\ y.srv = x.srv /\ y.sock.readyState = x.sock.readyState /\ y.sock.transports = x.sock.transports
        /\ y.sock.events = Append(x.sock.events, e) /\ Phase(y) /\ z = Handler(y, does)
    BY <1>1 DEF AllTold
  <1>4. /\ w.tr = z.tr /\ w.srv = z.srv /\ w.sock.readyState = z.sock.readyState
        /\ w.sock.transports = z.sock.transports /\ w.sock.events = z.sock.events \o rest
    BY <1>1 DEF AllTold
  <1>5. /\ rest \in Seq(Events) /\ Len(rest) = Len(msgs) - 1
        /\ \A i \in 1..Len(rest): IsMessage(rest[i]) /\ rest[i][2] = msgs[i + 1]
        /\ Head(msgs) = msgs[1] /\ Head(msgs) \in Messages
    BY AllToldFields
  <1>6. e \in Events /\ IsMessage(e) /\ e[2] = msgs[1]
    BY <1>5, MessageMade
  <1>7. x.sock.events \in Seq(Events)
    BY Fields DEF Sockets
  <1> HIDE DEF rest, e
  <1>8. y.sock.transport \/ ~y.tr.ears
    BY <1>3 DEF Phase
  <1>9. Quiet(y, z)
    BY <1>3, <1>8, HandlerQuiet
  <1>10. z.srv = y.srv
    BY <1>3, HandlerKeeps
  <1>11. w.sock.events = Append(x.sock.events, e) \o rest
    BY <1>3, <1>4, <1>9 DEF Quiet
  <1>12. Telling(x.sock.events, msgs, w.sock.events)
    BY <1>5, <1>6, <1>7, <1>11, MessagesTelling
  <1>13. Still(x.tr, w.tr) /\ (w.tr.ears => x.tr.ears /\ w.sock.readyState = x.sock.readyState)
    BY <1>3, <1>4, <1>9 DEF Quiet
  <1>14. w.srv = x.srv /\ w.sock.transports = x.sock.transports
    BY <1>3, <1>4, <1>9, <1>10 DEF Quiet
  <1>15. Hears(x, f, w)
    BY <1>12, <1>13, <1>14 DEF Hears
  <1> QED  BY <1>2, <1>15

LEMMA OpenHears ==
  ASSUME NEW x \in Parts, Phase(x), x.sock.transport, NEW f, f.type = "o", NEW does
  PROVE  Hears(x, f, _open(x, does))
  <1>1. CASE x.sock.readyState # CONNECTING
    <2>1. _open(x, does) = _close(x)
      BY <1>1 DEF _open
    <2> QED  BY <2>1, ClosedHears
  <1>2. CASE x.sock.readyState = CONNECTING
    <2>1. PICK z \in Parts: /\ _open(x, does) = Handler(z, does)
                            /\ z.tr = x.tr /\ z.srv = x.srv /\ z.sock.readyState = OPEN
                            /\ z.sock.transports = x.sock.transports
                            /\ z.sock.events = Append(x.sock.events, <<"open">>) /\ Phase(z)
      BY <1>2, OpenStep
    <2> DEFINE y == Handler(z, does)
    <2>2. z.sock.transport \/ ~z.tr.ears
      BY <2>1 DEF Phase
    <2>3. Quiet(z, y) /\ y.srv = z.srv
      BY <2>2, HandlerQuiet, HandlerKeeps
    <2> HIDE DEF y
    <2>4. Still(x.tr, y.tr) /\ y.srv = x.srv /\ y.sock.transports = x.sock.transports /\ (y.tr.ears => x.tr.ears)
      BY <2>1, <2>3 DEF Quiet
    <2>5. Opens(x, y)
      BY <1>2, <2>1, <2>3 DEF Quiet, Opens
    <2>6. Hears(x, f, y)
      BY <2>4, <2>5 DEF Hears
    <2> QED  BY <2>1, <2>6 DEF y
  <1> QED  BY <1>1, <1>2

LEMMA MessageHears ==
  ASSUME NEW x \in Parts, Phase(x), x.sock.transport, NEW frame \in Frames, NEW does
  PROVE  Hears(x, frame, _transportMessage(x, frame, does))
  <1>1. frame.type \in {"o", "h", "a", "c"} /\ (frame.type = "a" => frame.msgs \in Seq(Messages) /\ frame.msgs # <<>>)
    BY FrameKinds
  <1>2. CASE frame.type = "o"
    <2>1. _transportMessage(x, frame, does) = _open(x, does)
      BY <1>2 DEF _transportMessage
    <2> QED  BY <1>2, <2>1, OpenHears
  <1>3. CASE frame.type = "h"
    <2>1. _transportMessage(x, frame, does) = x
      BY <1>3 DEF _transportMessage
    <2>2. Still(x.tr, x.tr)
      BY SameQuiet DEF Quiet
    <2>3. Hears(x, frame, x)
      BY <1>3, <2>2 DEF Hears, Silent
    <2> QED  BY <2>1, <2>3
  <1>4. CASE frame.type = "a"
    <2>1. _transportMessage(x, frame, does) = dispatchAll(x, frame.msgs, does)
      BY <1>4 DEF _transportMessage
    <2> QED  BY <1>1, <1>4, <2>1, AllToldHears
  <1>5. CASE frame.type = "c"
    <2>1. _transportMessage(x, frame, does) = _close(x)
      BY <1>5 DEF _transportMessage
    <2> QED  BY <2>1, ClosedHears
  <1> QED  BY <1>1, <1>2, <1>3, <1>4, <1>5

-----------------------------------------------------------------------------
(* How the line moves on. *)

Spanned(x, d, n) ==
    /\ d = Len(x.tr.down) /\ DOMAIN Line(x) = 1..n
    /\ Fed(x.tr) => n = d + Len(x.srv.wire)
    /\ ~Fed(x.tr) => n = d
    /\ \A p \in 1..n: p <= d => Line(x)[p] = Shown(x.tr.down[p])
    /\ \A p \in 1..n: ~(p <= d) => Line(x)[p] = x.srv.wire[p - d]

LEMMA Spans == ASSUME NEW x \in Parts PROVE \E d, n \in Nat: Spanned(x, d, n)
  <1>1. PICK d, n \in Nat: /\ d = Len(x.tr.down) /\ d <= n
                           /\ n = IF Fed(x.tr) THEN d + Len(x.srv.wire) ELSE d
                           /\ DOMAIN Line(x) = 1..n
                           /\ \A p \in 1..n: /\ Line(x)[p] = IF p <= d THEN Shown(x.tr.down[p]) ELSE x.srv.wire[p - d]
                                             /\ Line(x)[p] \in OnWire
                                             /\ p <= d => p \in DOMAIN x.tr.down
                                             /\ p > d => p - d \in DOMAIN x.srv.wire
    BY LineTyped
  <1>2. Spanned(x, d, n)
    BY <1>1 DEF Spanned
  <1> QED  BY <1>2

\* The first frame of the wire is taken.
LEMMA WireLine ==
  ASSUME NEW x \in Parts, NEW z \in Parts, Fed(x.tr), x.tr.down = <<>>, x.srv.wire # <<>>, z.tr = x.tr,
         z.srv.wire = Tail(x.srv.wire)
  PROVE  Rest1(Line(x), Line(z)) /\ Line(x)[1] = Head(x.srv.wire)
  <1>1. PICK d, n \in Nat: Spanned(x, d, n)
    BY Spans
  <1>2. PICK e, m \in Nat: Spanned(z, e, m)
    BY Spans
  <1> USE DEF Spanned
  <1>3. d = 0 /\ e = 0
    BY <1>1, <1>2, EmptyTyped
  <1>4. x.srv.wire \in Seq(OnWire)
    BY Fields DEF Sessions
  <1> DEFINE w == x.srv.wire
             v == z.srv.wire
  <1>5. /\ Len(w) \in Nat /\ Len(w) # 0 /\ Head(w) = w[1] /\ Len(v) = Len(w) - 1
        /\ \A p \in 1..(Len(w) - 1): v[p] = w[p + 1]
    BY <1>4, HeadTailProperties, LenProperties, EmptySeq
  <1> HIDE DEF w, v
  <1>6. n = Len(w) /\ m = Len(v) /\ n = m + 1
    BY <1>1, <1>2, <1>3, <1>5 DEF w, v
  <1>7. \A p \in 1..n: Line(x)[p] = w[p]
    <2> TAKE p \in 1..n
    <2>1. ~(p <= d) /\ p - d = p
      BY <1>3
    <2> QED  BY <1>1, <2>1 DEF w
  <1>8. \A p \in 1..m: Line(z)[p] = v[p]
    <2> TAKE p \in 1..m
    <2>1. ~(p <= e) /\ p - e = p
      BY <1>3
    <2> QED  BY <1>2, <2>1 DEF v
  <1>9. \A p \in 1..m: Line(z)[p] = Line(x)[p + 1]
    <2> TAKE p \in 1..m
    <2>1. p + 1 \in 1..n /\ p \in 1..(Len(w) - 1)
      BY <1>5, <1>6
    <2> QED  BY <1>5, <1>7, <1>8, <2>1
  <1>10. 1 \in 1..n /\ Line(x)[1] = Head(w)
    BY <1>5, <1>6, <1>7
  <1> QED  BY <1>1, <1>2, <1>6, <1>9, <1>10 DEF Rest1, w

\* The first thing that was posted to the page is taken.
LEMMA PageLine ==
  ASSUME NEW x \in Parts, NEW z \in Parts, x.tr.down # <<>>, z.tr.down = Tail(x.tr.down),
         Fed(z.tr) = Fed(x.tr), z.srv.wire = x.srv.wire
  PROVE  Rest1(Line(x), Line(z)) /\ Line(x)[1] = Shown(Head(x.tr.down))
  <1>1. PICK d, n \in Nat: Spanned(x, d, n)
    BY Spans
  <1>2. PICK e, m \in Nat: Spanned(z, e, m)
    BY Spans
  <1> USE DEF Spanned
  <1>3. x.tr.down \in Seq(ToPage) /\ Len(x.srv.wire) \in Nat
    BY Fields, LenProperties DEF Sessions, Engines
  <1> DEFINE q == x.tr.down
             r == z.tr.down
  <1>4. /\ Len(q) \in Nat /\ Len(q) # 0 /\ Head(q) = q[1] /\ Len(r) = Len(q) - 1
        /\ \A p \in 1..(Len(q) - 1): r[p] = q[p + 1]
    BY <1>3, HeadTailProperties, LenProperties, EmptySeq
  <1> HIDE DEF q, r
  <1>5. d = Len(q) /\ e = d - 1
    BY <1>1, <1>2, <1>4 DEF q, r
  <1>6. n = m + 1
    <2>1. CASE Fed(x.tr)
      <3>1. n = d + Len(x.srv.wire) /\ m = e + Len(x.srv.wire)
        BY <1>1, <1>2, <2>1
      <3> QED  BY <1>3, <1>5, <3>1
    <2>2. CASE ~Fed(x.tr)
      <3>1. n = d /\ m = e
        BY <1>1, <1>2, <2>2
      <3> QED  BY <1>5, <3>1
    <2> QED  BY <2>1, <2>2
  <1>7. \A p \in 1..m: Line(z)[p] = Line(x)[p + 1]
    <2> TAKE p \in 1..m
    <2>1. p + 1 \in 1..n
      BY <1>6
    <2>2. CASE p <= e
      <3>1. p + 1 <= d /\ p \in 1..(Len(q) - 1)
        BY <1>5, <2>2
      <3>2. Line(z)[p] = Shown(r[p]) /\ Line(x)[p + 1] = Shown(q[p + 1])
        BY <1>1, <1>2, <2>1, <2>2, <3>1 DEF q, r
      <3> QED  BY <1>4, <3>1, <3>2
    <2>3. CASE ~(p <= e)
      <3>1. ~(p + 1 <= d) /\ (p + 1) - d = p - e
        BY <1>5, <2>3
      <3> QED  BY <1>1, <1>2, <2>1, <2>3, <3>1
    <2> QED  BY <2>2, <2>3
  <1>8. 1 \in 1..n /\ 1 <= d
    BY <1>1, <1>4, <1>5
  <1>9. Line(x)[1] = Shown(Head(q))
    BY <1>1, <1>4, <1>8 DEF q
  <1> QED  BY <1>1, <1>2, <1>6, <1>7, <1>9 DEF Rest1, q

\* Something is posted behind everything that comes.
LEMMA PostLine ==
  ASSUME NEW x \in Parts, NEW z \in Parts, NEW f \in ToPage, z.tr.down = Append(x.tr.down, f),
         Fed(z.tr) = Fed(x.tr), z.srv.wire = x.srv.wire, x.srv.wire = <<>> \/ ~Fed(x.tr)
  PROVE  More1(Line(x), Line(z), Shown(f))
  <1>1. PICK d, n \in Nat: Spanned(x, d, n)
    BY Spans
  <1>2. PICK e, m \in Nat: Spanned(z, e, m)
    BY Spans
  <1> USE DEF Spanned
  <1>3. x.tr.down \in Seq(ToPage)
    BY Fields DEF Engines
  <1> DEFINE q == x.tr.down
             r == z.tr.down
  <1>4. /\ Len(q) \in Nat /\ Len(r) = Len(q) + 1 /\ DOMAIN q = 1..Len(q)
        /\ \A p \in DOMAIN q: r[p] = q[p]
        /\ r[Len(q) + 1] = f
    BY <1>3, AppendPlaces
  <1> HIDE DEF q, r
  <1>5. n = d /\ m = e
    <2>1. CASE Fed(x.tr)
      <3>1. Len(x.srv.wire) = 0
        BY <2>1, EmptyTyped
      <3> QED  BY <1>1, <1>2, <2>1, <3>1
    <2>2. CASE ~Fed(x.tr)
      BY <1>1, <1>2, <2>2
    <2> QED  BY <2>1, <2>2
  <1>6. d = Len(q) /\ m = n + 1
    BY <1>1, <1>2, <1>4, <1>5 DEF q, r
  <1>7. \A p \in 1..n: Line(z)[p] = Line(x)[p]
    <2> TAKE p \in 1..n
    <2>1. p \in DOMAIN q /\ p \in 1..m /\ p <= d /\ p <= e
      BY <1>4, <1>5, <1>6
    <2>2. Line(z)[p] = Shown(r[p]) /\ Line(x)[p] = Shown(q[p])
      BY <1>1, <1>2, <2>1 DEF q, r
    <2> QED  BY <1>4, <2>1, <2>2
  <1>8. Line(z)[n + 1] = Shown(f)
    <2>1. n + 1 \in 1..m /\ n + 1 <= e
      BY <1>5, <1>6
    <2>2. Line(z)[n + 1] = Shown(r[n + 1])
      BY <1>2, <2>1 DEF r
    <2> QED  BY <1>4, <1>5, <1>6, <2>2
  <1> QED  BY <1>1, <1>2, <1>6, <1>7, <1>8 DEF More1

\* The server writes a frame.
LEMMA WroteLine ==
  ASSUME NEW x \in Parts, NEW z \in Parts, NEW f \in OnWire, z.tr = x.tr, Fed(x.tr), z.srv.wire = Append(x.srv.wire, f)
  PROVE  More1(Line(x), Line(z), f)
  <1>1. PICK d, n \in Nat: Spanned(x, d, n)
    BY Spans
  <1>2. PICK e, m \in Nat: Spanned(z, e, m)
    BY Spans
  <1> USE DEF Spanned
  <1>3. x.srv.wire \in Seq(OnWire)
    BY Fields DEF Sessions
  <1> DEFINE w == x.srv.wire
             v == z.srv.wire
  <1>4. /\ Len(w) \in Nat /\ Len(v) = Len(w) + 1 /\ DOMAIN w = 1..Len(w)
        /\ \A p \in DOMAIN w: v[p] = w[p]
        /\ v[Len(w) + 1] = f
    BY <1>3, AppendPlaces
  <1> HIDE DEF w, v
  <1>5. d = e /\ n = d + Len(w) /\ m = n + 1
    <2>1. d = e /\ n = d + Len(w) /\ m = e + Len(v)
      BY <1>1, <1>2 DEF w, v
    <2> QED  BY <1>4, <2>1
  <1>6. \A p \in 1..n: Line(z)[p] = Line(x)[p]
    <2> TAKE p \in 1..n
    <2>1. p \in 1..m
      BY <1>5
    <2>2. CASE p <= d
      BY <1>1, <1>2, <1>5, <2>1, <2>2
    <2>3. CASE ~(p <= d)
      <3>1. p - d \in DOMAIN w
        BY <1>4, <1>5, <2>3
      <3>2. Line(z)[p] = v[p - d] /\ Line(x)[p] = w[p - d]
        BY <1>1, <1>2, <1>5, <2>1, <2>3 DEF w, v
      <3> QED  BY <1>4, <3>1, <3>2
    <2> QED  BY <2>2, <2>3
  <1>7. Line(z)[n + 1] = f
    <2>1. n + 1 \in 1..m /\ ~(n + 1 <= e) /\ (n + 1) - e = Len(w) + 1
      BY <1>4, <1>5
    <2>2. Line(z)[n + 1] = v[(n + 1) - e]
      BY <1>2, <2>1 DEF v
    <2> QED  BY <1>4, <2>1, <2>2
  <1> QED  BY <1>1, <1>2, <1>5, <1>6, <1>7 DEF More1

\* A frame goes from the wire to the page.
LEMMA MovedLine ==
  ASSUME NEW x \in Parts, NEW z \in Parts, NEW f \in ToPage, Fed(x.tr), Fed(z.tr), x.srv.wire # <<>>,
         z.tr.down = Append(x.tr.down, f), z.srv.wire = Tail(x.srv.wire), Shown(f) = Head(x.srv.wire)
  PROVE  Cut(Line(x), Line(z)) /\ DOMAIN Line(z) = DOMAIN Line(x)
  <1>1. PICK d, n \in Nat: Spanned(x, d, n)
    BY Spans
  <1>2. PICK e, m \in Nat: Spanned(z, e, m)
    BY Spans
  <1> USE DEF Spanned
  <1>3. x.srv.wire \in Seq(OnWire) /\ x.tr.down \in Seq(ToPage)
    BY Fields DEF Sessions, Engines
  <1> DEFINE w == x.srv.wire
             v == z.srv.wire
             q == x.tr.down
             r == z.tr.down
  <1>4. /\ Len(w) \in Nat /\ Len(w) # 0 /\ Head(w) = w[1] /\ Len(v) = Len(w) - 1
        /\ \A p \in 1..(Len(w) - 1): v[p] = w[p + 1]
    BY <1>3, HeadTailProperties, LenProperties, EmptySeq
  <1>5. /\ Len(q) \in Nat /\ Len(r) = Len(q) + 1 /\ DOMAIN q = 1..Len(q)
        /\ \A p \in DOMAIN q: r[p] = q[p]
        /\ r[Len(q) + 1] = f
    BY <1>3, AppendPlaces
  <1> HIDE DEF w, v, q, r
  <1>6. d = Len(q) /\ e = d + 1 /\ n = d + Len(w) /\ m = n
    <2>1. d = Len(q) /\ e = Len(r) /\ n = d + Len(w) /\ m = e + Len(v)
      BY <1>1, <1>2 DEF w, v, q, r
    <2> QED  BY <1>4, <1>5, <2>1
  <1>7. ASSUME NEW p \in 1..n PROVE Line(z)[p] = Line(x)[p]
    <2>1. CASE p <= d
      <3>1. p \in DOMAIN q /\ p <= e
        BY <1>5, <1>6, <2>1
      <3>2. Line(z)[p] = Shown(r[p]) /\ Line(x)[p] = Shown(q[p])
        BY <1>1, <1>2, <1>6, <2>1, <3>1 DEF q, r
      <3> QED  BY <1>5, <3>1, <3>2
    <2>2. CASE p = e
      <3>1. ~(p <= d) /\ p <= e /\ p - d = 1 /\ p = Len(q) + 1
        BY <1>6, <2>2
      <3>2. Line(z)[p] = Shown(r[p]) /\ Line(x)[p] = w[1]
        BY <1>1, <1>2, <1>6, <3>1 DEF w, r
      <3> QED  BY <1>4, <1>5, <3>1, <3>2 DEF w
    <2>3. CASE ~(p <= d) /\ p # e
      <3>1. ~(p <= e) /\ p - e \in 1..(Len(w) - 1) /\ (p - e) + 1 = p - d
        BY <1>4, <1>6, <2>3
      <3>2. Line(z)[p] = v[p - e] /\ Line(x)[p] = w[p - d]
        BY <1>1, <1>2, <1>6, <2>3, <3>1 DEF w, v
      <3> QED  BY <1>4, <3>1, <3>2
    <2> QED  BY <2>1, <2>2, <2>3
  <1> QED  BY <1>1, <1>2, <1>6, <1>7 DEF Cut

-----------------------------------------------------------------------------
(* What the frames tell. *)

\* z is x without the first frame of its line, which y has heard.
LEMMA FrameTold ==
  ASSUME NEW x \in Parts, NEW z \in Parts, NEW y \in Parts, Told(x), Phase(x), x.tr.name # "none",
         z.sock = x.sock, z.tr.name = x.tr.name, z.tr.ears = x.tr.ears, z.tr.facade = x.tr.facade,
         z.tr.rcv = x.tr.rcv, z.tr.frame = x.tr.frame, z.tr.up = x.tr.up, Fewer(x.tr.down, z.tr.down),
         SameTalk(x.srv, z.srv), x.srv.wire = <<>> => z.srv.wire = <<>>,
         Rest1(Line(x), Line(z)), Hears(z, Line(x)[1], y), x.tr.ears \/ (y.sock.events = x.sock.events /\ ~y.tr.ears)
  PROVE  Told(y)
  <1>1. /\ y.sock.transports = z.sock.transports /\ y.srv = z.srv /\ Still(z.tr, y.tr)
        /\ y.tr.ears => z.tr.ears
    BY DEF Hears
  <1>2. Fed(y.tr) = Fed(z.tr) /\ Fed(z.tr) = Fed(x.tr)
    BY <1>1 DEF Still, Fed
  <1>3. Line(y) = Line(z)
    BY <1>1, <1>2, LineSame DEF Still
  <1>4. Alive(y.tr) => Alive(x.tr)
    BY <1>1, <1>2 DEF Still, Alive
  <1>5. Fewer(x.tr.down, y.tr.down)
    BY <1>1 DEF Still
  <1>6. Calmer(x, y)
    BY <1>1, <1>5 DEF Calmer, Still, SameTalk
  <1>7. y.tr.name = x.tr.name /\ SameTalk(x.srv, y.srv) /\ (y.tr.ears => x.tr.ears)
    BY <1>1 DEF Still
  <1> DEFINE f == Line(x)[1]
  <1>8. \/ /\ y.sock.events = x.sock.events
           /\ y.tr.ears => y.sock.readyState = x.sock.readyState /\ Silent(f)
        \/ /\ f.type = "a" /\ x.tr.ears /\ Telling(x.sock.events, f.msgs, y.sock.events)
           /\ y.tr.ears => y.sock.readyState = x.sock.readyState
        \/ f.type = "o" /\ x.tr.ears /\ Opens(x, y)
    <2>1. CASE x.tr.ears
      BY <2>1 DEF Hears, Opens
    <2>2. CASE y.sock.events = x.sock.events /\ ~y.tr.ears
      BY <2>2
    <2> QED  BY <2>1, <2>2
  <1> HIDE DEF f
  <1>9. Rest1(Line(x), Line(y))
    BY <1>3
  <1>10. Taking(x, y)
    BY <1>4, <1>7, <1>8, <1>9 DEF Taking, f
  <1>11. y.sock.transports = x.sock.transports
    BY <1>1
  <1> QED  BY <1>6, <1>10, <1>11, TakingTold

LEMMA EmitTold ==
  ASSUME NEW x \in Parts, Phase(x), Calm(x), Told(x), x.tr.name # "none", Arriving(x), NEW does
  PROVE  Told(Take(x, does))
  <1>1. PICK z \in Parts: z = Taken(x)
    BY TakenFields DEF Arriving
  <1>2. /\ z.sock = x.sock /\ z.tr = x.tr /\ z.srv.wire = Tail(x.srv.wire) /\ SameTalk(x.srv, z.srv)
        /\ x.srv.wire # <<>>
    BY <1>1, TakenFields DEF Arriving, SameTalk
  <1>3. PICK f \in Frames: f = Head(x.srv.wire)
    BY DEF Arriving
  <1>4. PICK y \in Parts: y = Take(x, does)
    BY TakeFields
  <1>5. y = EmitMessage(z, f, does)
    BY <1>1, <1>3, <1>4, TakeFields
  <1> SUFFICES Told(y)
    BY <1>4
  <1>6. Phase(z)
    BY <1>2 DEF Phase
  <1>7. x.tr \in Engines /\ z.tr \in Engines /\ x.tr.down \in Seq(ToPage) /\ x.tr.up \in Seq(ToFrame)
    BY <1>2, Fields DEF Engines
  <1> DEFINE d == [type |-> "t", frame |-> f]
  <1>8. /\ \/ Framed(z.tr.name) /\ z.tr.facade = "hears" /\ y = [z EXCEPT !.tr = postMessage(z.tr, d)]
           \/ ~Framed(z.tr.name) /\ z.tr.ears /\ y = _transportMessage(z, f, does)
           \/ y = z /\ (Framed(z.tr.name) => z.tr.facade # "hears") /\ (~Framed(z.tr.name) => ~z.tr.ears)
        /\ d \in ToPage
    BY <1>5, EmitsMessage
  <1>9. Shown(d) = f /\ d.type = "t"
    BY DEF Shown
  <1> HIDE DEF d
  <1>10. Fewer(x.tr.down, x.tr.down) /\ Fewer(x.tr.up, x.tr.up)
    BY <1>7, FewerSame
  <1>11. ~Framed(x.tr.name) => Fed(x.tr) /\ x.tr.down = <<>>
    BY DEF Calm, Tidy, Fed
  <1>12. ~Framed(x.tr.name) => Rest1(Line(x), Line(z)) /\ Line(x)[1] = f
    BY <1>2, <1>3, <1>11, WireLine
  <1>13. ASSUME ~Framed(x.tr.name), Hears(z, f, y), x.tr.ears \/ (y.sock.events = x.sock.events /\ ~y.tr.ears)
         PROVE  Told(y)
    BY <1>2, <1>10, <1>12, <1>13, FrameTold
  <1>14. CASE ~Framed(z.tr.name) /\ z.tr.ears /\ y = _transportMessage(z, f, does)
    <2>1. z.sock.transport
      BY <1>6, <1>14 DEF Phase
    <2>2. Hears(z, f, y)
      BY <1>6, <1>14, <2>1, MessageHears
    <2> QED  BY <1>2, <1>13, <1>14, <2>2
  <1>15. CASE Framed(z.tr.name) /\ z.tr.facade = "hears" /\ y = [z EXCEPT !.tr = postMessage(z.tr, d)]
    <2>1. /\ postMessage(z.tr, d) \in Engines
          /\ LET e == postMessage(z.tr, d) IN
             /\ e.down = Append(z.tr.down, d) /\ e.name = z.tr.name /\ e.ears = z.tr.ears /\ e.rcv = z.tr.rcv
             /\ e.frame = z.tr.frame /\ e.facade = z.tr.facade /\ e.up = z.tr.up
      BY <1>7, <1>8, PostedTyped
    <2>2. y.tr = postMessage(z.tr, d) /\ y.sock = z.sock /\ y.srv = z.srv
      BY <1>15, <2>1, WithTransport
    <2>3. /\ y.tr.down = Append(x.tr.down, d) /\ y.tr.name = x.tr.name /\ y.tr.ears = x.tr.ears /\ y.tr.rcv = x.tr.rcv
          /\ y.tr.frame = x.tr.frame /\ y.tr.facade = x.tr.facade /\ y.tr.up = x.tr.up
          /\ y.sock = x.sock /\ SameTalk(x.srv, y.srv) /\ y.srv.wire = Tail(x.srv.wire)
      BY <1>2, <2>1, <2>2
    <2>4. Fed(x.tr) /\ Fed(y.tr)
      BY <1>2, <1>15, <2>3 DEF Fed
    <2>5. Cut(Line(x), Line(y)) /\ DOMAIN Line(y) = DOMAIN Line(x)
      BY <1>2, <1>3, <1>8, <1>9, <2>3, <2>4, MovedLine
    <2>6. Hushed(x, y)
      BY <2>3, <2>4, <2>5 DEF Hushed, Alive
    <2>7. Fewer(x.tr.down, y.tr.down) /\ Fewer(x.tr.up, y.tr.up)
      BY <1>7, <1>8, <1>9, <1>10, <2>3, FewerMore
    <2>8. Calmer(x, y)
      BY <1>2, <2>3, <2>7 DEF Calmer, SameTalk
    <2> QED  BY <2>3, <2>6, <2>8, HushedTold
  <1>16. CASE y = z /\ ~Framed(z.tr.name) /\ ~z.tr.ears
    <2>1. Still(z.tr, z.tr)
      BY <1>7, SameStill
    <2>2. Hears(z, f, y)
      BY <1>16, <2>1 DEF Hears
    <2> QED  BY <1>2, <1>13, <1>16, <2>2
  <1>17. CASE y = z /\ Framed(z.tr.name) /\ z.tr.facade # "hears"
    <2>1. ~Fed(x.tr) /\ ~Fed(y.tr)
      BY <1>2, <1>17 DEF Fed
    <2>2. Cut(Line(x), Line(y))
      BY <1>2, <1>17, <2>1, LineCut
    <2>3. Hushed(x, y)
      BY <1>2, <1>17, <2>1, <2>2 DEF Hushed, Alive
    <2>4. Calmer(x, y)
      BY <1>2, <1>10, <1>17 DEF Calmer, SameTalk
    <2> QED  BY <1>2, <1>17, <2>3, <2>4, HushedTold
  <1> QED  BY <1>8, <1>14, <1>15, <1>16, <1>17

LEMMA ReceiveTold ==
  ASSUME NEW x \in Parts, Phase(x), Calm(x), Told(x), x.tr.name # "none", NEW n \in 0..Len(x.srv.wire), NEW does,
         \A i \in 1..n: x.srv.wire[i].type # "end"
  PROVE  LET y == Receive(x, n, does) IN
         /\ y \in Parts /\ Phase(y) /\ Calm(y) /\ Told(y) /\ y.tr.name = x.tr.name /\ Behind(x, n, y)
  <1>1. PICK I \in SUBSET Parts: I = {y \in Parts: Phase(y) /\ Calm(y) /\ Told(y) /\ y.tr.name = x.tr.name}
    OBVIOUS
  <1>2. ASSUME NEW y \in I, Arriving(y), NEW d
        PROVE  Take(y, d) \in I
    <2>1. y \in Parts /\ Phase(y) /\ Calm(y) /\ Told(y) /\ y.tr.name = x.tr.name
      BY <1>1
    <2>2. Take(y, d) \in Parts /\ Phase(Take(y, d))
      BY <1>2, <2>1, TakeMoves DEF Moves
    <2>3. Calm(Take(y, d)) /\ Told(Take(y, d))
      BY <1>2, <2>1, TakeCalm, EmitTold
    <2>4. Take(y, d).tr.name = y.tr.name
      BY <1>2, <2>1, TakeFields
    <2> QED  BY <1>1, <2>1, <2>2, <2>3, <2>4
  <1>3. \A y \in I: Arriving(y) => Take(y, does) \in I /\ Take(y, "nothing") \in I
    BY <1>2
  <1>4. x \in I
    BY <1>1
  <1>5. Receive(x, n, does) \in I
    BY <1>3, <1>4, Receiving
  <1>6. Behind(x, n, Receive(x, n, does))
    BY <1>3, <1>4, Receiving
  <1> QED  BY <1>1, <1>5, <1>6

-----------------------------------------------------------------------------
(* The end of a receiver. *)

LEMMA PostedBehind ==
  ASSUME NEW e \in Engines, NEW d
  PROVE  postMessage(e, d).down = Append(e.down, d)
  BY DEF postMessage, Engines

\* What the facade tells the page when nothing of the wire gets to it any more.
LEMMA PostedTold ==
  ASSUME NEW x \in Parts, Told(x), x.srv.wire = <<>> \/ ~Fed(x.tr), NEW d \in ToPage, d.type = "c",
         NEW y \in Parts, y.sock = x.sock, y.srv = x.srv, y.tr.down = Append(x.tr.down, d),
         y.tr.name = x.tr.name, y.tr.ears = x.tr.ears, y.tr.rcv = x.tr.rcv,
         y.tr.frame = x.tr.frame, y.tr.facade = x.tr.facade, y.tr.up = x.tr.up
  PROVE  Told(y)
  <1>1. x.tr.down \in Seq(ToPage) /\ x.tr.up \in Seq(ToFrame)
    BY Fields DEF Engines
  <1>2. Fed(y.tr) = Fed(x.tr)
    BY DEF Fed
  <1>3. More1(Line(x), Line(y), Shown(d)) /\ Shown(d).type = "h"
    BY <1>2, PostLine, ShownTyped
  <1>4. Posts(x, y)
    BY <1>2, <1>3, TalkItself DEF Posts, Alive
  <1>5. Fewer(x.tr.down, y.tr.down) /\ Fewer(x.tr.up, y.tr.up)
    BY <1>1, FewerMore, FewerSame
  <1>6. Calmer(x, y)
    BY <1>5 DEF Calmer
  <1>7. Fresh(y)
    BY <1>6, CalmerFresh DEF Told
  <1> QED  BY <1>4, <1>7, PostsTold

LEMMA EmitCloseTold ==
  ASSUME NEW x \in Parts, Phase(x), Told(x), ~Framed(x.tr.name) \/ x.srv.wire = <<>> \/ ~Fed(x.tr), NEW code \in {1000, 1006}
  PROVE  Told(EmitClose(x, code))
  <1> DEFINE y == EmitClose(x, code)
             d == [type |-> "c", code |-> code]
  <1>1. /\ \/ Framed(x.tr.name) /\ x.tr.facade = "hears" /\ y = [x EXCEPT !.tr = postMessage(x.tr, d)]
           \/ ~Framed(x.tr.name) /\ x.tr.ears /\ y = _transportClose(x, code)
           \/ y = x
        /\ d \in ToPage
    BY EmitsClose
  <1>2. d.type = "c"
    OBVIOUS
  <1> HIDE DEF y, d
  <1>3. CASE y = x
    BY <1>3 DEF y
  <1>4. CASE ~Framed(x.tr.name) /\ x.tr.ears /\ y = _transportClose(x, code)
    <2>1. x.sock.transport
      BY <1>4 DEF Phase
    <2> QED  BY <1>4, <2>1, TransportEndTold DEF y
  <1>5. CASE Framed(x.tr.name) /\ x.tr.facade = "hears" /\ y = [x EXCEPT !.tr = postMessage(x.tr, d)]
    <2>1. x.tr \in Engines /\ d \in ToPage
      BY <1>1, Fields
    <2>2. PICK e \in Engines: e = postMessage(x.tr, d)
      BY <2>1, PostedTyped
    <2>3. /\ e.down = Append(x.tr.down, d) /\ e.name = x.tr.name /\ e.ears = x.tr.ears /\ e.rcv = x.tr.rcv
          /\ e.frame = x.tr.frame /\ e.facade = x.tr.facade /\ e.up = x.tr.up
      <3>1. postMessage(x.tr, d).down = Append(x.tr.down, d)
        BY <2>1, PostedBehind
      <3>2. LET f == postMessage(x.tr, d) IN
            f.name = x.tr.name /\ f.ears = x.tr.ears /\ f.rcv = x.tr.rcv
            /\ f.frame = x.tr.frame /\ f.facade = x.tr.facade /\ f.up = x.tr.up
        BY <2>1, PostedTyped
      <3> QED  BY <2>2, <3>1, <3>2
    <2>4. y \in Parts /\ y.tr = e /\ y.sock = x.sock /\ y.srv = x.srv
      BY <1>5, <2>2, WithTransport
    <2>5. x.srv.wire = <<>> \/ ~Fed(x.tr)
      BY <1>5
    <2>6. /\ y.sock = x.sock /\ y.srv = x.srv /\ y.tr.down = Append(x.tr.down, d)
          /\ y.tr.name = x.tr.name /\ y.tr.ears = x.tr.ears /\ y.tr.rcv = x.tr.rcv
          /\ y.tr.frame = x.tr.frame /\ y.tr.facade = x.tr.facade /\ y.tr.up = x.tr.up /\ y \in Parts
      BY <2>3, <2>4
    <2>7. Told(y)
      BY <1>2, <2>1, <2>5, <2>6, PostedTold
    <2> QED  BY <2>7 DEF y
  <1> QED  BY <1>1, <1>3, <1>4, <1>5

\* What was on the wire is lost with the receiver.
LEMMA DroppedTold ==
  ASSUME NEW x \in Parts, Told(x), NEW y \in Parts, y.sock = x.sock, Still(x.tr, y.tr), y.tr.ears => x.tr.ears,
         y.tr.rcv = "none", SameTalk(x.srv, y.srv), y.srv.wire \in {x.srv.wire, <<>>}
  PROVE  Told(y)
  <1>1. Fed(y.tr) = Fed(x.tr)
    BY DEF Still, Fed
  <1>2. Cut(Line(x), Line(y))
    BY <1>1, LineCut DEF Still
  <1>3. ~Alive(y.tr)
    BY DEF Alive
  <1>4. Hushed(x, y)
    BY <1>2, <1>3 DEF Hushed, Still
  <1>5. x.tr.down \in Seq(ToPage)
    BY Fields DEF Engines
  <1>6. Fewer(x.tr.down, y.tr.down)
    BY <1>5, FewerSame DEF Still
  <1>7. Calmer(x, y)
    BY <1>6 DEF Calmer, Still, SameTalk
  <1> QED  BY <1>4, <1>7, HushedTold

\* The answer was read to its end, or its transport may lose frames.
LEMMA EmptiedTold ==
  ASSUME NEW x \in Parts, Told(x), Exact(x.tr) => \A i \in DOMAIN x.srv.wire: x.srv.wire[i].type = "end"
  PROVE  Told(Emptied(x))
  <1>1. PICK y \in Parts: y = Emptied(x)
    BY EmptiedFields
  <1>2. y.sock = x.sock /\ y.tr = x.tr /\ SameTalk(x.srv, y.srv) /\ y.srv.wire = <<>>
    BY <1>1, EmptiedFields DEF SameTalk
  <1>3. Cut(Line(x), Line(y))
    BY <1>2, LineCut
  <1>4. ASSUME Exact(x.tr), NEW p \in DOMAIN Line(x), p \notin DOMAIN Line(y)
        PROVE  Silent(Line(x)[p])
    <2>1. PICK d, n \in Nat: Spanned(x, d, n)
      BY Spans
    <2>2. PICK e, m \in Nat: Spanned(y, e, m)
      BY Spans
    <2> USE DEF Spanned
    <2>3. e = d /\ m = d
      <3>1. e = d
        BY <1>2, <2>1, <2>2
      <3>2. Len(y.srv.wire) = 0
        BY <1>2, EmptyTyped
      <3> QED  BY <2>2, <3>1, <3>2
    <2>4. p \in 1..n /\ ~(p <= d)
      BY <1>4, <2>1, <2>2, <2>3
    <2>5. Line(x)[p] = x.srv.wire[p - d]
      BY <2>1, <2>4
    <2>6. x.srv.wire \in Seq(OnWire)
      BY Fields DEF Sessions
    <2>7. p - d \in DOMAIN x.srv.wire
      <3>0. n # d
        BY <2>4
      <3>1. n = d + Len(x.srv.wire)
        BY <2>1, <3>0
      <3>2. Len(x.srv.wire) \in Nat /\ DOMAIN x.srv.wire = 1..Len(x.srv.wire)
        BY <2>6, LenProperties
      <3> QED  BY <2>4, <3>1, <3>2
    <2> QED  BY <1>4, <2>5, <2>7 DEF Silent
  <1>5. Hushed(x, y)
    BY <1>2, <1>3, <1>4 DEF Hushed
  <1>6. x.tr.down \in Seq(ToPage) /\ x.tr.up \in Seq(ToFrame)
    BY Fields DEF Engines
  <1>7. Fewer(x.tr.down, y.tr.down) /\ Fewer(x.tr.up, y.tr.up)
    BY <1>2, <1>6, FewerSame
  <1>8. Calmer(x, y)
    BY <1>2, <1>7 DEF Calmer, SameTalk
  <1>9. Told(y)
    BY <1>2, <1>5, <1>8, HushedTold
  <1> QED  BY <1>1, <1>9

LEMMA PollAgainTold ==
  ASSUME NEW x \in Parts, Told(x), x.tr.rcv # "none"
  PROVE  Told(PollAgain(x))
  <1>1. PICK y \in Parts: y = PollAgain(x)
    BY PollAgainFields
  <1>2. /\ y.sock = x.sock /\ y.srv = x.srv /\ y.tr.name = x.tr.name /\ y.tr.ears = x.tr.ears
        /\ y.tr.rcv = (IF x.tr.left = "early" THEN "none" ELSE "scheduled") /\ y.tr.frame = x.tr.frame
        /\ y.tr.facade = x.tr.facade /\ y.tr.up = x.tr.up /\ y.tr.down = x.tr.down
    BY <1>1, PollAgainFields
  <1>3. x.tr.up \in Seq(ToFrame)
    BY Fields DEF Engines
  <1>4. Fewer(x.tr.up, y.tr.up)
    BY <1>2, <1>3, FewerSame
  <1>5. Quiet(x, y)
    BY <1>2, <1>4, TalkItself DEF Quiet, Still
  <1>6. Told(y)
    BY <1>5, QuietTold
  <1> QED  BY <1>1, <1>6

LEMMA EndsTold ==
  ASSUME NEW y \in Parts, NEW reason, y.tr.rcv = "none" => Told(y),
         y.tr.rcv # "none" /\ reason = "network" => Told(PollAgain(y)),
         y.tr.rcv # "none" /\ reason # "network" => Told(EmitClose([y EXCEPT !.tr = Finished(y.tr)], 1006))
  PROVE  Told(ReceiverCloses(y, reason))
  <1>1. Told(PollGivesUp(y, 1006)) = Told(EmitClose([y EXCEPT !.tr = Finished(y.tr)], 1006))
    BY Zenon DEF PollGivesUp, Finished
  <1>2. CASE y.tr.rcv = "none"
    BY <1>2 DEF ReceiverCloses
  <1>3. CASE y.tr.rcv # "none" /\ reason = "network"
    BY <1>3 DEF ReceiverCloses
  <1>4. CASE y.tr.rcv # "none" /\ reason # "network"
    <2>1. ReceiverCloses(y, reason) = PollGivesUp(y, 1006)
      BY <1>4 DEF ReceiverCloses
    <2> QED  BY <1>1, <1>4, <2>1
  <1> QED  BY <1>2, <1>3, <1>4

\* The receiver ends with reason, and its wire with it.
LEMMA ReceiverClosesTold ==
  ASSUME NEW x \in Parts, Phase(x), NEW y \in Parts, y.sock = x.sock, y.tr = x.tr, SameTalk(x.srv, y.srv),
         y.srv.wire = <<>>, Told(x), NEW reason,
         (reason = "network" \/ x.tr.rcv = "none") => Told(y)
  PROVE  Told(ReceiverCloses(y, reason))
  <1>1. y.tr.rcv = "none" => Told(y)
    OBVIOUS
  <1>2. y.tr.rcv # "none" /\ reason = "network" => Told(PollAgain(y))
    BY PollAgainTold
  <1>3. ASSUME y.tr.rcv # "none"
        PROVE  Told(EmitClose([y EXCEPT !.tr = Finished(y.tr)], 1006))
    <2>1. y.tr \in Engines
      BY Fields
    <2>2. /\ Finished(y.tr) \in Engines /\ Finished(y.tr).ears = y.tr.ears /\ Finished(y.tr).rcv = "none"
      BY <2>1, FinishedFields
    <2>3. PICK z \in Parts: z = [y EXCEPT !.tr = Finished(y.tr)]
      BY <2>2, WithTransport
    <2>4. z.tr = Finished(y.tr) /\ z.sock = y.sock /\ z.srv = y.srv
      BY <2>2, <2>3, WithTransport
    <2>5. Still(x.tr, z.tr) /\ z.tr.ears = x.tr.ears /\ z.tr.rcv = "none"
      BY <2>1, <2>2, <2>4, EngineCloseStill
    <2>6. Told(z)
      BY <2>4, <2>5, DroppedTold
    <2>7. Phase(z)
      <3>1. ~x.sock.ir
        BY <1>3, NoneFields DEF Phase
      <3> QED  BY <2>4, <2>5, <3>1, PhaseKept DEF Moves
    <2>10. z.srv.wire = <<>> /\ z \in Parts
      BY <2>3, <2>4
    <2>8. Told(EmitClose(z, 1006))
      BY <2>4, <2>6, <2>7, <2>10, EmitCloseTold
    <2> QED  BY <2>3, <2>8
  <1> QED  BY <1>1, <1>2, <1>3, EndsTold

-----------------------------------------------------------------------------
(* The steps and what is told. *)

LEMMA Arrives ==
  ASSUME TypeOK', place' = place
  PROVE  \E y \in Parts: Become(y) /\ y.sock = sock' /\ y.tr = tr' /\ y.srv = srv'
  <1>1. Now' \in Parts
    BY DEF TypeOK, Now, Parts
  <1>2. Now'.sock = sock' /\ Now'.tr = tr' /\ Now'.left = left' /\ Now'.srv = srv'
    BY DEF Now
  <1>3. PICK y \in Parts: y = Now'
    BY <1>1
  <1>4. Become(y)
    BY <1>2, <1>3 DEF Become
  <1> QED  BY <1>2, <1>3, <1>4

LEMMA QuietStep ==
  ASSUME TypeOK, Told(Now), NEW y \in Parts, Quiet(Now, y), Become(y)
  PROVE  Told(Now)'
  <1>1. Now \in Parts
    BY NowTyped
  <1>2. Told(y)
    BY <1>1, QuietTold
  <1> QED  BY <1>2, BecameTold

\* The handler changes nothing that comes to the socket.
LEMMA StillStep ==
  ASSUME TypeOK, TypeOK', Told(Now), place' = place, Still(tr, tr'), tr'.ears => tr.ears,
         sock'.events = sock.events, sock'.transports = sock.transports, sock'.readyState = sock.readyState,
         SameTalk(srv, srv'), srv'.wire = srv.wire
  PROVE  Told(Now)'
  <1>1. PICK y \in Parts: Become(y) /\ y.sock = sock' /\ y.tr = tr' /\ y.srv = srv'
    BY Arrives
  <1>2. Quiet(Now, y)
    BY <1>1, NowFields DEF Quiet
  <1> QED  BY <1>1, <1>2, QuietStep

LEMMA UserTold ==
  ASSUME TypeOK, Solid(Now), Told(Now), User
  PROVE  Told(Now)'
  <1>1. Now \in Parts /\ Phase(Now)
    BY NowTyped DEF Solid
  <1>2. Now.sock.transport \/ ~Now.tr.ears
    BY <1>1 DEF Phase
  <1>3. CASE UserSends
    <2>1. Become(send(Now)) /\ send(Now) \in Parts /\ Quiet(Now, send(Now))
      BY <1>1, <1>3, UserTyped, SendQuiet DEF UserSends
    <2> QED  BY <2>1, QuietStep
  <1>4. CASE UserCloses
    <2>1. Become(close(Now)) /\ close(Now) \in Parts /\ Quiet(Now, close(Now))
      BY <1>1, <1>2, <1>4, UserTyped, HandlerQuiet DEF UserCloses
    <2> QED  BY <2>1, QuietStep
  <1> QED  BY <1>3, <1>4 DEF User

LEMMA InfoTold ==
  ASSUME TypeOK, TypeOK', Solid(Now), Told(Now), InfoStarts \/ InfoArrives \/ InfoTimesOut
  PROVE  Told(Now)'
  <1>1. Now \in Parts /\ Phase(Now) /\ Calm(Now) /\ sock \in Sockets /\ tr \in Engines
    BY NowTyped DEF Solid, TypeOK
  <1>2. CASE InfoStarts
    <2>1. /\ sock' = [sock EXCEPT !.info = "asking"] /\ tr' = tr /\ srv' = srv /\ place' = place
      BY <1>2 DEF InfoStarts, Become, Now
    <2>2. sock'.events = sock.events /\ sock'.transports = sock.transports /\ sock'.readyState = sock.readyState
      BY <1>1, <2>1 DEF Sockets
    <2>3. Still(tr, tr') /\ SameTalk(srv, srv')
      BY <1>1, <2>1, SameStill, TalkItself
    <2> QED  BY <2>1, <2>2, <2>3, StillStep
  <1>3. CASE InfoArrives \/ InfoTimesOut
    <2>1. PICK got \in BOOLEAN: Become(_receiveInfo(Now, got))
      BY <1>3 DEF InfoArrives, InfoTimesOut
    <2>2. Now.sock.ir
      BY <1>1, <1>3, NowFields DEF InfoArrives, InfoTimesOut, Phase
    <2>3. Told(_receiveInfo(Now, got))
      BY <1>1, <2>2, ReceiveInfoTold
    <2>4. _receiveInfo(Now, got) \in Parts
      BY <1>1, <2>2, ReceiveInfoMoves DEF Moves
    <2> QED  BY <2>1, <2>3, <2>4, BecameTold
  <1> QED  BY <1>2, <1>3

LEMMA TransportEndTyped == ASSUME NEW x \in Parts, NEW code PROVE _transportClose(x, code) \in Parts
  <1>1. PICK y \in Parts: y = LetGo(x)
    BY LetGoFields
  <1>2. _transportClose(x, code) \in {_connect(y), _close(y)}
    BY <1>1 DEF _transportClose, LetGo
  <1>3. _connect(y) \in Parts /\ _close(y) \in Parts
    BY ConnectTyped, CloseFields
  <1> QED  BY <1>2, <1>3

LEMMA GiveUpTold ==
  ASSUME TypeOK, Solid(Now), Told(Now), TransportTimesOut \/ StaleTimerFires
  PROVE  Told(Now)'
  <1>1. Now \in Parts /\ Phase(Now) /\ sock \in Sockets /\ tr \in Engines /\ left \subseteq TransportNames
    BY NowTyped DEF Solid, TypeOK
  <1>2. sock.transport
    BY <1>1, NowFields DEF TransportTimesOut, StaleTimerFires, Phase
  <1>3. PICK s \in Sockets: /\ s = [sock EXCEPT !.timer = FALSE] \/ (s = [sock EXCEPT !.stale = @ - 1] /\ sock.stale > 0)
                            /\ Become(GiveUp([Now EXCEPT !.sock = s]))
    <2>1. CASE TransportTimesOut
      <3>1. PICK s \in Sockets: s = [sock EXCEPT !.timer = FALSE]
        BY <1>1 DEF Sockets
      <3>2. [Now EXCEPT !.sock.timer = FALSE] = [Now EXCEPT !.sock = s]
        BY <1>1, <3>1, NowFields DEF Parts
      <3> QED  BY <2>1, <3>1, <3>2 DEF TransportTimesOut
    <2>2. CASE StaleTimerFires
      <3>1. sock.stale - 1 \in Nat /\ sock.stale > 0
        BY <1>1, <2>2 DEF StaleTimerFires, Sockets
      <3>2. PICK s \in Sockets: s = [sock EXCEPT !.stale = @ - 1]
        BY <1>1, <3>1 DEF Sockets
      <3>3. [Now EXCEPT !.sock.stale = @ - 1] = [Now EXCEPT !.sock = s]
        BY <1>1, <3>2, NowFields DEF Parts
      <3> QED  BY <2>2, <3>1, <3>2, <3>3 DEF StaleTimerFires
    <2> QED  BY <2>1, <2>2
  <1>4. s.readyState = sock.readyState /\ s.transport = sock.transport /\ s.events = sock.events /\ s.transports = sock.transports
    BY <1>1, <1>3 DEF Sockets
  <1>5. PICK x \in Parts: x = [Now EXCEPT !.sock = s] /\ x.sock = s /\ x.tr = tr /\ x.srv = srv
    BY <1>1, NowFields, WithSocket
  <1>6. tr.name # "none" /\ tr.name \in TransportNames
    BY <1>1, <1>2, NowFields, EarsNamed DEF Solid, Calm, Phase, Engines
  <1>7. PICK e \in Engines: e = [tr EXCEPT !.left = "timeout"]
    <2>1. [tr EXCEPT !.left = "timeout"] \in Engines
      BY <1>1, TimedOutTyped
    <2> QED  BY <2>1
  <1>8. /\ e.name = tr.name /\ e.ears = tr.ears /\ e.rcv = tr.rcv /\ e.frame = tr.frame
        /\ e.facade = tr.facade /\ e.up = tr.up /\ e.down = tr.down
    BY <1>1, <1>7 DEF Engines
  <1>9. PICK y \in Parts: y = [x EXCEPT !.left = @ \cup {tr.name}, !.tr = e]
    <2>1. x.left \subseteq TransportNames
      BY DEF Parts
    <2> QED  BY <1>6, <2>1 DEF Parts
  <1>10. y.sock = s /\ y.tr = e /\ y.srv = srv
    BY <1>5, <1>9 DEF Parts
  <1>11. GiveUp(x) = _transportClose(y, 2007)
    <2>1. [x EXCEPT !.left = @ \cup {tr.name}, !.tr.left = "timeout"] = y
      BY <1>5, <1>7, <1>9 DEF Parts
    <2> QED  BY <2>1 DEF GiveUp
  <1>12. Quiet(Now, y)
    <2>1. Still(tr, e)
      BY <1>1, <1>8, StillSame
    <2> QED  BY <1>4, <1>8, <1>10, <2>1, NowFields, TalkItself DEF Quiet
  <1>13. Told(y)
    BY <1>1, <1>12, QuietTold
  <1>14. y.sock.transport
    BY <1>2, <1>4, <1>10
  <1>15. Become(_transportClose(y, 2007))
    BY <1>3, <1>5, <1>11
  <1> HIDE DEF GiveUp
  <1>16. Told(_transportClose(y, 2007))
    BY <1>13, <1>14, TransportEndTold
  <1>17. _transportClose(y, 2007) \in Parts
    BY TransportEndTyped
  <1> QED  BY <1>15, <1>16, <1>17, BecameTold

LEMMA TurnedHeard ==
  ASSUME NEW x, NEW y, Heard(x), y.tr = x.tr, y.srv = x.srv, Turned(x.sock.events, y.sock.events), ~y.tr.ears
  PROVE  Heard(y)
  <1>1. Line(y) = Line(x)
    BY LineSame
  <1>2. Seen(y.sock.events) = Seen(x.sock.events) /\ Tells(y.sock.events) = Tells(x.sock.events)
        /\ \A i \in Tells(x.sock.events): y.sock.events[i] = x.sock.events[i]
    BY DEF Turned
  <1>3. Sorted(Line(x), x.sock.events, x.srv) /\ (Exact(x.tr) => Unbroken(x.sock.events, x.srv))
    BY DEF Heard
  <1>4. Unbroken(x.sock.events, x.srv) => Unbroken(y.sock.events, x.srv)
    BY <1>2 DEF Unbroken
  <1>5. Sorted(Line(x), y.sock.events, x.srv)
    BY <1>2, <1>3 DEF Sorted
  <1> QED  BY <1>1, <1>3, <1>4, <1>5 DEF Heard

\* The socket has ended.
LEMMA CloseTimerTold ==
  ASSUME TypeOK, TypeOK', Solid(Now), Told(Now), CloseTimer
  PROVE  Told(Now)'
  <1>1. Now \in Parts /\ Phase(Now) /\ sock \in Sockets /\ tr \in Engines /\ sock.closes # <<>>
    BY NowTyped DEF Solid, TypeOK, CloseTimer
  <1>2. ~tr.ears
    BY <1>1, NowFields DEF Phase, CONNECTING, OPEN, CLOSING
  <1>3. PICK s \in Sockets: s = [sock EXCEPT !.readyState = CLOSED, !.closes = Tail(@)]
    <2>1. CLOSED \in CONNECTING..CLOSED /\ Tail(sock.closes) \in Seq(BOOLEAN)
      BY <1>1, HeadTailProperties DEF CONNECTING, CLOSED, Sockets
    <2>2. [sock EXCEPT !.readyState = CLOSED, !.closes = Tail(@)] \in Sockets
      BY <1>1, <2>1 DEF Sockets
    <2> QED  BY <2>2
  <1>4. s.events = sock.events /\ s.transports = sock.transports
    BY <1>1, <1>3 DEF Sockets
  <1>5. PICK y \in Parts: y = [Now EXCEPT !.sock = s] /\ y.sock = s /\ y.tr = tr /\ y.srv = srv
    BY <1>1, NowFields, WithSocket
  <1>6. [Now EXCEPT !.sock.readyState = CLOSED, !.sock.closes = Tail(@)] = y
    BY <1>1, <1>3, <1>5, NowFields DEF Parts
  <1>7. PICK z \in Parts: z = IF Head(sock.closes) THEN dispatchEvent(y, <<"error">>) ELSE y
    BY ToldTyped, TurnsMade
  <1>8. PICK w \in Parts: w = dispatchEvent(z, <<"close">>)
    BY ToldTyped, TurnsMade
  <1>9. Become(w)
    BY <1>6, <1>7, <1>8, Zenon DEF CloseTimer
  <1>10. /\ z.tr = tr /\ z.srv = srv /\ z.sock.transports = sock.transports
         /\ z.sock.events = sock.events \/ Turned(sock.events, z.sock.events)
    <2>1. CASE Head(sock.closes)
      <3>1. z = dispatchEvent(y, <<"error">>)
        BY <1>7, <2>1
      <3>2. z.tr = y.tr /\ z.srv = y.srv /\ z.sock.transports = y.sock.transports /\ z.sock.events = Append(y.sock.events, <<"error">>)
        BY <3>1, ToldFields
      <3>3. z.sock.events = Append(sock.events, <<"error">>)
        BY <1>4, <1>5, <3>2
      <3>4. Turned(sock.events, z.sock.events)
        BY <1>1, <3>3, TurnTold DEF Sockets
      <3> QED  BY <1>4, <1>5, <3>2, <3>4
    <2>2. CASE ~Head(sock.closes)
      <3>1. z = y
        BY <1>7, <2>2
      <3> QED  BY <1>4, <1>5, <3>1
    <2> QED  BY <2>1, <2>2
  <1>11. /\ w.tr = tr /\ w.srv = srv /\ w.sock.transports = sock.transports
         /\ Turned(z.sock.events, w.sock.events)
    <2>1. w.tr = z.tr /\ w.srv = z.srv /\ w.sock.transports = z.sock.transports /\ w.sock.events = Append(z.sock.events, <<"close">>)
      BY <1>8, ToldFields
    <2>2. z.sock.events \in Seq(Events)
      BY Fields DEF Sockets
    <2>3. Turned(z.sock.events, w.sock.events)
      BY <2>1, <2>2, TurnTold
    <2> QED  BY <1>10, <2>1, <2>3
  <1>12. Turned(sock.events, w.sock.events)
    <2>1. CASE z.sock.events = sock.events
      BY <1>11, <2>1
    <2>2. CASE Turned(sock.events, z.sock.events)
      BY <1>11, <2>2 DEF Turned
    <2> QED  BY <1>10, <2>1, <2>2
  <1>13. Heard(w)
    BY <1>2, <1>11, <1>12, NowFields, TurnedHeard DEF Told
  <1>14. Fresh(w) /\ Listed(w)
    BY <1>11, NowFields DEF Told, Fresh, Listed
  <1>15. OpenFirst(w)
    <2>1. w.sock.events # <<>> => (IsMessage(Head(w.sock.events)) => 1 \in Tells(w.sock.events))
      BY Fields, HeadTailProperties, LenProperties, EmptySeq DEF Sockets, Tells
    <2>2. 1 \in Tells(w.sock.events) => sock.events # <<>> /\ IsMessage(Head(sock.events))
      <3>1. 1 \in Tells(w.sock.events) => 1 \in DOMAIN sock.events /\ IsMessage(sock.events[1])
        BY <1>12 DEF Turned, Tells
      <3> QED  BY <1>1, <3>1, HeadTailProperties, EmptySeq DEF Sockets
    <2> QED  BY <1>11, <2>1, <2>2, NowFields DEF Told, OpenFirst
  <1> QED  BY <1>9, <1>13, <1>14, <1>15, BecameTold DEF Told

\* The requests of the receiver and of the sender start and end well.
LEMMA RequestsTold ==
  ASSUME TypeOK, TypeOK', Told(Now), RequestStarts \/ SendStarts \/ SendSucceeds \/ WaitEnds \/ ServerGets
  PROVE  Told(Now)'
  <1>1. tr \in Engines /\ srv \in Sessions
    BY DEF TypeOK
  <1>2. sock' = sock /\ place' = place
    BY DEF RequestStarts, SendStarts, SendSucceeds, WaitEnds, ServerGets, Become, Now
  <1>3. CASE RequestStarts
    <2>1. tr' = [tr EXCEPT !.rcv = "waiting"] /\ srv' = srv /\ tr.rcv = "scheduled"
      BY <1>3 DEF RequestStarts, Become, Now
    <2>2. /\ tr'.name = tr.name /\ tr'.ears = tr.ears /\ tr'.rcv = "waiting" /\ tr'.frame = tr.frame
          /\ tr'.facade = tr.facade /\ tr'.up = tr.up /\ tr'.down = tr.down
      BY <1>1, <2>1 DEF Engines
    <2>3. tr.up \in Seq(ToFrame)
      BY <1>1 DEF Engines
    <2>4. Fewer(tr.up, tr'.up)
      BY <2>2, <2>3, FewerSame
    <2>5. Still(tr, tr')
      BY <2>1, <2>2, <2>4 DEF Still
    <2> QED  BY <1>2, <2>1, <2>2, <2>5, TalkItself, StillStep
  <1>4. CASE SendStarts \/ SendSucceeds \/ WaitEnds \/ ServerGets
    <2>1. \/ tr' = [tr EXCEPT !.snd = "inflight"] /\ srv' = srv
          \/ tr' = [tr EXCEPT !.snd = "wait", !.flight = <<>>] /\ srv' = srv
          \/ tr' = SendSchedule(tr) /\ srv' = srv
          \/ tr' = [tr EXCEPT !.flight = <<>>] /\ srv' = [srv EXCEPT !.got = @ \o tr.flight]
      BY <1>4 DEF SendStarts, SendSucceeds, WaitEnds, ServerGets, Become, Now
    <2>2. /\ tr'.name = tr.name /\ tr'.ears = tr.ears /\ tr'.rcv = tr.rcv /\ tr'.frame = tr.frame
          /\ tr'.facade = tr.facade /\ tr'.up = tr.up /\ tr'.down = tr.down
      <3>1. CASE tr' = SendSchedule(tr)
        BY <1>1, <3>1, ScheduleKeeps
      <3>2. CASE tr' # SendSchedule(tr)
        BY <1>1, <2>1, <3>2 DEF Engines
      <3> QED  BY <3>1, <3>2
    <2>3. SameTalk(srv, srv') /\ srv'.wire = srv.wire
      BY <1>1, <2>1 DEF SameTalk, Sessions
    <2>4. Still(tr, tr')
      BY <1>1, <2>2, StillSame
    <2> QED  BY <1>2, <2>2, <2>3, <2>4, StillStep
  <1> QED  BY <1>3, <1>4

LEMMA MovedStep ==
  ASSUME NEW x, NEW z, Moves(x, z), Told(z), Become(z)
  PROVE  Told(Now)'
  BY BecameTold DEF Moves

LEMMA Reading ==
  ASSUME TypeOK, Solid(Now), tr.rcv # "none"
  PROVE  Now \in Parts /\ Phase(Now) /\ Calm(Now) /\ Lasting(Now) /\ Now.tr.name # "none" /\ Now.tr.name \in TransportNames
  <1>1. Now \in Parts /\ Phase(Now) /\ Calm(Now) /\ Lasting(Now) /\ tr \in Engines
    BY NowTyped DEF Solid, TypeOK
  <1>2. tr.name # "none"
    BY <1>1, NowFields, EarsNamed DEF Calm
  <1> QED  BY <1>1, <1>2, NowFields DEF Engines

LEMMA ChunkTold ==
  ASSUME TypeOK, Solid(Now), Told(Now), Chunk
  PROVE  Told(Now)'
  <1>1. Now \in Parts /\ Phase(Now) /\ Calm(Now) /\ Now.tr.name # "none"
    BY Reading DEF Chunk
  <1>2. srv.wire \in Seq(OnWire) /\ Len(srv.wire) \in Nat
    BY LenProperties DEF TypeOK, Sessions
  <1>3. PICK n \in 0..Len(Now.srv.wire), does \in Does:
          /\ \A i \in 1..n: Now.srv.wire[i].type # "end"
          /\ Become(Receive(Now, n, does))
    BY <1>2, NowFields DEF Chunk
  <1>4. Receive(Now, n, does) \in Parts /\ Told(Receive(Now, n, does))
    BY <1>1, <1>3, ReceiveTold
  <1> QED  BY <1>3, <1>4, BecameTold

\* A receiver that ends with reason network is made again.
LEMMA NetworkTold ==
  ASSUME NEW y \in Parts, Told(y)
  PROVE  Told(ReceiverCloses(y, "network"))
  <1>1. y.tr.rcv # "none" => Told(PollAgain(y))
    BY PollAgainTold
  <1> QED  BY <1>1, EndsTold

LEMMA PauseTold ==
  ASSUME TypeOK, TypeOK', Told(Now), tr.rcv # "none", ~Exact(tr), NEW why \in {"network", "permanent"},
         Become([Emptied(Now) EXCEPT !.tr.rcv = "pause", !.tr.why = why])
  PROVE  Told(Now)'
  <1>1. Now \in Parts /\ tr \in Engines
    BY NowTyped DEF TypeOK
  <1>2. PICK z \in Parts: z = Emptied(Now)
    BY <1>1, EmptiedFields
  <1>3. z.sock = sock /\ z.tr = tr /\ z.srv.wire = <<>>
    BY <1>1, <1>2, NowFields, EmptiedFields
  <1>4. Told(z)
    BY <1>1, <1>2, NowFields, EmptiedTold
  <1>5. place' = place /\ Become([z EXCEPT !.tr.rcv = "pause", !.tr.why = why])
    BY <1>2 DEF Become
  <1>6. sock' = z.sock /\ srv' = z.srv /\ tr' = [z.tr EXCEPT !.rcv = "pause", !.why = why]
    BY <1>5 DEF Become, Parts
  <1>7. PICK y \in Parts: Become(y) /\ y.sock = sock' /\ y.tr = tr' /\ y.srv = srv'
    BY <1>5, Arrives
  <1>8. /\ y.tr.name = z.tr.name /\ y.tr.ears = z.tr.ears /\ y.tr.rcv = "pause" /\ y.tr.frame = z.tr.frame
        /\ y.tr.facade = z.tr.facade /\ y.tr.up = z.tr.up /\ y.tr.down = z.tr.down
        /\ y.sock = z.sock /\ y.srv = z.srv
    BY <1>1, <1>3, <1>6, <1>7 DEF Engines
  <1>9. z.tr.up \in Seq(ToFrame) /\ z.tr.down \in Seq(ToPage)
    BY Fields DEF Engines
  <1>10. Fewer(z.tr.up, y.tr.up) /\ Fewer(z.tr.down, y.tr.down)
    BY <1>8, <1>9, FewerSame
  <1>11. Calmer(z, y)
    BY <1>3, <1>8, <1>10 DEF Calmer
  <1>12. Cut(Line(z), Line(y))
    BY <1>3, <1>8, LineCut
  <1>13. Hushed(z, y)
    BY <1>3, <1>8, <1>12, TalkItself DEF Hushed, Exact
  <1>14. Told(y)
    BY <1>4, <1>8, <1>11, <1>13, HushedTold
  <1> QED  BY <1>7, <1>14, BecameTold

\* The answer is complete.
LEMMA AnswerEndsTold ==
  ASSUME TypeOK, TypeOK', Solid(Now), Told(Now), AnswerEnds
  PROVE  Told(Now)'
  <1> DEFINE ended == Last(srv.wire).type = "end"
             unread == Len(srv.wire) - (IF ended THEN 1 ELSE 0)
  <1>1. /\ Now \in Parts /\ Phase(Now) /\ Calm(Now) /\ Lasting(Now) /\ Now.tr.name # "none"
        /\ tr.rcv = "waiting"
    BY Reading DEF AnswerEnds
  <1>2. srv.wire \in Seq(OnWire) /\ Len(srv.wire) \in Nat /\ srv.wire # <<>> /\ DOMAIN srv.wire = 1..Len(srv.wire)
    BY LenProperties DEF TypeOK, Sessions, AnswerEnds
  <1>3. Len(srv.wire) > 0
    BY <1>2, EmptySeq
  <1>4. /\ unread \in 0..Len(srv.wire) /\ (\A i \in 1..unread: srv.wire[i].type # "end")
        /\ \A i \in 1..Len(srv.wire): ~(i <= unread) => srv.wire[i].type = "end" /\ i = unread + 1
    <2>1. \A i \in 1..Len(srv.wire): srv.wire[i].type = "end" => i = Len(srv.wire)
      BY <1>1, <1>2, NowFields DEF Lasting
    <2>2. Last(srv.wire) = srv.wire[Len(srv.wire)]
      BY DEF Last
    <2>3. CASE ended
      <3>1. unread = Len(srv.wire) - 1
        BY <2>3
      <3>2. srv.wire[Len(srv.wire)].type = "end"
        BY <2>2, <2>3
      <3> HIDE DEF ended, unread
      <3> QED  BY <1>2, <1>3, <2>1, <3>1, <3>2
    <2>4. CASE ~ended
      <3>1. unread = Len(srv.wire)
        BY <1>2, <2>4
      <3>2. srv.wire[Len(srv.wire)].type # "end"
        BY <2>2, <2>4
      <3> HIDE DEF ended, unread
      <3> QED  BY <1>2, <1>3, <2>1, <3>1, <3>2
    <2> QED  BY <2>3, <2>4
  <1>5. \/ \E does \in Does: Become(ReceiverCloses(Emptied(Receive(Now, unread, does)), "network"))
        \/ Receiver(tr.name) = "html" /\ Become(ReceiverCloses(Emptied(Now), "network"))
        \/ Receiver(tr.name) = "es" /\ Become([Emptied(Now) EXCEPT !.tr.rcv = "pause", !.tr.why = "network"])
    BY Zenon DEF AnswerEnds
  <1> HIDE DEF unread
  <1>6. CASE \E does \in Does: Become(ReceiverCloses(Emptied(Receive(Now, unread, does)), "network"))
    <2>1. PICK does \in Does: Become(ReceiverCloses(Emptied(Receive(Now, unread, does)), "network"))
      BY <1>6
    <2>2. unread \in 0..Len(Now.srv.wire) /\ (\A i \in 1..unread: Now.srv.wire[i].type # "end")
      BY <1>4, NowFields
    <2>3. PICK y \in Parts: y = Receive(Now, unread, does)
      BY <1>1, <2>2, ReceiveTold
    <2>4. Phase(y) /\ Told(y) /\ Behind(Now, unread, y)
      BY <1>1, <2>2, <2>3, ReceiveTold
    <2>5. \A k \in DOMAIN y.srv.wire: y.srv.wire[k].type = "end"
      <3>1. y.srv.wire \in Seq(OnWire)
        BY Fields DEF Sessions
      <3>2. DOMAIN y.srv.wire = 1..Len(srv.wire) - unread
        BY <2>4, <3>1, LenProperties, NowFields DEF Behind
      <3>3. \A k \in 1..Len(srv.wire) - unread: y.srv.wire[k] = srv.wire[k + unread]
        BY <2>4, NowFields DEF Behind
      <3>4. \A k \in 1..Len(srv.wire) - unread: k + unread \in 1..Len(srv.wire) /\ ~(k + unread <= unread)
        BY <1>2, <1>4
      <3> QED  BY <1>4, <3>2, <3>3, <3>4
    <2>6. Told(Emptied(y)) /\ Emptied(y) \in Parts
      BY <2>4, <2>5, EmptiedTold, EmptiedFields
    <2>7. Told(ReceiverCloses(Emptied(y), "network"))
      BY <2>6, NetworkTold
    <2>8. Phase(Emptied(y))
      <3>1. Moves(y, Emptied(y))
        BY <2>4, EmptiedFields, PhaseKept
      <3> QED  BY <3>1 DEF Moves
    <2>9. Moves(Emptied(y), ReceiverCloses(Emptied(y), "network"))
      BY <2>6, <2>8, ReceiverClosesMoves
    <2>10. Become(ReceiverCloses(Emptied(y), "network"))
      BY <2>1, <2>3
    <2> QED  BY <2>7, <2>9, <2>10, MovedStep
  <1>7. Receiver(tr.name) \in {"es", "html"} => ~Exact(tr)
    BY DEF Exact, MayLoseFrames
  <1>8. CASE Receiver(tr.name) = "html" /\ Become(ReceiverCloses(Emptied(Now), "network"))
    <2>1. Told(Emptied(Now)) /\ Emptied(Now) \in Parts
      BY <1>1, <1>7, <1>8, NowFields, EmptiedTold, EmptiedFields
    <2>2. Told(ReceiverCloses(Emptied(Now), "network"))
      BY <2>1, NetworkTold
    <2>3. Phase(Emptied(Now))
      <3>1. Moves(Now, Emptied(Now))
        BY <1>1, EmptiedFields, PhaseKept
      <3> QED  BY <3>1 DEF Moves
    <2>4. Moves(Emptied(Now), ReceiverCloses(Emptied(Now), "network"))
      BY <2>1, <2>3, ReceiverClosesMoves
    <2> QED  BY <1>8, <2>2, <2>4, MovedStep
  <1>9. CASE Receiver(tr.name) = "es" /\ Become([Emptied(Now) EXCEPT !.tr.rcv = "pause", !.tr.why = "network"])
    BY <1>1, <1>7, <1>9, PauseTold
  <1> QED  BY <1>5, <1>6, <1>8, <1>9

\* What is on the wire of a receiver that ends for good comes to nobody.
LEMMA EndsForGood ==
  ASSUME TypeOK, Solid(Now), Told(Now), tr.rcv # "none", NEW y \in Parts, y.sock = sock, y.tr = tr, SameTalk(srv, y.srv),
         y.srv.wire = <<>>, NEW reason, reason = "network" => Told(y), Become(ReceiverCloses(y, reason))
  PROVE  Told(Now)'
  <1>1. Now \in Parts /\ Phase(Now)
    BY NowTyped DEF Solid
  <1>2. Told(ReceiverCloses(y, reason))
    BY <1>1, NowFields, ReceiverClosesTold
  <1>3. Phase(y)
    <2>1. Moves(Now, y)
      BY <1>1, NowFields, PhaseKept
    <2> QED  BY <2>1 DEF Moves
  <1>4. Moves(y, ReceiverCloses(y, reason))
    BY <1>3, ReceiverClosesMoves
  <1> QED  BY <1>2, <1>4, MovedStep

LEMMA RequestFailsTold ==
  ASSUME TypeOK, TypeOK', Solid(Now), Told(Now), RequestFails
  PROVE  Told(Now)'
  <1>1. Now \in Parts /\ tr.rcv # "none"
    BY NowTyped DEF RequestFails
  <1>2. Receiver(tr.name) \in {"es", "html"} => ~Exact(tr)
    BY DEF Exact, MayLoseFrames
  <1>3. PICK y \in Parts: y = Emptied(Now)
    BY <1>1, EmptiedFields
  <1>4. y.sock = sock /\ y.tr = tr /\ SameTalk(srv, y.srv) /\ y.srv.wire = <<>>
    BY <1>1, <1>3, NowFields, EmptiedFields DEF SameTalk
  <1>5. Receiver(tr.name) \in {"es", "html"} => Told(y)
    BY <1>1, <1>2, <1>3, NowFields, EmptiedTold
  <1>6. CASE Receiver(tr.name) = "es"
    <2>1. PICK why \in {"network", "permanent"}: Become([Emptied(Now) EXCEPT !.tr.rcv = "pause", !.tr.why = why])
      BY <1>6 DEF RequestFails
    <2> QED  BY <1>1, <1>2, <1>6, <2>1, PauseTold
  <1>7. CASE Receiver(tr.name) # "es"
    <2>1. PICK why: (why = "network" => Receiver(tr.name) = "html") /\ Become(ReceiverCloses(Emptied(Now), why))
      BY <1>7 DEF RequestFails
    <2>2. Become(ReceiverCloses(y, why)) /\ (why = "network" => Told(y))
      BY <1>3, <1>5, <2>1
    <2> QED  BY <1>1, <1>4, <2>2, EndsForGood
  <1> QED  BY <1>6, <1>7

LEMMA PauseEndsTold ==
  ASSUME TypeOK, Solid(Now), Told(Now), PauseEnds
  PROVE  Told(Now)'
  <1>1. Now \in Parts /\ tr.rcv # "none" /\ Become(ReceiverCloses(Now, tr.why))
    BY NowTyped DEF PauseEnds
  <1>2. srv.wire = <<>>
    BY NowFields DEF Told, Fresh, PauseEnds
  <1> QED  BY <1>1, <1>2, NowFields, TalkItself, EndsForGood

\* A transport whose receiver has ended.
Deafened(e) == [e EXCEPT !.rcv = "none", !.flight = <<>>]

LEMMA DeafenedTyped ==
  ASSUME NEW e \in Engines
  PROVE  Deafened(e) \in Engines
  BY DroppedTyped DEF Deafened

Deaf(z) == [z EXCEPT !.tr.rcv = "none", !.tr.flight = <<>>]

LEMMA DeafFields ==
  ASSUME NEW z \in Parts, NEW y \in Parts, y.tr = Deafened(z.tr), y.sock = z.sock, y.srv = z.srv,
         y.left = z.left
  PROVE  Deaf(z) = y
  <1>1. Deaf(z) = [z EXCEPT !.tr = Deafened(z.tr)]
    BY DEF Deaf, Deafened, Parts
  <1>2. [z EXCEPT !.tr = Deafened(z.tr)] = y
    BY DEF Parts
  <1> QED  BY Zenon, <1>1, <1>2

LEMMA WebSocketEndsTold ==
  ASSUME TypeOK, Solid(Now), Told(Now), WebSocketEnds
  PROVE  Told(Now)'
  <1>1. Now \in Parts /\ Phase(Now) /\ Now.tr.name # "none" /\ Now.tr.name \in TransportNames /\ tr \in Engines
    BY Reading DEF TypeOK, WebSocketEnds
  <1>2. PICK code \in {1000, 1006}:
          Become(EmitClose([Now EXCEPT !.srv.wire = <<>>, !.tr.rcv = "none", !.tr.flight = <<>>], code))
    BY DEF WebSocketEnds
  <1>3. ~Framed(tr.name)
    BY <1>1, NowFields, Kinds DEF WebSocketEnds
  <1>4. PICK z \in Parts: z = Emptied(Now)
    BY <1>1, EmptiedFields
  <1>5. z.sock = sock /\ z.tr = tr /\ SameTalk(srv, z.srv) /\ z.srv.wire = <<>>
    BY <1>1, <1>4, NowFields, EmptiedFields DEF SameTalk
  <1>0. tr \in Engines
    BY DEF TypeOK
  <1>a. z.tr = tr
    BY <1>5
  <1>c. PICK e \in Engines: e = Deafened(tr)
    BY <1>0, DeafenedTyped
  <1>6. e = [tr EXCEPT !.rcv = "none", !.flight = <<>>]
    BY <1>c DEF Deafened
  <1>7. /\ e.name = tr.name /\ e.ears = tr.ears /\ e.rcv = "none" /\ e.frame = tr.frame
        /\ e.facade = tr.facade /\ e.up = tr.up /\ e.down = tr.down
    BY <1>1, <1>6 DEF Engines
  <1>8. PICK y \in Parts: y = [z EXCEPT !.tr = e]
    <2>1. [z EXCEPT !.tr = e] \in Parts
      BY WithTransport
    <2> QED  BY <2>1
  <1>9. y.tr = e /\ y.sock = sock /\ y.srv = z.srv
    BY <1>5, <1>8, WithTransport
  <1>10. [Now EXCEPT !.srv.wire = <<>>, !.tr.rcv = "none", !.tr.flight = <<>>] = y
    <2>1. [Now EXCEPT !.srv.wire = <<>>, !.tr.rcv = "none", !.tr.flight = <<>>]
            = [Emptied(Now) EXCEPT !.tr.rcv = "none", !.tr.flight = <<>>]
      BY Zenon DEF Emptied
    <2>2. [z EXCEPT !.tr.rcv = "none", !.tr.flight = <<>>] = y
      <3>1. y.tr = Deafened(z.tr)
        BY <1>9, <1>a, <1>c
      <3>2. Deaf(z) = y
        <4>1. y.left = z.left
          BY <1>8, WithTransport
        <4> QED  BY <1>5, <1>9, <3>1, <4>1, DeafFields
      <3> QED  BY Zenon, <3>2 DEF Deaf
    <2> QED  BY <1>4, <2>1, <2>2
  <1>11. Still(tr, e)
    BY <1>1, <1>7, StillSame
  <1>12. Told(y)
    BY <1>1, <1>5, <1>7, <1>9, <1>11, NowFields, DroppedTold
  <1>13. ~sock.ir
    BY <1>1, NowFields, NoneFields DEF Phase
  <1>14. Phase(y)
    <2>1. Moves(Now, y)
      BY <1>1, <1>7, <1>9, <1>13, NowFields, PhaseKept
    <2> QED  BY <2>1 DEF Moves
  <1>15. Told(EmitClose(y, code)) /\ Moves(y, EmitClose(y, code))
    BY <1>3, <1>7, <1>9, <1>12, <1>14, EmitCloseTold, EmitCloseMoves
  <1>16. Become(EmitClose(y, code))
    BY <1>2, <1>10
  <1> QED  BY <1>15, <1>16, MovedStep

\* A facade that heard is deaf.
LEMMA DeafTold ==
  ASSUME NEW x \in Parts, Told(x), NEW y \in Parts, y.sock = x.sock, y.srv = x.srv, y.tr.down = x.tr.down,
         y.tr.name = x.tr.name, y.tr.ears = x.tr.ears, y.tr.rcv = x.tr.rcv, y.tr.frame = x.tr.frame,
         y.tr.up = x.tr.up, y.tr.facade = (IF x.tr.facade = "hears" THEN "deaf" ELSE x.tr.facade)
  PROVE  Told(y)
  <1>1. x.tr.down \in Seq(ToPage) /\ x.tr.up \in Seq(ToFrame)
    BY Fields DEF Engines
  <1>2. Fed(y.tr) => Fed(x.tr)
    BY DEF Fed
  <1>3. Cut(Line(x), Line(y))
    <2>1. CASE Fed(y.tr)
      BY <1>2, <2>1, LineCut
    <2>2. CASE ~Fed(y.tr)
      BY <2>2, LineCut
    <2> QED  BY <2>1, <2>2
  <1>4. ASSUME Alive(y.tr), NEW p \in DOMAIN Line(x)
        PROVE  Alive(x.tr) /\ p \in DOMAIN Line(y)
    <2>1. Fed(y.tr) /\ Alive(x.tr)
      BY <1>2, <1>4 DEF Alive
    <2>2. Line(y) = Line(x)
      BY <1>2, <2>1, LineSame
    <2> QED  BY <1>4, <2>1, <2>2
  <1>5. Alive(y.tr) => Alive(x.tr)
    BY <1>2 DEF Alive
  <1>6. Hushed(x, y)
    BY <1>3, <1>4, <1>5, TalkItself DEF Hushed
  <1>7. Fewer(x.tr.down, y.tr.down) /\ Fewer(x.tr.up, y.tr.up)
    BY <1>1, FewerSame
  <1>8. Calmer(x, y)
    BY <1>7 DEF Calmer
  <1> QED  BY <1>6, <1>8, HushedTold

LEMMA SendFailsTold ==
  ASSUME TypeOK, TypeOK', Solid(Now), Told(Now), SendFails
  PROVE  Told(Now)'
  <1>1. Now \in Parts /\ Phase(Now) /\ Calm(Now) /\ Tidy(tr) /\ tr \in Engines /\ tr.snd # "none"
    BY NowTyped, NowFields DEF Solid, TypeOK, Calm, SendFails
  <1>2. PICK e \in Engines: e = [tr EXCEPT !.snd = "none", !.flight = <<>>, !.left = IF @ = "no" THEN "send" ELSE @]
    BY <1>1, SendFailedFields
  <1>3. /\ e.name = tr.name /\ e.ears = tr.ears /\ e.rcv = tr.rcv /\ e.frame = tr.frame
        /\ e.facade = tr.facade /\ e.up = tr.up /\ e.down = tr.down
    BY <1>1, <1>2, SendFailedFields
  <1>4. PICK y \in Parts: y = [Now EXCEPT !.tr = e] /\ y.tr = e /\ y.sock = sock /\ y.srv = srv
    BY <1>1, NowFields, WithTransport
  <1>5. Still(tr, e)
    BY <1>1, <1>3, StillSame
  <1>6. Told(y)
    <2>1. Quiet(Now, y)
      BY <1>3, <1>4, <1>5, NowFields, TalkItself DEF Quiet
    <2> QED  BY <1>1, <2>1, QuietTold
  <1>7. ~sock.ir
    BY <1>1, NowFields, EarsNamed, NoneFields DEF Phase
  <1>8. Phase(y)
    <2>1. Moves(Now, y)
      BY <1>1, <1>3, <1>4, <1>7, NowFields, PhaseKept
    <2> QED  BY <2>1 DEF Moves
  <1>9. 1006 \in {1000, 1006}
    OBVIOUS
  <1>10. PICK z \in Parts: z = EmitClose(y, 1006)
    <2>1. EmitClose(y, 1006) \in Parts
      BY <1>8, <1>9, EmitCloseMoves DEF Moves
    <2> QED  BY <2>1
  <1>11. Become([z EXCEPT !.tr.facade = IF @ = "hears" THEN "deaf" ELSE @])
    <2>1. Become([EmitClose([Now EXCEPT !.tr = e], 1006) EXCEPT !.tr.facade = IF @ = "hears" THEN "deaf" ELSE @])
      BY <1>2 DEF SendFails
    <2> QED  BY <1>4, <1>10, <2>1
  <1>12. place' = place /\ sock' = z.sock /\ srv' = z.srv /\ tr' = [z.tr EXCEPT !.facade = IF @ = "hears" THEN "deaf" ELSE @]
    BY <1>11 DEF Become, Parts
  <1>13. PICK w \in Parts: Become(w) /\ w.sock = sock' /\ w.tr = tr' /\ w.srv = srv'
    BY <1>12, Arrives
  <1>14. /\ w.sock = z.sock /\ w.srv = z.srv /\ w.tr.down = z.tr.down /\ w.tr.name = z.tr.name
         /\ w.tr.ears = z.tr.ears /\ w.tr.rcv = z.tr.rcv /\ w.tr.frame = z.tr.frame /\ w.tr.up = z.tr.up
         /\ w.tr.facade = (IF z.tr.facade = "hears" THEN "deaf" ELSE z.tr.facade)
    <2>1. z.tr \in Engines
      BY Fields
    <2> QED  BY <1>12, <1>13, <2>1 DEF Engines
  <1>15. CASE Told(z)
    <2>1. Told(w)
      BY <1>14, <1>15, DeafTold
    <2> QED  BY <1>13, <2>1, BecameTold
  <1>16. CASE ~Framed(y.tr.name)
    <2>1. Told(EmitClose(y, 1006))
      BY <1>6, <1>8, <1>9, <1>16, EmitCloseTold
    <2> QED  BY <1>10, <1>15, <2>1
  <1>17. CASE Framed(y.tr.name)
    <2> DEFINE d == [type |-> "c", code |-> 1006]
    <2>1. /\ \/ y.tr.facade = "hears" /\ EmitClose(y, 1006) = [y EXCEPT !.tr = postMessage(y.tr, d)]
             \/ EmitClose(y, 1006) = y
          /\ d \in ToPage
      BY <1>9, <1>17, EmitsClose
    <2>2. d.type = "c"
      OBVIOUS
    <2> HIDE DEF d
    <2>3. CASE EmitClose(y, 1006) = y
      BY <1>6, <1>10, <1>15, <2>3
    <2>4. CASE y.tr.facade = "hears" /\ EmitClose(y, 1006) = [y EXCEPT !.tr = postMessage(y.tr, d)]
      <3>1. y.tr \in Engines /\ d \in ToPage
        BY <2>1, Fields
      <3>2. PICK f \in Engines: f = postMessage(y.tr, d)
        BY <3>1, PostedTyped
      <3>3. z.tr = f /\ z.sock = y.sock /\ z.srv = y.srv
        <4>1. z = [y EXCEPT !.tr = f]
          BY <1>10, <2>4, <3>2
        <4> QED  BY <4>1, WithTransport
      <3>4. f.down = Append(y.tr.down, d)
        BY <3>1, <3>2, PostedBehind
      <3>5. /\ f.name = y.tr.name /\ f.ears = y.tr.ears /\ f.rcv = y.tr.rcv
            /\ f.frame = y.tr.frame /\ f.facade = y.tr.facade /\ f.up = y.tr.up
        BY <3>1, <3>2, PostedTyped
      <3>6. PICK g \in Engines: g = [y.tr EXCEPT !.facade = IF @ = "hears" THEN "deaf" ELSE @]
        BY <3>1, DeafFacade
      <3>12. /\ g.name = y.tr.name /\ g.ears = y.tr.ears /\ g.rcv = y.tr.rcv
             /\ g.frame = y.tr.frame /\ g.up = y.tr.up /\ g.down = y.tr.down
             /\ g.facade = (IF y.tr.facade = "hears" THEN "deaf" ELSE y.tr.facade)
        BY <3>1, <3>6, DeafFacade
      <3>13. g.facade = "deaf"
        BY <2>4, <3>12
      <3>7. PICK x \in Parts: x.tr = g /\ x.sock = y.sock /\ x.srv = y.srv
        <4>1. [y EXCEPT !.tr = g] \in Parts
          BY WithTransport
        <4> QED  BY <4>1, WithTransport
      <3>8. Told(x)
        BY <1>6, <2>4, <3>7, <3>12, DeafTold
      <3>9. ~Fed(x.tr)
        BY <1>17, <3>7, <3>12, <3>13 DEF Fed
      <3>10. /\ w.sock = x.sock /\ w.srv = x.srv /\ w.tr.down = Append(x.tr.down, d)
             /\ w.tr.name = x.tr.name /\ w.tr.ears = x.tr.ears /\ w.tr.rcv = x.tr.rcv
             /\ w.tr.frame = x.tr.frame /\ w.tr.facade = x.tr.facade /\ w.tr.up = x.tr.up
        BY <1>14, <2>4, <3>3, <3>4, <3>5, <3>7, <3>12, <3>13
      <3>11. Told(w)
        BY <2>2, <3>1, <3>8, <3>9, <3>10, PostedTold
      <3> QED  BY <1>13, <3>11, BecameTold
    <2> QED  BY <2>1, <2>3, <2>4
  <1> QED  BY <1>16, <1>17

LEMMA SignsMore ==
  ASSUME NEW S, NEW q \in Seq(S), NEW d \in S
  PROVE  \A i \in Signs(Append(q, d)): i \in Signs(q) \/ i = Len(q) + 1
  <1> DEFINE r == Append(q, d)
  <1>1. /\ Len(q) \in Nat /\ DOMAIN q = 1..Len(q) /\ DOMAIN r = 1..(Len(q) + 1)
        /\ \A i \in DOMAIN q: r[i] = q[i]
    BY AppendPlaces
  <1> HIDE DEF r
  <1>2. ASSUME NEW i \in Signs(r)
        PROVE  i \in Signs(q) \/ i = Len(q) + 1
    <2>1. i \in DOMAIN r /\ r[i].type = "s"
      BY DEF Signs
    <2>2. i \in DOMAIN q \/ i = Len(q) + 1
      BY <1>1, <2>1
    <2> QED  BY <1>1, <2>1, <2>2 DEF Signs
  <1> QED  BY <1>2 DEF r

LEMMA FrameBootsTold ==
  ASSUME TypeOK, Solid(Now), Told(Now), FrameBoots
  PROVE  Told(Now)'
  <1>1. Now \in Parts /\ tr \in Engines /\ tr.frame = "loading"
    BY NowTyped, NowFields DEF Solid, TypeOK, FrameBoots
  <1>2. PICK d \in ToPage: d = [type |-> "s"]
    <2>1. [type |-> "s"] \in [type: {"s"}]
      OBVIOUS
    <2>2. [type |-> "s"] \in ToPage
      BY <2>1 DEF ToPage
    <2> QED  BY <2>2
  <1>3. PICK b \in Engines: b = [tr EXCEPT !.frame = "booted"]
    <2>1. [tr EXCEPT !.frame = "booted"] \in Engines
      BY <1>1, FrameSet
    <2> QED  BY <2>1
  <1>4. /\ b.name = tr.name /\ b.ears = tr.ears /\ b.rcv = tr.rcv /\ b.frame = "booted" /\ b.facade = tr.facade
        /\ b.up = tr.up /\ b.down = tr.down
    BY <1>1, <1>3 DEF Engines
  <1>5. PICK e \in Engines: e = postMessage(b, d)
    <2>1. postMessage(b, d) \in Engines
      BY PostedTyped
    <2> QED  BY <2>1
  <1>6. e.name = b.name /\ e.ears = b.ears /\ e.rcv = b.rcv /\ e.frame = b.frame /\ e.facade = b.facade /\ e.up = b.up
    BY <1>5, PostedTyped
  <1>7. e.down = Append(b.down, d)
    BY <1>5, PostedBehind
  <1>8. PICK y \in Parts: y = [Now EXCEPT !.tr = e] /\ y.tr = e /\ y.sock = sock /\ y.srv = srv
    BY <1>1, NowFields, WithTransport
  <1>9. Become(y)
    BY <1>2, <1>3, <1>5, <1>8, NowFields DEF FrameBoots
  <1>10. Fresh(Now) /\ Young(tr)
    BY <1>1 DEF Told, Young
  <1>11. /\ Signs(tr.down) = {} /\ Signs(tr.up) = {} /\ tr.facade = "none" /\ tr.rcv = "none"
         /\ srv.state = "none" /\ srv.wire = <<>> /\ srv.sent = srv.base
    BY <1>1, <1>10, NowFields DEF Fresh
  <1>12. /\ y.tr.down = Append(tr.down, d) /\ y.tr.up = tr.up /\ y.tr.facade = "none" /\ y.tr.rcv = "none"
         /\ y.tr.frame = "booted" /\ y.tr.name = tr.name /\ y.tr.ears = tr.ears
    BY <1>4, <1>6, <1>7, <1>8, <1>11
  <1>13. Fed(y.tr) = Fed(tr)
    BY <1>11, <1>12 DEF Fed
  <1>14. d.type = "s"
    BY <1>2
  <1>15. More1(Line(Now), Line(y), Shown(d)) /\ Shown(d).type = "h"
    BY <1>1, <1>8, <1>11, <1>12, <1>13, <1>14, NowFields, PostLine, ShownTyped
  <1>16. Posts(Now, y)
    BY <1>8, <1>12, <1>15, NowFields, TalkItself DEF Posts, Alive
  <1>17. Fresh(y)
    <2>1. tr.down \in Seq(ToPage)
      BY <1>1 DEF Engines
    <2>2. \A i \in Signs(y.tr.down): i = Len(tr.down) + 1
      BY <1>11, <1>12, <2>1, SignsMore
    <2>3. Signs(y.tr.up) = {}
      BY <1>11, <1>12
    <2> QED  BY <1>8, <1>11, <1>12, <2>2, <2>3 DEF Fresh
  <1>18. Told(y)
    BY <1>1, <1>16, <1>17, PostsTold
  <1> QED  BY <1>9, <1>18, BecameTold

\* The iframe transport closes itself and says so.
LEMMA FrameEndsTold ==
  ASSUME NEW x \in Parts, Phase(x), Told(x), Tidy(x.tr), x.tr.frame \in {"loading", "booted", "up"}, NEW code,
         Become(FrameEmits([x EXCEPT !.tr = [TransportClose(x.tr) EXCEPT !.ears = x.tr.ears]], code))
  PROVE  Told(Now)'
  <1>1. x.tr \in Engines
    BY Fields
  <1>2. PICK f \in Engines: f = [TransportClose(x.tr) EXCEPT !.ears = x.tr.ears]
    BY <1>1, FrameCloses
  <1>3. /\ f.frame = "removing" /\ f.ears = x.tr.ears /\ f.name = x.tr.name /\ f.facade = x.tr.facade
        /\ f.rcv = x.tr.rcv /\ f.down = x.tr.down
    BY <1>1, <1>2, FrameCloses
  <1>4. f.up = Append(x.tr.up, [type |-> "c"])
    BY <1>1, <1>2, FrameCloses
  <1>5. PICK y \in Parts: y = [x EXCEPT !.tr = f] /\ y.tr = f /\ y.sock = x.sock /\ y.srv = x.srv
    BY WithTransport
  <1>6. PICK d \in ToFrame: d = [type |-> "c"]
    BY CloseMessage
  <1>7. d.type # "s"
    BY <1>6
  <1>8. f.up = Append(x.tr.up, d)
    BY <1>4, <1>6
  <1>9. Still(x.tr, f)
    BY <1>1, <1>3, <1>7, <1>8, UpStill
  <1>10. Told(y)
    <2>1. Quiet(x, y)
      BY <1>3, <1>5, <1>9, TalkItself DEF Quiet
    <2> QED  BY <2>1, QuietTold
  <1>11. y.sock.transport \/ ~y.tr.ears
    BY <1>3, <1>5 DEF Phase
  <1>12. Told(_transportClose(y, code)) /\ _transportClose(y, code) \in Parts
    BY <1>10, <1>11, TransportEndTold, TransportEndTyped
  <1>13. Become(FrameEmits(y, code))
    BY <1>2, <1>5
  <1>14. FrameEmits(y, code) = y \/ FrameEmits(y, code) = _transportClose(y, code)
    BY DEF FrameEmits
  <1> QED  BY <1>10, <1>12, <1>13, <1>14, BecameTold

LEMMA FrameFailsTold ==
  ASSUME TypeOK, Solid(Now), Told(Now), FrameFails
  PROVE  Told(Now)'
  <1>1. Now \in Parts /\ Phase(Now) /\ Tidy(Now.tr) /\ Now.tr.frame \in {"loading", "booted", "up"}
    BY NowTyped, NowFields DEF Solid, Calm, FrameFails
  <1>2. Become(FrameEmits([Now EXCEPT !.tr = [TransportClose(Now.tr) EXCEPT !.ears = Now.tr.ears]], 1006))
    BY NowFields DEF FrameFails
  <1> QED  BY <1>1, <1>2, FrameEndsTold

LEMMA StaysHears ==
  ASSUME NEW z \in Parts, NEW f, Silent(f) \/ ~z.tr.ears
  PROVE  Hears(z, f, z)
  BY Fields, SameStill DEF Hears

LEMMA TailSigns ==
  ASSUME NEW S, NEW q \in Seq(S), q # <<>>
  PROVE  /\ \A i \in Signs(Tail(q)): i \in Nat \ {0} /\ i + 1 \in Signs(q)
         /\ Head(q).type = "s" => 1 \in Signs(q)
  <1> DEFINE r == Tail(q)
  <1>1. /\ Len(q) \in Nat /\ Len(q) > 0 /\ DOMAIN q = 1..Len(q) /\ DOMAIN r = 1..(Len(q) - 1)
        /\ \A i \in 1..(Len(q) - 1): r[i] = q[i + 1]
        /\ Head(q) = q[1]
    BY HeadTailProperties, LenProperties
  <1> HIDE DEF r
  <1>2. ASSUME NEW i \in Signs(r)
        PROVE  i \in Nat \ {0} /\ i + 1 \in Signs(q)
    <2>1. i \in 1..(Len(q) - 1) /\ r[i].type = "s"
      BY <1>1 DEF Signs
    <2>2. i + 1 \in DOMAIN q /\ q[i + 1].type = "s"
      BY <1>1, <2>1
    <2> QED  BY <2>1, <2>2 DEF Signs
  <1>3. Head(q).type = "s" => 1 \in Signs(q)
    <2>1. 1 \in DOMAIN q
      BY <1>1
    <2> QED  BY <1>1, <2>1 DEF Signs
  <1> QED  BY <1>2, <1>3 DEF r

LEMMA PageReceivesTold ==
  ASSUME TypeOK, Solid(Now), Told(Now), PageReceives
  PROVE  Told(Now)'
  <1>1. /\ Now \in Parts /\ Phase(Now) /\ tr \in Engines /\ Tidy(tr)
        /\ tr.frame \in {"booted", "up"} /\ tr.down # <<>>
    BY NowTyped, NowFields DEF Solid, TypeOK, Calm, PageReceives
  <1>2. PICK msg \in ToPage: msg = Head(tr.down)
    <2>1. tr.down \in Seq(ToPage)
      BY <1>1 DEF Engines
    <2> QED  BY <1>1, <2>1, TailTyped
  <1>3. PICK e \in Engines: e = [tr EXCEPT !.down = Tail(@)]
    <2>1. [tr EXCEPT !.down = Tail(@)] \in Engines
      BY <1>1, HeardTyped
    <2> QED  BY <2>1
  <1>4. /\ e.name = tr.name /\ e.ears = tr.ears /\ e.rcv = tr.rcv /\ e.frame = tr.frame /\ e.facade = tr.facade
        /\ e.up = tr.up /\ e.down = Tail(tr.down)
    BY <1>1, <1>3, HeardTyped
  <1>5. tr.name # "none" /\ Framed(tr.name)
    BY <1>1, EarsNamed DEF Tidy
  <1>6. Tidy(e)
    <2>1. e.snd = tr.snd /\ e.left = tr.left
      BY <1>1, <1>3, HeardTyped
    <2> QED  BY <1>1, <1>4, <1>5, <2>1 DEF Tidy
  <1>7. Fewer(tr.down, Tail(tr.down))
    <2>1. tr.down \in Seq(ToPage)
      BY <1>1 DEF Engines
    <2> QED  BY <1>1, <2>1, FewerTail
  <1>8. PICK z \in Parts: z = [Now EXCEPT !.tr = e] /\ z.tr = e /\ z.sock = sock /\ z.srv = srv
    BY <1>1, NowFields, WithTransport
  <1>9. Fed(z.tr) = Fed(tr)
    BY <1>4, <1>8 DEF Fed
  <1>10. Rest1(Line(Now), Line(z)) /\ Line(Now)[1] = Shown(msg)
    BY <1>1, <1>2, <1>4, <1>8, <1>9, NowFields, PageLine
  <1>11. ASSUME NEW y \in Parts, Hears(z, Line(Now)[1], y), tr.ears \/ (y.sock.events = sock.events /\ ~y.tr.ears)
         PROVE  Told(y)
    <2>1. SameTalk(Now.srv, z.srv) /\ Fewer(Now.tr.down, z.tr.down)
      BY <1>4, <1>7, <1>8, NowFields, TalkItself
    <2>2. /\ z.sock = Now.sock /\ z.tr.name = Now.tr.name /\ z.tr.ears = Now.tr.ears /\ z.tr.facade = Now.tr.facade
          /\ z.tr.rcv = Now.tr.rcv /\ z.tr.frame = Now.tr.frame /\ z.tr.up = Now.tr.up
          /\ (Now.srv.wire = <<>> => z.srv.wire = <<>>) /\ Now.tr.name # "none"
          /\ (Now.tr.ears \/ (y.sock.events = Now.sock.events /\ ~y.tr.ears))
      BY <1>4, <1>5, <1>8, <1>11, NowFields
    <2> QED  BY <1>1, <1>10, <1>11, <2>1, <2>2, FrameTold
  <1>12. ASSUME Silent(Shown(msg)) \/ ~e.ears
         PROVE  Told(z)
    <2>1. Hears(z, Line(Now)[1], z)
      BY <1>8, <1>10, <1>12, StaysHears
    <2>2. tr.ears \/ (z.sock.events = sock.events /\ ~z.tr.ears)
      BY <1>4, <1>8
    <2> QED  BY <1>11, <2>1, <2>2
  <1>13. CASE msg.type = "t"
    <2>1. PICK does \in Does: Become(IF e.ears THEN _transportMessage(z, msg.frame, does) ELSE z)
      BY <1>2, <1>3, <1>8, <1>13 DEF PageReceives
    <2>2. CASE ~e.ears
      BY <1>12, <2>1, <2>2, BecameTold
    <2>3. CASE e.ears
      <3>1. msg.frame \in Frames /\ Shown(msg) = msg.frame
        BY <1>13, ToPageKinds DEF Shown
      <3>2. Phase(z)
        <4>1. Now.sock.ir => z.tr = Now.tr
          BY <1>1, <1>5, NowFields, FramedNotInfo
        <4> QED  BY <1>1, <1>4, <1>8, <4>1, NowFields, PhaseKept DEF Moves
      <3>3. z.sock.transport
        BY <1>8, <2>3, <3>2 DEF Phase
      <3>4. PICK y \in Parts: y = _transportMessage(z, msg.frame, does)
        BY <3>1, MessageKeeps
      <3>5. Hears(z, msg.frame, y)
        BY <3>1, <3>2, <3>3, <3>4, MessageHears
      <3>6. Told(y)
        BY <1>4, <1>10, <1>11, <2>3, <3>1, <3>5
      <3> QED  BY <2>1, <2>3, <3>4, <3>6, BecameTold
    <2> QED  BY <2>2, <2>3
  <1>14. CASE msg.type = "c"
    <2>1. Become(FrameEmits([Now EXCEPT !.tr = [TransportClose(e) EXCEPT !.ears = tr.ears]], msg.code))
      BY <1>2, <1>3, <1>14 DEF PageReceives
    <2>2. [Now EXCEPT !.tr = [TransportClose(e) EXCEPT !.ears = tr.ears]]
            = [z EXCEPT !.tr = [TransportClose(z.tr) EXCEPT !.ears = z.tr.ears]]
      <3>1. z.tr = e /\ z.tr.ears = tr.ears
        BY <1>4, <1>8
      <3>2. \A f: [Now EXCEPT !.tr = f] = [z EXCEPT !.tr = f]
        BY <1>1, <1>8 DEF Parts
      <3> QED  BY <3>1, <3>2
    <2>3. Silent(Shown(msg))
      BY <1>14, ShownTyped DEF Silent
    <2>4. Told(z)
      BY <1>12, <2>3
    <2>5. Phase(z)
      <3>1. Now.sock.ir => z.tr = Now.tr
        BY <1>1, <1>5, NowFields, FramedNotInfo
      <3> QED  BY <1>1, <1>4, <1>8, <3>1, NowFields, PhaseKept DEF Moves
    <2>6. Tidy(z.tr) /\ z.tr.frame \in {"loading", "booted", "up"}
      BY <1>1, <1>4, <1>6, <1>8
    <2> QED  BY <2>1, <2>2, <2>4, <2>5, <2>6, FrameEndsTold
  <1>15. CASE msg.type = "s"
    <2>1. PICK f \in Engines: f = [e EXCEPT !.frame = "up", !.up = Append(@, [type |-> "s"])]
      <3>1. [e EXCEPT !.frame = "up", !.up = Append(@, [type |-> "s"])] \in Engines
        BY UpTyped
      <3> QED  BY <3>1
    <2>2. /\ f.name = tr.name /\ f.ears = tr.ears /\ f.rcv = tr.rcv /\ f.frame = "up" /\ f.facade = tr.facade
          /\ f.down = Tail(tr.down) /\ f.up = Append(tr.up, [type |-> "s"])
      BY <1>4, <2>1, UpTyped
    <2>3. PICK y \in Parts: y = [Now EXCEPT !.tr = f] /\ y.tr = f /\ y.sock = sock /\ y.srv = srv
      BY <1>1, NowFields, WithTransport
    <2>4. Become(y)
      BY <1>2, <1>3, <1>15, <2>1, <2>3 DEF PageReceives
    <2>5. Fed(y.tr) = Fed(tr)
      BY <2>2, <2>3 DEF Fed
    <2>6. Rest1(Line(Now), Line(y)) /\ Line(Now)[1] = Shown(msg)
      BY <1>1, <1>2, <2>2, <2>3, <2>5, NowFields, PageLine
    <2>7. Silent(Shown(msg))
      BY <1>15, ShownTyped DEF Silent
    <2>8. Alive(y.tr) => Alive(tr)
      BY <2>2, <2>3, <2>5 DEF Alive
    <2>9. Taking(Now, y)
      BY <2>2, <2>3, <2>6, <2>7, <2>8, NowFields, TalkItself DEF Taking
    <2>10. 1 \in Signs(tr.down) /\ \A i \in Signs(Tail(tr.down)): i \in Nat \ {0} /\ i + 1 \in Signs(tr.down)
      <3>1. tr.down \in Seq(ToPage)
        BY <1>1 DEF Engines
      <3> QED  BY <1>1, <1>2, <1>15, <3>1, TailSigns
    <2>11. Fresh(Now) /\ Young(tr)
      BY <2>10 DEF Told, Young
    <2>12. /\ Signs(tr.up) = {} /\ (\A i, j \in Signs(tr.down): i = j)
           /\ tr.facade = "none" /\ tr.rcv = "none" /\ srv.state = "none" /\ srv.wire = <<>> /\ srv.sent = srv.base
      BY <2>10, <2>11, NowFields DEF Fresh
    <2>13. Signs(y.tr.down) = {}
      <3>1. ASSUME NEW i \in Signs(Tail(tr.down)) PROVE FALSE
        <4>1. i + 1 = 1 /\ i \in Nat \ {0}
          BY <2>10, <2>12
        <4> QED  BY <4>1
      <3>2. Signs(Tail(tr.down)) = {}
        BY <3>1
      <3> QED  BY <2>2, <2>3, <3>2
    <2>14. \A i \in Signs(y.tr.up): i = Len(tr.up) + 1
      <3>1. tr.up \in Seq(ToFrame) /\ [type |-> "s"] \in ToFrame
        BY <1>1, CloseMessage DEF Engines
      <3>2. PICK d \in ToFrame: d = [type |-> "s"]
        BY <3>1
      <3>3. y.tr.up = Append(tr.up, d)
        BY <2>2, <2>3, <3>2
      <3> QED  BY <2>12, <3>1, <3>3, SignsMore
    <2>15. Fresh(y)
      BY <2>2, <2>3, <2>12, <2>13, <2>14 DEF Fresh
    <2>16. Heard(y)
      BY <1>1, <2>9, TakingHeard DEF Told
    <2>17. Listed(y) /\ OpenFirst(y)
      BY <2>2, <2>3, NowFields DEF Told, Listed, OpenFirst
    <2>18. Told(y)
      BY <2>15, <2>16, <2>17 DEF Told
    <2> QED  BY <2>4, <2>18, BecameTold
  <1> QED  BY <1>13, <1>14, <1>15, ToPageKinds

LEMMA UpTaken ==
  ASSUME NEW e \in Engines, e.up # <<>>
  PROVE  LET r == [e EXCEPT !.up = Tail(@)] IN
         /\ r \in Engines /\ r.name = e.name /\ r.ears = e.ears /\ r.rcv = e.rcv /\ r.frame = e.frame
         /\ r.facade = e.facade /\ r.down = e.down /\ r.up = Tail(e.up)
  <1>1. e.up \in Seq(ToFrame)
    BY DEF Engines
  <1>2. Tail(e.up) \in Seq(ToFrame)
    BY <1>1, TailTyped
  <1> QED  BY <1>2 DEF Engines

\* What the iframe does with a message of the page.
LEMMA FrameGetsFields ==
  ASSUME NEW e \in Engines, e.up # <<>>, NEW refused \in BOOLEAN
  PROVE  LET d == Head(e.up)
             f == FrameReceives(e, d, refused)
         IN  /\ f.name = e.name /\ f.ears = e.ears /\ f.frame = e.frame /\ f.down = e.down /\ f.up = Tail(e.up)
             /\ \/ f.rcv = e.rcv /\ f.facade = e.facade
                \/ d.type = "s" /\ f.rcv = "scheduled" /\ f.facade = "hears"
                \/ f.rcv \in {e.rcv, "none"} /\ f.facade = "none"
  <1> DEFINE d == Head(e.up)
             f == FrameReceives(e, d, refused)
             Reacts == \/ f.rcv = e.rcv /\ f.facade = e.facade
                       \/ d.type = "s" /\ f.rcv = "scheduled" /\ f.facade = "hears"
                       \/ f.rcv \in {e.rcv, "none"} /\ f.facade = "none"
  <1>1. PICK r \in Engines: r = [e EXCEPT !.up = Tail(@)]
    <2>1. [e EXCEPT !.up = Tail(@)] \in Engines
      BY UpTaken
    <2> QED  BY <2>1
  <1>2. r.rcv = e.rcv /\ r.facade = e.facade
    BY <1>1, UpTaken
  <1>3. d \in ToFrame
    BY FramedFields
  <1>4. ASSUME d.type = "s"
        PROVE  Reacts
    <2>1. f = IF refused THEN r ELSE [r EXCEPT !.facade = "hears", !.rcv = "scheduled"]
      BY <1>1, <1>4 DEF FrameReceives
    <2>2. CASE refused
      BY <1>2, <2>1, <2>2
    <2>3. CASE ~refused
      <3>1. f = [r EXCEPT !.facade = "hears", !.rcv = "scheduled"]
        BY <2>1, <2>3
      <3>2. f.facade = "hears" /\ f.rcv = "scheduled"
        BY <3>1 DEF Engines
      <3> QED  BY <1>4, <3>2
    <2> QED  BY <2>2, <2>3
  <1>5. ASSUME d.type = "m"
        PROVE  Reacts
    <2>1. d.m \in Said
      BY <1>3, <1>5, ToFrameKinds
    <2>2. f = IF e.facade = "none" THEN r ELSE EngineSend(r, d.m)
      BY <1>1, <1>5 DEF FrameReceives
    <2>3. EngineSend(r, d.m).rcv = r.rcv /\ EngineSend(r, d.m).facade = r.facade
      BY <2>1, EngineSendKeeps
    <2> QED  BY <1>2, <2>2, <2>3
  <1>6. ASSUME d.type = "c"
        PROVE  Reacts
    <2>1. f = IF e.facade = "none" THEN r ELSE [EngineClose(r) EXCEPT !.facade = "none"]
      BY <1>1, <1>6 DEF FrameReceives
    <2>2. PICK c \in Engines: c = EngineClose(r)
      BY EngineCloseTyped
    <2>3. c.rcv \in {r.rcv, "none"}
      BY <2>2, EngineCloseKeeps
    <2>4. [c EXCEPT !.facade = "none"].facade = "none" /\ [c EXCEPT !.facade = "none"].rcv = c.rcv
      BY DEF Engines
    <2> QED  BY <1>2, <2>1, <2>2, <2>3, <2>4
  <1>7. f.name = e.name /\ f.ears = e.ears /\ f.frame = e.frame /\ f.down = e.down /\ f.up = Tail(e.up)
    BY FramedFields
  <1>8. Reacts
    <2> HIDE DEF Reacts
    <2>1. d.type \in {"s", "m", "c"}
      BY <1>3, ToFrameKinds
    <2> QED  BY <1>4, <1>5, <1>6, <2>1
  <1> QED  BY <1>7, <1>8, Zenon

\* The facade is made: the server has not heard of it yet.
LEMMA FacadeTold ==
  ASSUME NEW x \in Parts, Told(x), Framed(x.tr.name), x.tr.up # <<>>, Head(x.tr.up).type = "s", x.tr.frame # "loading",
         NEW y \in Parts, y.sock = x.sock, y.srv = x.srv, y.tr.name = x.tr.name, y.tr.ears = x.tr.ears,
         y.tr.frame = x.tr.frame, y.tr.down = x.tr.down, y.tr.up = Tail(x.tr.up),
         y.tr.rcv = "scheduled"
  PROVE  Told(y)
  <1> DEFINE ev == x.sock.events
             rs == x.sock.readyState
  <1>1. 1 \in Signs(x.tr.up) /\ \A i \in Signs(Tail(x.tr.up)): i \in Nat \ {0} /\ i + 1 \in Signs(x.tr.up)
    <2>1. x.tr.up \in Seq(ToFrame)
      BY Fields DEF Engines
    <2> QED  BY <2>1, TailSigns
  <1>2. Fresh(x) /\ Young(x.tr) /\ Heard(x) /\ Listed(x) /\ OpenFirst(x)
    BY <1>1 DEF Told, Young
  <1>3. /\ Signs(x.tr.down) = {} /\ (\A i, j \in Signs(x.tr.up): i = j)
        /\ x.tr.facade = "none" /\ x.tr.rcv = "none" /\ x.srv.state = "none" /\ x.srv.wire = <<>> /\ x.srv.sent = x.srv.base
    BY <1>1, <1>2 DEF Fresh
  <1>4. Signs(y.tr.up) = {}
    <2>1. ASSUME NEW i \in Signs(Tail(x.tr.up)) PROVE FALSE
      <3>1. i + 1 = 1 /\ i \in Nat \ {0}
        BY <1>1, <1>3
      <3> QED  BY <3>1
    <2>2. Signs(Tail(x.tr.up)) = {}
      BY <2>1
    <2> QED  BY <2>2
  <1>5. Fresh(y)
    BY <1>3, <1>4 DEF Fresh, Young
  <1>6. Cut(Line(x), Line(y))
    BY <1>3, LineCut
  <1>7. ~Alive(x.tr)
    BY <1>3 DEF Alive
  <1>8. Sorted(Line(y), ev, y.srv)
    BY <1>2, <1>6, CutSorted DEF Heard
  <1>9. ASSUME Complete(Line(x), ev, x.srv, rs, x.tr)
        PROVE  Complete(Line(y), ev, y.srv, rs, y.tr)
    <2>1. Complete(Line(y), ev, x.srv, rs, x.tr)
      BY <1>6, <1>7, <1>9, CutComplete
    <2>2. x.srv.sent \in 0..MaxMessages /\ x.srv.base = x.srv.sent
      BY <1>3, Fields DEF Sessions
    <2>3. \A k \in (x.srv.base + 1)..x.srv.sent: FALSE
      BY <2>2, BoundsAssumption
    <2>4. Joined(Line(y), ev, x.srv, rs)
      BY <1>3, <2>3 DEF Joined
    <2> QED  BY <2>1, <2>4 DEF Complete
  <1>10. Heard(y)
    BY <1>2, <1>8, <1>9 DEF Heard, Exact
  <1>11. Listed(y) /\ OpenFirst(y)
    BY <1>2 DEF Listed, OpenFirst
  <1> QED  BY <1>5, <1>10, <1>11 DEF Told

LEMMA FrameGetsTold ==
  ASSUME TypeOK, Solid(Now), Told(Now), FrameGets
  PROVE  Told(Now)'
  <1>1. /\ Now \in Parts /\ Tidy(tr) /\ tr \in Engines
        /\ tr.frame \in {"up", "removing"} /\ tr.up # <<>>
    BY NowTyped, NowFields DEF Solid, TypeOK, Calm, FrameGets
  <1>2. PICK refused \in BOOLEAN: Become([Now EXCEPT !.tr = FrameReceives(@, Head(tr.up), refused)])
    BY DEF FrameGets
  <1>3. PICK e \in Engines: e = FrameReceives(tr, Head(tr.up), refused)
    <2>1. FrameReceives(tr, Head(tr.up), refused) \in Engines
      BY <1>1, FrameReceivesTyped
    <2> QED  BY <2>1
  <1>4. /\ e.name = tr.name /\ e.ears = tr.ears /\ e.frame = tr.frame /\ e.down = tr.down /\ e.up = Tail(tr.up)
        /\ \/ e.rcv = tr.rcv /\ e.facade = tr.facade
           \/ Head(tr.up).type = "s" /\ e.rcv = "scheduled" /\ e.facade = "hears"
           \/ e.rcv \in {tr.rcv, "none"} /\ e.facade = "none"
    BY <1>1, <1>3, FrameGetsFields
  <1>5. tr.name # "none" /\ Framed(tr.name)
    BY <1>1, EarsNamed DEF Tidy
  <1>6. PICK y \in Parts: y = [Now EXCEPT !.tr = e] /\ y.tr = e /\ y.sock = sock /\ y.srv = srv
    BY <1>1, NowFields, WithTransport
  <1>7. Become(y)
    BY <1>2, <1>3, <1>6, NowFields
  <1>8. Fewer(tr.up, e.up) /\ Fewer(tr.down, e.down)
    <2>1. tr.up \in Seq(ToFrame) /\ tr.down \in Seq(ToPage)
      BY <1>1 DEF Engines
    <2> QED  BY <1>1, <1>4, <2>1, FewerTail, FewerSame
  <1>9. CASE e.rcv = tr.rcv /\ e.facade = tr.facade
    <2>1. Still(tr, e)
      BY <1>4, <1>8, <1>9 DEF Still
    <2>2. Quiet(Now, y)
      BY <1>4, <1>6, <2>1, NowFields, TalkItself DEF Quiet
    <2> QED  BY <1>7, <2>2, QuietStep
  <1>10. CASE Head(tr.up).type = "s" /\ e.rcv = "scheduled" /\ e.facade = "hears"
    <2>1. Told(y)
      BY <1>1, <1>4, <1>5, <1>6, <1>10, NowFields, FacadeTold
    <2> QED  BY <1>7, <2>1, BecameTold
  <1>11. CASE e.rcv \in {tr.rcv, "none"} /\ e.facade = "none"
    <2>1. ~Fed(y.tr)
      BY <1>4, <1>5, <1>6, <1>11 DEF Fed
    <2>2. Cut(Line(Now), Line(y))
      BY <1>1, <1>4, <1>6, <2>1, NowFields, LineCut
    <2>3. Hushed(Now, y)
      BY <1>4, <1>6, <2>1, <2>2, NowFields, TalkItself DEF Hushed, Alive
    <2>4. Calmer(Now, y)
      BY <1>4, <1>6, <1>8, <1>11, NowFields DEF Calmer
    <2>5. Told(y)
      BY <1>1, <1>6, <2>3, <2>4, NowFields, HushedTold
    <2> QED  BY <1>7, <2>5, BecameTold
  <1> QED  BY <1>4, <1>9, <1>10, <1>11

LEMMA NoLine ==
  ASSUME NEW x \in Parts, NEW y \in Parts, y.tr.down = <<>>, y.srv.wire = <<>>
  PROVE  Cut(Line(x), Line(y))
  <1>1. PICK d, n \in Nat: Spanned(x, d, n)
    BY Spans
  <1>2. PICK c, k \in Nat: Spanned(y, c, k)
    BY Spans
  <1>3. c = 0 /\ k = 0
    <2>1. c = Len(y.tr.down) /\ (Fed(y.tr) => k = c + Len(y.srv.wire)) /\ (~Fed(y.tr) => k = c)
      BY <1>2 DEF Spanned
    <2>2. Len(y.tr.down) = 0 /\ Len(y.srv.wire) = 0
      BY EmptyTyped
    <2> QED  BY <2>1, <2>2
  <1>4. DOMAIN Line(x) = 1..n /\ DOMAIN Line(y) = 1..0
    BY <1>1, <1>2, <1>3 DEF Spanned
  <1>5. 0 <= n /\ 0 \in Nat /\ \A p \in 1..0: Line(y)[p] = Line(x)[p]
    BY <1>1
  <1> QED  BY <1>4, <1>5 DEF Cut

LEMMA FrameRemovedTold ==
  ASSUME TypeOK, TypeOK', Told(Now), FrameRemoved
  PROVE  Told(Now)'
  <1>1. Now \in Parts /\ tr \in Engines /\ tr.frame = "removing" /\ srv \in Sessions
    BY NowTyped DEF TypeOK, FrameRemoved
  <1>2. /\ tr' = Removed(tr) /\ sock' = sock /\ srv' = [srv EXCEPT !.wire = <<>>] /\ place' = place
    BY DEF FrameRemoved, Become, Now
  <1>3. PICK y \in Parts: Become(y) /\ y.sock = sock' /\ y.tr = tr' /\ y.srv = srv'
    BY <1>2, Arrives
  <1>4. /\ y.srv.state = srv.state /\ y.srv.queue = srv.queue /\ y.srv.wire = <<>>
        /\ y.srv.sent = srv.sent /\ y.srv.base = srv.base
    BY <1>1, <1>2, <1>3 DEF Sessions
  <1>5. PICK e \in Engines: e = Removed(tr)
    <2>1. Removed(tr) \in Engines
      BY <1>1, RemovedTyped
    <2> QED  BY <2>1
  <1>6. /\ e.name = tr.name /\ e.ears = tr.ears /\ e.rcv = "none" /\ e.frame = "gone"
        /\ e.facade = "none" /\ e.up = <<>> /\ e.down = <<>>
    BY <1>5, NoneTyped, NoneFields DEF Removed, Engines
  <1>7. y.tr = e /\ y.sock = sock
    BY <1>2, <1>3, <1>5
  <1>8. Cut(Line(Now), Line(y))
    BY <1>1, <1>4, <1>6, <1>7, NoLine
  <1>9. Hushed(Now, y)
    <2>1. SameTalk(Now.srv, y.srv)
      BY <1>4, NowFields DEF SameTalk
    <2> QED  BY <1>6, <1>7, <1>8, <2>1, NowFields DEF Hushed, Alive
  <1>10. Calmer(Now, y)
    <2>1. Fewer(tr.up, <<>>) /\ Fewer(tr.down, <<>>)
      <3>1. tr.up \in Seq(ToFrame) /\ tr.down \in Seq(ToPage)
        BY <1>1 DEF Engines
      <3> QED  BY <3>1, FewerSame
    <2> QED  BY <1>4, <1>6, <1>7, <2>1, NowFields DEF Calmer
  <1>11. Told(y)
    BY <1>1, <1>7, <1>9, <1>10, NowFields, HushedTold
  <1> QED  BY <1>3, <1>11, BecameTold

-----------------------------------------------------------------------------
\* The server.

LEMMA QueuedLess ==
  ASSUME NEW L, NEW ev, NEW s, NEW t, Sorted(L, ev, s), t.sent = s.sent, t.base = s.base,
         Within(t.queue) \subseteq Within(s.queue), Ascending(t.queue)
  PROVE  Sorted(L, ev, t)
  BY DEF Sorted, Older

LEMMA NothingWithin == Within(<<>>) = {} /\ Ascending(<<>>)
  BY NoneLeft DEF Within

LEMMA SessionTold ==
  ASSUME NEW x \in Parts, NEW z \in Parts, Told(x), z.sock = x.sock, z.tr = x.tr, z.srv.base = x.srv.base,
         Sorted(Line(z), x.sock.events, z.srv),
         Complete(Line(x), x.sock.events, x.srv, x.sock.readyState, x.tr) =>
             Complete(Line(z), x.sock.events, z.srv, x.sock.readyState, x.tr),
         x.srv.state # "none" \/ x.tr.rcv # "none", x.tr.rcv = "pause" => z.srv.wire = <<>>
  PROVE  Told(z)
  <1>1. Heard(x) /\ Fresh(x) /\ Listed(x) /\ OpenFirst(x)
    BY DEF Told
  <1>2. Heard(z)
    BY <1>1 DEF Heard, Unbroken
  <1>3. ~Young(x.tr)
    BY <1>1 DEF Fresh
  <1>4. Fresh(z)
    BY <1>1, <1>3 DEF Fresh
  <1>5. Listed(z) /\ OpenFirst(z)
    BY <1>1 DEF Listed, OpenFirst
  <1> QED  BY <1>2, <1>4, <1>5 DEF Told

\* What was queued goes into a frame f, or f says something else.
LEMMA WrittenTold ==
  ASSUME NEW x \in Parts, Told(x), x.tr.rcv = "waiting", NEW f \in OnWire,
         NEW z \in Parts, z.sock = x.sock, z.tr = x.tr, z.srv.wire = Append(x.srv.wire, f),
         z.srv.sent = x.srv.sent, z.srv.base = x.srv.base,
         \/ /\ f.type # "a" /\ z.srv.queue = x.srv.queue
            /\ z.srv.state = x.srv.state \/ (f.type = "o" /\ x.srv.state = "none")
         \/ /\ f.type = "a" /\ f.msgs = x.srv.queue /\ z.srv.queue = <<>>
            /\ z.srv.state = x.srv.state /\ x.srv.state # "none"
  PROVE  Told(z)
  <1> DEFINE ev == x.sock.events
             rs == x.sock.readyState
             s == x.srv
             t == z.srv
  <1>1. Heard(x) /\ Sorted(Line(x), ev, s)
    BY DEF Told, Heard
  <1>2. /\ Msgs(f) \cup Within(t.queue) = Within(s.queue) /\ Ascending(t.queue)
        /\ f.type = "a" => Ascending(f.msgs) /\ Msgs(f) = Within(s.queue)
        /\ Older(Msgs(f), Within(t.queue))
    <2>1. Ascending(s.queue)
      BY <1>1 DEF Sorted
    <2>2. CASE f.type # "a" /\ z.srv.queue = x.srv.queue
      <3>1. Msgs(f) = {}
        BY <2>2, NoMessages
      <3> QED  BY <2>1, <2>2, <3>1 DEF Older
    <2>3. CASE f.type = "a" /\ f.msgs = x.srv.queue /\ z.srv.queue = <<>>
      <3>1. Msgs(f) = Within(s.queue)
        BY <2>3, FrameMsgs
      <3> QED  BY <2>1, <2>3, <3>1, NothingWithin DEF Older
    <2> QED  BY <2>2, <2>3
  <1>3. CASE Fed(x.tr)
    <2>1. More1(Line(x), Line(z), f)
      BY <1>3, WroteLine
    <2>2. Sorted(Line(z), ev, t)
      <3>1. Msgs(f) \cup Within(t.queue) \subseteq Within(s.queue)
        BY <1>2
      <3> QED  BY <1>1, <1>2, <2>1, <3>1, MoreSorted
    <2>3. ASSUME Complete(Line(x), ev, s, rs, x.tr)
          PROVE  Complete(Line(z), ev, t, rs, x.tr)
      <3>1. Alive(x.tr)
        BY <1>3 DEF Alive
      <3>2. NoGap(Line(x), ev, s, rs) /\ OpenAhead(Line(x), rs) /\ Joined(Line(x), ev, s, rs)
        BY <2>3, <3>1 DEF Complete
      <3>3. ASSUME f.type = "a"
            PROVE  /\ Begun(Line(x), rs)
                   /\ (\A p \in DOMAIN Line(x): Passes(Line(x), rs, p)) =>
                         \A m \in Msgs(f): \A k \in (s.base + 1)..m:
                            k \in Seen(ev) \/ k \in Msgs(f) \/ \E p \in DOMAIN Line(x): k \in Msgs(Line(x)[p])
        <4>1. s.state # "none" /\ Msgs(f) = Within(s.queue)
          BY <1>2, <3>3
        <4>2. Begun(Line(x), rs)
          BY <3>2, <4>1 DEF Joined
        <4>3. ASSUME \A p \in DOMAIN Line(x): Passes(Line(x), rs, p), NEW m \in Msgs(f), NEW k \in (s.base + 1)..m
              PROVE  k \in Seen(ev) \/ k \in Msgs(f) \/ \E p \in DOMAIN Line(x): k \in Msgs(Line(x)[p])
          <5>1. m \in (s.base + 1)..s.sent
            BY <1>1, <4>1 DEF Sorted
          <5>2. s.base \in Nat /\ s.sent \in Nat
            BY Fields, BoundsAssumption DEF Sessions
          <5>3. k \in (s.base + 1)..s.sent
            BY <5>1, <5>2
          <5> QED  BY <3>2, <4>1, <4>3, <5>3 DEF Joined
        <4> QED  BY <4>2, <4>3
      <3>4. NoGap(Line(z), ev, t, rs) /\ OpenAhead(Line(z), rs)
        BY <2>1, <3>2, <3>3, MoreNoGap
      <3>5. Joined(Line(z), ev, t, rs)
        <4>1. Within(s.queue) \subseteq Msgs(f) \cup Within(t.queue)
          BY <1>2
        <4>2. t.state = s.state \/ (f.type = "o" /\ s.state = "none")
          OBVIOUS
        <4> QED  BY <2>1, <3>2, <4>1, <4>2, MoreJoined
      <3> QED  BY <3>4, <3>5 DEF Complete
    <2> QED  BY <2>2, <2>3, SessionTold
  <1>4. CASE ~Fed(x.tr)
    <2>1. Cut(Line(x), Line(z))
      BY <1>4, LineCut
    <2>2. Sorted(Line(z), ev, s)
      BY <1>1, <2>1, CutSorted
    <2>3. Sorted(Line(z), ev, t)
      BY <1>2, <2>2, QueuedLess
    <2>4. ASSUME Complete(Line(x), ev, s, rs, x.tr)
          PROVE  Complete(Line(z), ev, t, rs, x.tr)
      <3>1. ~Alive(x.tr)
        BY <1>4 DEF Alive
      <3>2. Complete(Line(z), ev, s, rs, x.tr)
        BY <2>1, <2>4, <3>1, CutComplete
      <3> QED  BY <3>1, <3>2 DEF Complete, NoGap
    <2> QED  BY <2>3, <2>4, SessionTold
  <1> QED  BY <1>3, <1>4

\* The server goes on without a word.
LEMMA UnwrittenTold ==
  ASSUME NEW x \in Parts, Told(x), x.srv.state # "none",
         NEW z \in Parts, z.sock = x.sock, z.tr = x.tr, z.srv.wire = x.srv.wire, z.srv.base = x.srv.base,
         \/ /\ z.srv.sent = x.srv.sent + 1 /\ z.srv.queue = Append(x.srv.queue, x.srv.sent + 1)
            /\ z.srv.state = x.srv.state
         \/ z.srv.sent = x.srv.sent /\ z.srv.queue = x.srv.queue /\ z.srv.state # "none"
         \/ z.srv.sent = x.srv.sent /\ z.srv.queue = <<>> /\ z.srv.state = "none"
  PROVE  Told(z)
  <1> DEFINE ev == x.sock.events
             rs == x.sock.readyState
             s == x.srv
             t == z.srv
             L == Line(x)
  <1>1. Heard(x) /\ Fresh(x) /\ Sorted(L, ev, s)
    BY DEF Told, Heard
  <1>2. Line(z) = L
    BY LineSame
  <1>3. s.sent \in Nat /\ s.base \in Nat /\ s \in Sessions /\ t \in Sessions
    <2>1. s.sent \in 0..MaxMessages /\ s.base \in 0..MaxMessages /\ s \in Sessions /\ t \in Sessions
      BY Fields DEF Sessions
    <2> QED  BY <2>1, BoundsAssumption
  <1> HIDE DEF L
  <1>4. CASE t.sent = s.sent + 1 /\ t.queue = Append(s.queue, s.sent + 1) /\ t.state = s.state
    <2>1. Sorted(L, ev, t) /\ Within(t.queue) = Within(s.queue) \cup {s.sent + 1}
      <3>1. PICK a \in Sessions, b \in Sessions: a = s /\ b = t
        BY <1>3
      <3>2. Adds(a, b) /\ Sorted(L, ev, a)
        BY <1>1, <1>4, <3>1 DEF Adds
      <3>3. Sorted(L, ev, b) /\ Within(b.queue) = Within(a.queue) \cup {a.sent + 1}
        BY <3>2, SentMore
      <3> QED  BY <3>1, <3>3
    <2>2. ASSUME Joined(L, ev, s, rs) PROVE Joined(L, ev, t, rs)
      <3>1. \A k \in (t.base + 1)..t.sent: k \in (s.base + 1)..s.sent \/ k = s.sent + 1
        BY <1>3, <1>4
      <3> QED  BY <1>4, <2>1, <2>2, <3>1 DEF Joined
    <2>3. Complete(L, ev, s, rs, x.tr) => Complete(L, ev, t, rs, x.tr)
      BY <2>2 DEF Complete, NoGap
    <2> QED  BY <1>1, <1>2, <2>1, <2>3, SessionTold DEF L, Fresh
  <1>5. CASE t.sent = s.sent /\ t.queue = s.queue /\ t.state # "none"
    <2>1. Sorted(L, ev, t)
      BY <1>1, <1>5 DEF Sorted
    <2>2. Joined(L, ev, s, rs) => Joined(L, ev, t, rs)
      BY <1>5 DEF Joined
    <2>3. Complete(L, ev, s, rs, x.tr) => Complete(L, ev, t, rs, x.tr)
      BY <2>2 DEF Complete, NoGap
    <2> QED  BY <1>1, <1>2, <2>1, <2>3, SessionTold DEF L, Fresh
  <1>6. CASE t.sent = s.sent /\ t.queue = <<>> /\ t.state = "none"
    <2>1. Sorted(L, ev, t)
      BY <1>1, <1>6, QueuedLess, NothingWithin
    <2>2. Joined(L, ev, s, rs) => Joined(L, ev, t, rs)
      BY <1>6 DEF Joined
    <2>3. Complete(L, ev, s, rs, x.tr) => Complete(L, ev, t, rs, x.tr)
      BY <2>2 DEF Complete, NoGap
    <2> QED  BY <1>1, <1>2, <2>1, <2>3, SessionTold DEF L, Fresh
  <1> QED  BY <1>4, <1>5, <1>6

LEMMA ServerTold ==
  ASSUME TypeOK, TypeOK', Told(Now), Server, ~ServerGets
  PROVE  Told(Now)'
  <1>1. Now \in Parts /\ srv \in Sessions
    BY NowTyped DEF TypeOK
  <1>2. sock' = sock /\ tr' = tr /\ place' = place
    BY DEF Server, ServerOpens, ServerSends, ServerWrites, ServerBeats, ServerCloses, ServerSaysSo, ServerEnds, ServerForgets
  <1>3. PICK y \in Parts: Become(y) /\ y.sock = sock' /\ y.tr = tr' /\ y.srv = srv'
    BY <1>2, Arrives
  <1>4. y.sock = Now.sock /\ y.tr = Now.tr /\ y.srv = srv' /\ Now.srv = srv /\ Now.tr = tr
    BY <1>2, <1>3, NowFields
  <1>5. CASE ServerOpens \/ ServerWrites \/ ServerBeats \/ ServerSaysSo \/ ServerEnds
    <2>1. tr.rcv = "waiting"
      BY <1>5 DEF ServerOpens, ServerWrites, ServerBeats, ServerSaysSo, ServerEnds, Answering
    <2>2. CASE ServerWrites
      <3>1. srv.queue \in Seq(Messages) /\ srv.queue # <<>>
        BY <1>1, <2>2 DEF Sessions, ServerWrites
      <3>2. PICK f \in OnWire: f = [type |-> "a", msgs |-> srv.queue]
        BY <3>1, OnWireKinds
      <3>3. srv' = [srv EXCEPT !.wire = Append(@, f), !.queue = <<>>]
        BY <2>2, <3>2 DEF ServerWrites
      <3>4. /\ srv'.wire = Append(srv.wire, f) /\ srv'.queue = <<>> /\ srv'.state = srv.state
            /\ srv'.sent = srv.sent /\ srv'.base = srv.base
        BY <1>1, <3>3 DEF Sessions
      <3>5. f.type = "a" /\ f.msgs = srv.queue /\ srv.state # "none"
        BY <2>2, <3>2 DEF ServerWrites
      <3>6. Told(y)
        BY <1>1, <1>4, <2>1, <3>4, <3>5, WrittenTold
      <3> QED  BY <1>3, <3>6, BecameTold
    <2>3. CASE ServerOpens
      <3>1. PICK f \in OnWire: f = [type |-> "o"]
        BY OnWireKinds
      <3>2. srv' = [srv EXCEPT !.wire = Append(@, f), !.state = "open"]
        BY <2>3, <3>1 DEF ServerOpens
      <3>3. /\ srv'.wire = Append(srv.wire, f) /\ srv'.queue = srv.queue
            /\ srv'.sent = srv.sent /\ srv'.base = srv.base
        BY <1>1, <3>2 DEF Sessions
      <3>4. f.type = "o" /\ srv.state = "none"
        BY <2>3, <3>1 DEF ServerOpens
      <3>5. Told(y)
        BY <1>1, <1>4, <2>1, <3>3, <3>4, WrittenTold
      <3> QED  BY <1>3, <3>5, BecameTold
    <2>4. CASE ServerBeats \/ ServerSaysSo \/ ServerEnds
      <3>1. PICK f \in OnWire: f.type # "a" /\ Answer(f)
        <4>1. PICK h \in OnWire, c \in OnWire, d \in OnWire: h = [type |-> "h"] /\ c = [type |-> "c"] /\ d = [type |-> "end"]
          BY OnWireKinds
        <4>2. h.type = "h" /\ c.type = "c" /\ d.type = "end"
          BY <4>1
        <4>3. Answer(h) \/ Answer(c) \/ Answer(d)
          BY <2>4, <4>1 DEF ServerBeats, ServerSaysSo, ServerEnds
        <4> QED  BY <4>2, <4>3
      <3>2. srv' = [srv EXCEPT !.wire = Append(@, f)]
        BY <3>1 DEF Answer
      <3>3. /\ srv'.wire = Append(srv.wire, f) /\ srv'.queue = srv.queue /\ srv'.state = srv.state
            /\ srv'.sent = srv.sent /\ srv'.base = srv.base
        BY <1>1, <3>2 DEF Sessions
      <3>4. Told(y)
        BY <1>1, <1>4, <2>1, <3>1, <3>3, WrittenTold
      <3> QED  BY <1>3, <3>4, BecameTold
    <2> QED  BY <1>5, <2>2, <2>3, <2>4
  <1>6. CASE ServerSends
    <2>1. srv' = [srv EXCEPT !.sent = @ + 1, !.queue = Append(@, srv.sent + 1)] /\ srv.state = "open"
      BY <1>6 DEF ServerSends
    <2>2. /\ srv'.wire = srv.wire /\ srv'.state = srv.state /\ srv'.base = srv.base
          /\ srv'.sent = srv.sent + 1 /\ srv'.queue = Append(srv.queue, srv.sent + 1)
      BY <1>1, <2>1 DEF Sessions
    <2>3. Told(y)
      BY <1>1, <1>4, <2>1, <2>2, UnwrittenTold
    <2> QED  BY <1>3, <2>3, BecameTold
  <1>7. CASE ServerCloses
    <2>1. srv' = [srv EXCEPT !.state = "closed"] /\ srv.state = "open"
      BY <1>7 DEF ServerCloses
    <2>2. /\ srv'.wire = srv.wire /\ srv'.state = "closed" /\ srv'.base = srv.base
          /\ srv'.sent = srv.sent /\ srv'.queue = srv.queue
      BY <1>1, <2>1 DEF Sessions
    <2>3. Told(y)
      BY <1>1, <1>4, <2>1, <2>2, UnwrittenTold
    <2> QED  BY <1>3, <2>3, BecameTold
  <1>8. CASE ServerForgets
    <2>1. srv' = [srv EXCEPT !.state = "none", !.queue = <<>>] /\ srv.state # "none"
      BY <1>8 DEF ServerForgets
    <2>2. /\ srv'.wire = srv.wire /\ srv'.state = "none" /\ srv'.base = srv.base
          /\ srv'.sent = srv.sent /\ srv'.queue = <<>>
      BY <1>1, <2>1 DEF Sessions
    <2>3. Told(y)
      BY <1>1, <1>4, <2>1, <2>2, UnwrittenTold
    <2> QED  BY <1>3, <2>3, BecameTold
  <1> QED  BY <1>5, <1>6, <1>7, <1>8 DEF Server

-----------------------------------------------------------------------------
LEMMA InitTold ==
  ASSUME Init
  PROVE  Told(Now)
  <1>1. TypeOK /\ Now \in Parts
    BY InitSolid, NowTyped
  <1>2. /\ sock.events = <<>> /\ sock.transports = <<>> /\ sock.readyState = CONNECTING
        /\ tr = NoTransport /\ srv = NewSession(0)
    BY DEF Init
  <1>3. /\ tr.name = "none" /\ ~tr.ears /\ tr.rcv = "none" /\ tr.frame = "none" /\ tr.facade = "none"
        /\ tr.up = <<>> /\ tr.down = <<>>
    BY <1>2, NoneFields
  <1>4. srv.state = "none" /\ srv.queue = <<>> /\ srv.wire = <<>> /\ srv.sent = 0 /\ srv.base = 0
    BY <1>2, NewSessionFields
  <1>5. DOMAIN Line(Now) = {}
    <2>1. PICK d, n \in Nat: Spanned(Now, d, n)
      BY <1>1, Spans
    <2>2. d = 0 /\ (n = d + Len(srv.wire) \/ n = d) /\ DOMAIN Line(Now) = 1..n
      BY <1>3, <2>1, EmptyTyped, NowFields DEF Spanned
    <2>3. Len(srv.wire) = 0
      BY <1>4, EmptyTyped
    <2>4. n = 0
      BY <2>2, <2>3
    <2> QED  BY <2>2, <2>4
  <1>6. Tells(<<>>) = {} /\ Seen(<<>>) = {}
    BY NoneLeft DEF Tells, Seen
  <1>7. Heard(Now)
    <2>1. Sorted(Line(Now), <<>>, srv)
      BY <1>4, <1>5, <1>6, NothingWithin DEF Sorted, Older
    <2>2. ~Exact(tr)
      BY <1>3 DEF Exact
    <2> QED  BY <1>2, <2>1, <2>2, NowFields DEF Heard
  <1>8. Fresh(Now)
    <2>1. Signs(<<>>) = {}
      BY NoneLeft DEF Signs
    <2>2. ~Young(tr) /\ tr.rcv # "pause" /\ tr.frame # "loading"
      BY <1>3, <2>1 DEF Young
    <2> QED  BY <1>3, <2>1, <2>2, NowFields DEF Fresh
  <1>9. Listed(Now)
    <2>1. Len(All) \in Nat
      BY ListTyped, LenProperties
    <2>2. Len(<<>>) = 0 /\ DOMAIN <<>> = {}
      BY NoneLeft
    <2> QED  BY <1>2, <1>3, <2>1, <2>2, NowFields DEF Listed
  <1>10. OpenFirst(Now)
    BY <1>2, NowFields DEF OpenFirst
  <1> QED  BY <1>7, <1>8, <1>9, <1>10 DEF Told

LEMMA NextTold ==
  ASSUME TypeOK, TypeOK', Solid(Now), Told(Now), [Next]_vars
  PROVE  Told(Now)'
  <1>1. CASE User
    BY <1>1, UserTold
  <1>2. CASE InfoStarts \/ InfoArrives \/ InfoTimesOut
    BY <1>2, InfoTold
  <1>3. CASE TransportTimesOut \/ StaleTimerFires
    BY <1>3, GiveUpTold
  <1>4. CASE CloseTimer
    BY <1>4, CloseTimerTold
  <1>5. CASE RequestStarts \/ SendStarts \/ SendSucceeds \/ WaitEnds \/ ServerGets
    BY <1>5, RequestsTold
  <1>6. CASE Chunk
    BY <1>6, ChunkTold
  <1>7. CASE AnswerEnds
    BY <1>7, AnswerEndsTold
  <1>8. CASE RequestFails
    BY <1>8, RequestFailsTold
  <1>9. CASE PauseEnds
    BY <1>9, PauseEndsTold
  <1>10. CASE WebSocketEnds
    BY <1>10, WebSocketEndsTold
  <1>11. CASE SendFails
    BY <1>11, SendFailsTold
  <1>12. CASE FrameBoots
    BY <1>12, FrameBootsTold
  <1>13. CASE FrameFails
    BY <1>13, FrameFailsTold
  <1>14. CASE PageReceives
    BY <1>14, PageReceivesTold
  <1>15. CASE FrameGets
    BY <1>15, FrameGetsTold
  <1>16. CASE FrameRemoved
    BY <1>16, FrameRemovedTold
  <1>17. CASE Server /\ ~ServerGets
    BY <1>17, ServerTold
  <1>18. CASE UNCHANGED vars
    <2>1. Now \in Parts
      BY NowTyped
    <2>2. Become(Now)
      BY <1>18, NowFields DEF Become, vars
    <2> QED  BY <2>1, <2>2, BecameTold
  <1> QED  BY <1>1, <1>2, <1>3, <1>4, <1>5, <1>6, <1>7, <1>8, <1>9, <1>10, <1>11, <1>12, <1>13, <1>14, <1>15,
              <1>16, <1>17, <1>18 DEF Next, Timers, Network, Iframe

\* The messages of the server reach the user after the open event, in order and
\* without a gap or a double, but for the transports that reconnect by themselves.
THEOREM ReceivedInOrderHolds == Spec => []ReceivedInOrder
  <1>1. Init => TypeOK /\ Solid(Now) /\ Told(Now)
    BY InitSolid, InitTold
  <1>2. TypeOK /\ Solid(Now) /\ Told(Now) /\ [Next]_vars => (TypeOK /\ Solid(Now) /\ Told(Now))'
    BY NextSolid, NextTold
  <1>3. TypeOK /\ Solid(Now) /\ Told(Now) => ReceivedInOrder
    <2> SUFFICES ASSUME TypeOK, Told(Now) PROVE ReceivedInOrder
      OBVIOUS
    <2>1. Heard(Now) /\ Listed(Now) /\ OpenFirst(Now)
      BY DEF Told
    <2>2. Read = Tells(sock.events) /\ Received = Seen(sock.events)
      BY DEF Read, Received, Tells, Seen
    <2>3. ASSUME tr.name # "none", ~MayLoseFrames(tr.name), NEW m \in Received
          PROVE  (srv.base + 1)..m \subseteq Received
      BY <2>1, <2>2, <2>3, NowFields DEF Heard, Exact, Unbroken
    <2>4. (\E t \in Tried: MayLoseFrames(t)) \/ (sock.events # <<>> => ~IsMessage(Head(sock.events)))
      <3>1. Tried = TriedBy(sock.transports)
        BY DEF Tried, TriedBy, All
      <3> QED  BY <2>1, <3>1, NowFields DEF OpenFirst
    <2>5. \A i, j \in Read: i < j => sock.events[i][2] < sock.events[j][2]
      BY <2>1, <2>2, NowFields DEF Heard, Sorted
    <2> QED  BY <2>3, <2>4, <2>5 DEF ReceivedInOrder
  <1> QED  BY <1>1, <1>2, <1>3, PTL DEF Spec
=============================================================================
