---------------------------- MODULE Ajax_proofs ----------------------------
(***************************************************************************)
(* Proofs about jQuery's callback lists, promises and requests, for any    *)
(* number of promises and any scenarios.                                   *)
(***************************************************************************)
EXTENDS Ajax, FiniteSetTheorems, SequenceTheorems, WellFoundedInduction, TLAPS

-----------------------------------------------------------------------------
\* The names of the functions, of jQuery and of the page.
Fns == {"state", "disable", "lock", "fireWith", "then", "update", "jQuery", "f", "g", "prefilter", "beforeSend",
        "done", "fail", "complete", "statusCode", "ajaxStart", "ajaxSend", "ajaxSuccess", "ajaxError", "ajaxComplete",
        "ajaxStop"}

\* What is in the lists and on the stack while K are the deferreds that exist.
\* Late is what functions of the page and of jQuery add, the others are those that
\* jQuery.Deferred begins its lists with.  The calls that may end ajax before its
\* last one are never the last themselves.
Where == Promises \X {"done", "fail", "progress", "complete"}
ListsOf(K) == (K \X {"done", "fail", "progress"}) \cup (Promises \X {"complete"})
Chain(K) == [fn: Fns, kind: {"then"}, deferred: K, name: {"done", "fail", "progress"}, returns: {0, -1} \cup K]
Late(K) ==
    [fn: Fns, kind: {"fireWith"}, list: ListsOf(K)]
    \cup Chain(K)
    \cup [fn: Fns, kind: {"update"}, deferred: K, name: {"done", "progress"}]
    \cup [fn: Fns, kind: {"page"}]
    \cup [fn: Fns, kind: {"call"}, what: [call: {"cleanup"}, r: K]]
Acts(K) ==
    [fn: Fns, kind: {"state"}, deferred: K, to: {"resolved", "rejected"}]
    \cup [fn: Fns, kind: {"disable", "lock"}, list: ListsOf(K)]
    \cup Late(K)
Tasks(K) ==
    [call: {"add"}, list: ListsOf(K), f: Late(K)]
    \cup [call: {"fireWith"}, list: ListsOf(K), data: Nat]
    \cup [call: {"chain"}, f: Chain(K), data: Nat]
    \cup [call: {"prefilter", "begin", "beforeSend", "check", "install", "ajaxSend", "send", "statusCode", "cleanup",
                 "finish"}, r: K]
    \cup [call: {"own"}, r: K, name: {"done", "fail", "complete"}]
    \cup [call: {"global"}, r: K, event: Fns]
Stops == {"begin", "check", "install"}
Jobs(K) == {s \in Seq(Tasks(K)): s = <<>> \/ s[Len(s)].call \notin Stops}
Frames(K) ==
    [kind: {"fire"}, list: ListsOf(K), data: Nat]
    \cup [kind: {"page"}, fn: Fns]
    \cup [kind: {"rest"}, calls: Jobs(K) \ {<<>>}]
Entries(K) == [fn: Fns, does: Acts(K), id: Nat]
Objects(K) ==
    [options: SUBSET Flags, list: Seq(Entries(K)), on: BOOLEAN, repeats: BOOLEAN, queue: Seq(Nat),
     firing: BOOLEAN, fired: BOOLEAN, memory: Nat, index: Int, length: Int, start: Nat, count: Nat,
     called: Seq(Nat), cleared: BOOLEAN]

\* The additions of a list and the indices of its loop.
Ordered(c) ==
    /\ \A i, j \in DOMAIN c.list: c.list[i].id = c.list[j].id => i = j
    /\ \A i \in DOMAIN c.list: c.list[i].id \in 1..c.count
    /\ IsInjective(c.called) /\ CalledIds(c) \subseteq 1..c.count
    /\ c.start = 0
    /\ c.on \/ c.list = <<>>
    /\ c.firing => c.index >= -1
    /\ c.on /\ c.firing =>
           /\ c.length = Len(c.list)
           /\ \A i \in DOMAIN c.list: i - 1 > c.index => c.list[i].id \notin CalledIds(c)
    /\ c.on /\ c.firing /\ ~c.cleared =>
           /\ c.index < Len(c.list)
           /\ \A i \in DOMAIN c.list: i - 1 <= c.index => c.list[i].id \in CalledIds(c)
    /\ c.on /\ ~c.firing /\ c.memory # NoData /\ ~c.cleared =>
           \A i \in DOMAIN c.list: c.list[i].id \in CalledIds(c)

\* The loops on the stack are those of lists that are firing, one for each.
Loops(j) == {i \in DOMAIN j.stack: j.stack[i].kind = "fire"}
Looping(j) ==
    /\ \A i \in Loops(j): j.lists[j.stack[i].list].firing
    /\ \A i, k \in Loops(j): j.stack[i].list = j.stack[k].list => i = k

States == {"none", "pending", "resolved", "rejected"}
Made(j) == {d \in Promises: j.states[d] # "none"}
ScriptFields == {"lists", "states", "remaining", "waits", "follows", "stack", "threw"}
Typed(K, j) ==
    /\ K \subseteq Promises /\ K = Made(j)
    /\ DOMAIN j = ScriptFields
    /\ j.states \in [Promises -> States]
    /\ j.lists \in [Where -> Objects(K)]
    /\ j.stack \in Seq(Frames(K))
Firm(K, j) == Typed(K, j) /\ (\A l \in Where: Ordered(j.lists[l])) /\ Looping(j)

\* The list of an outcome: it begins with the functions of jQuery.Deferred, it is
\* called in the order of the additions, and what is left of it after its firing is
\* the memory.
Numbered(n) == [i \in 1..n |-> i]
Begins(d, name) == <<Settles(d, name), Disables(<<d, Other(name)>>), Locks(<<d, "progress">>)>>
Entered(K, e, d, name) == IF e.id <= 3 THEN e.does = Begins(d, name)[e.id] ELSE e.does \in Late(K)
Outcome(K, c, d, name) ==
    /\ c.options = {"once", "memory"} /\ ~c.repeats /\ c.count >= 3 /\ Len(c.list) <= c.count
    /\ \A i \in DOMAIN c.list: c.list[i].id = c.count - Len(c.list) + i /\ Entered(K, c.list[i], d, name)
    /\ ~c.fired => ~c.firing /\ c.called = <<>> /\ c.memory = NoData /\ (c.on => Len(c.list) = c.count)
    /\ c.firing => /\ c.on /\ c.index < Len(c.list)
                   /\ c.called = Numbered(c.count - Len(c.list) + c.index + 1)
    /\ c.fired /\ ~c.firing => c.list = <<>> /\ c.called = Numbered(c.count) /\ (c.on => c.memory # NoData)

\* One of the two lists is fired at most.  The other one is on only until the loop
\* has come to its second function: the loop is the innermost one then, and in W.
Named == {"done", "fail"}
LoopLists(j) == {j.stack[i].list: i \in Loops(j)}
Settling(K, j, W, d, name) ==
    LET l == <<d, name>>
        c == j.lists[l]
        o == j.lists[<<d, Other(name)>>]
    IN  /\ Outcome(K, c, d, name)
        /\ c.firing => l \in LoopLists(j) \cup j.threw
        /\ j.states[d] = Outcomes[name] => c.fired
        /\ c.fired => ~o.fired
        /\ c.fired /\ o.on => l \in W /\ Len(c.called) <= 1
Plain(K, l) == ~\E d \in K, name \in Named: l = <<d, name>>
Latecomers(K, c) == \A i \in DOMAIN c.list: c.list[i].does \in Late(K)
Steady(K, j, W) ==
    /\ \A d \in K, name \in Named: Settling(K, j, W, d, name)
    /\ \A l \in Where: Plain(K, l) => Latecomers(K, j.lists[l])
TopLoop(j) == IF j.stack # <<>> /\ Top(j).kind = "fire" THEN {Top(j).list} ELSE {}
Calm(K, j) == Firm(K, j) /\ Steady(K, j, {})
Loose(K, j) == Firm(K, j) /\ Steady(K, j, TopLoop(j))

\* A request is started when its promise is made, and nothing of it runs before.
StartedWith(q, made) ==
    /\ q.started <=> made
    /\ q.net # "none" \/ q.timer => made
RequestFields == DOMAIN NewRequest
Requested(K, R, q) == DOMAIN q = R /\ \A r \in R: DOMAIN q[r] = RequestFields /\ StartedWith(q[r], r \in K)
PageFields == {"active", "win", "free", "names", "events", "budget", "throws", "broken"}
Paged(p) == DOMAIN p = PageFields /\ p.budget \in Int
Sound(K, R, x) ==
    DOMAIN x = {"js", "req", "page"} /\ Calm(K, x.js) /\ Requested(K, R, x.req) /\ Paged(x.page)

Inv ==
    /\ scenario \in Scenarios /\ scenario.made \subseteq Made(js)
    /\ Requested(Made(js), Requests, req) /\ Paged(page)
    /\ Loose(Made(js), js) /\ (Sync # {} => Calm(Made(js), js))
-----------------------------------------------------------------------------
\* Operators of Callbacks.

Fresh(c, d) == d.options = c.options /\ d.start = c.start

LEMMA PushTyped ==
  ASSUME NEW K, NEW c \in Objects(K), NEW f \in Acts(K)
  PROVE  push(c, f) \in Objects(K)
  <1>1. f.fn \in Fns
    BY DEF Acts, Late, Chain
  <1>2. [fn |-> f.fn, does |-> f, id |-> c.count + 1] \in Entries(K)
    BY <1>1 DEF Entries, Objects
  <1>3. PICK e \in Entries(K): e = [fn |-> f.fn, does |-> f, id |-> c.count + 1]
    BY <1>2
  <1>4. PICK l \in Seq(Entries(K)): l = Append(c.list, e)
    <2>1. c.list \in Seq(Entries(K))
      BY DEF Objects
    <2>2. Append(c.list, e) \in Seq(Entries(K))
      BY <2>1
    <2> QED  BY <2>2
  <1>5. PICK n \in Nat: n = c.count + 1
    BY DEF Objects
  <1>6. [c EXCEPT !.list = l, !.count = n] \in Objects(K)
    BY DEF Objects
  <1> QED  BY <1>3, <1>4, <1>5, <1>6 DEF push

\* push leaves everything but the list and its counter alone.
Extends(c, d) ==
    /\ d.on = c.on /\ d.firing = c.firing /\ d.index = c.index /\ d.start = c.start /\ d.called = c.called
    /\ d.cleared = c.cleared /\ d.memory = c.memory /\ d.length = c.length
    /\ \/ d.list = c.list /\ d.count = c.count
       \/ \E e : d.list = Append(c.list, e) /\ e.id = c.count + 1 /\ d.count = c.count + 1

LEMMA PushExtends ==
  ASSUME NEW K, NEW c \in Objects(K), NEW f \in Acts(K)
  PROVE  Extends(c, push(c, f))
  <1>1. CASE "unique" \in c.options /\ Has(c, f.fn)
    BY <1>1 DEF push, Extends
  <1>2. CASE ~("unique" \in c.options /\ Has(c, f.fn))
    <2>1. PICK e : e = [fn |-> f.fn, does |-> f, id |-> c.count + 1]
      OBVIOUS
    <2>2. e.id = c.count + 1
      BY <2>1
    <2>3. PICK d : d = [c EXCEPT !.list = Append(@, e), !.count = @ + 1]
      OBVIOUS
    <2>4. /\ d.on = c.on /\ d.firing = c.firing /\ d.index = c.index /\ d.start = c.start /\ d.called = c.called
          /\ d.cleared = c.cleared /\ d.memory = c.memory /\ d.length = c.length
          /\ d.list = Append(c.list, e) /\ d.count = c.count + 1
      BY <2>3 DEF Objects
    <2>5. push(c, f) = d
      BY <1>2, <2>1, <2>3 DEF push
    <2> QED  BY <2>2, <2>4, <2>5 DEF Extends
  <1> QED  BY <1>1, <1>2

\* add to a list that does not start to fire.
LEMMA AddedOrdered ==
  ASSUME NEW K, NEW c \in Objects(K), Ordered(c), NEW d \in Objects(K), c.on,
         d.on = c.on, d.firing = c.firing, d.index = c.index, d.start = c.start, d.called = c.called,
         d.cleared = c.cleared, d.memory = c.memory, d.length = (IF c.firing THEN Len(d.list) ELSE c.length),
         NEW e, d.list = Append(c.list, e), e.id = c.count + 1, d.count = c.count + 1,
         c.firing \/ c.memory = NoData
  PROVE  Ordered(d)
  <1> DEFINE n == Len(c.list)
  <1>1. c.list \in Seq(Entries(K)) /\ c.count \in Nat /\ c.index \in Int /\ c.length \in Int /\ n \in Nat
        /\ c.called \in Seq(Nat)
    BY DEF Objects
  <1>2. Len(d.list) = n + 1 /\ DOMAIN d.list = 1..(n + 1) /\ DOMAIN c.list = 1..n
        /\ (\A i \in 1..n: d.list[i] = c.list[i]) /\ d.list[n + 1] = e
    BY <1>1
  <1>3. CalledIds(d) = CalledIds(c)
    BY DEF CalledIds
  <1>4. CalledIds(c) \subseteq 1..c.count /\ (c.count + 1) \notin CalledIds(c)
    BY <1>1 DEF Ordered
  <1>5. \A i \in 1..n: c.list[i].id \in 1..c.count
    BY <1>2 DEF Ordered
  <1>6. \A i, j \in DOMAIN d.list: d.list[i].id = d.list[j].id => i = j
    <2>1. \A i, j \in 1..n: d.list[i].id = d.list[j].id => i = j
      BY <1>2 DEF Ordered
    <2>2. \A i \in 1..n: d.list[i].id # d.list[n + 1].id
      BY <1>1, <1>2, <1>5
    <2> QED  BY <1>1, <1>2, <2>1, <2>2
  <1>7. \A i \in DOMAIN d.list: d.list[i].id \in 1..d.count
    <2>1. \A i \in 1..n: d.list[i].id \in 1..d.count
      BY <1>1, <1>2, <1>5
    <2>2. d.list[n + 1].id \in 1..d.count
      BY <1>1, <1>2
    <2> QED  BY <1>1, <1>2, <2>1, <2>2
  <1>8. IsInjective(d.called) /\ CalledIds(d) \subseteq 1..d.count /\ d.start = 0 /\ d.on
    BY <1>1, <1>3, <1>4 DEF Ordered
  <1>9. d.firing => d.index >= -1 /\ d.length = Len(d.list)
    BY DEF Ordered
  <1>10. d.firing => \A i \in DOMAIN d.list: i - 1 > d.index => d.list[i].id \notin CalledIds(d)
    BY <1>1, <1>2, <1>3, <1>4 DEF Ordered
  <1>11. d.firing /\ ~d.cleared =>
           /\ d.index < Len(d.list)
           /\ \A i \in DOMAIN d.list: i - 1 <= d.index => d.list[i].id \in CalledIds(d)
    BY <1>1, <1>2, <1>3 DEF Ordered
  <1> QED  BY <1>6, <1>7, <1>8, <1>9, <1>10, <1>11 DEF Ordered

LEMMA FireTyped ==
  ASSUME NEW K, NEW c \in Objects(K), NEW data \in Nat
  PROVE  /\ fire(c, data) \in Objects(K)
         /\ fire(c, data).list = c.list /\ fire(c, data).on = c.on /\ fire(c, data).firing
         /\ fire(c, data).index = c.start - 1 /\ fire(c, data).start = 0 /\ fire(c, data).length = Len(c.list)
         /\ fire(c, data).called = c.called /\ fire(c, data).cleared = c.cleared /\ fire(c, data).count = c.count
         /\ fire(c, data).queue = c.queue
  <1>1. PICK m \in Nat: m = IF "memory" \in c.options THEN data ELSE NoData
    BY DEF NoData
  <1>2. PICK i \in Int: i = c.start - 1
    BY DEF Objects
  <1>3. PICK n \in Int: n = Len(c.list)
    <2>1. c.list \in Seq(Entries(K))
      BY DEF Objects
    <2>2. Len(c.list) \in Int
      BY <2>1
    <2> QED  BY <2>2
  <1>4. PICK d \in Objects(K): d = [c EXCEPT !.memory = m, !.fired = TRUE, !.index = i, !.start = 0, !.length = n,
                                             !.firing = TRUE]
    BY DEF Objects
  <1>5. /\ d.list = c.list /\ d.on = c.on /\ d.firing /\ d.index = i /\ d.start = 0 /\ d.length = n
        /\ d.called = c.called /\ d.cleared = c.cleared /\ d.count = c.count /\ d.queue = c.queue
    BY <1>4 DEF Objects
  <1>6. fire(c, data) = d
    BY <1>1, <1>2, <1>3, <1>4 DEF fire
  <1> QED  BY <1>2, <1>3, <1>5, <1>6

LEMMA FireAllKeeps ==
  ASSUME NEW K, NEW c \in Objects(K), Ordered(c), c.on, NEW data \in Nat
  PROVE  /\ FireAll(c, data) \in Objects(K) /\ Ordered(FireAll(c, data))
         /\ FireAll(c, data).firing /\ FireAll(c, data).on /\ FireAll(c, data).queue = c.queue
  <1>1. PICK e \in Objects(K): e = fire(c, data)
    BY FireTyped
  <1>2. /\ e.list = c.list /\ e.on /\ e.firing /\ e.index = c.start - 1 /\ e.start = 0 /\ e.length = Len(c.list)
        /\ e.count = c.count /\ e.queue = c.queue
    BY <1>1, FireTyped
  <1>3. PICK q \in Seq(Nat): q = <<>>
    <2>1. <<>> \in Seq(Nat)
      OBVIOUS
    <2> QED  BY <2>1
  <1>4. PICK d \in Objects(K): d = [e EXCEPT !.called = q, !.cleared = FALSE]
    BY DEF Objects
  <1>5. /\ d.list = e.list /\ d.on = e.on /\ d.firing = e.firing /\ d.index = e.index /\ d.start = e.start
        /\ d.length = e.length /\ d.called = q /\ d.cleared = FALSE /\ d.count = e.count /\ d.queue = e.queue
    BY <1>4 DEF Objects
  <1>6. FireAll(c, data) = d
    BY <1>1, <1>3, <1>4 DEF FireAll
  <1>7. c.start = 0 /\ c.list \in Seq(Entries(K)) /\ c.count \in Nat
    BY DEF Ordered, Objects
  <1>8. CalledIds(d) = {} /\ IsInjective(d.called)
    BY <1>3, <1>5 DEF CalledIds, IsInjective
  <1>9. Len(c.list) \in Nat /\ DOMAIN c.list = 1..Len(c.list)
    BY <1>7
  <1>10. Ordered(d)
    <2>1. \A i, j \in DOMAIN d.list: d.list[i].id = d.list[j].id => i = j
      BY <1>2, <1>5 DEF Ordered
    <2>2. \A i \in DOMAIN d.list: d.list[i].id \in 1..d.count
      BY <1>2, <1>5 DEF Ordered
    <2>3. d.start = 0 /\ d.on /\ d.index = -1 /\ d.length = Len(d.list) /\ d.firing
      BY <1>2, <1>5, <1>7
    <2>4. \A i \in DOMAIN d.list: ~(i - 1 <= d.index)
      BY <1>2, <1>5, <1>9, <2>3
    <2>5. d.index < Len(d.list)
      BY <1>2, <1>5, <1>9, <2>3
    <2> QED  BY <1>8, <2>1, <2>2, <2>3, <2>4, <2>5 DEF Ordered
  <1> QED  BY <1>2, <1>5, <1>6, <1>10

\* add to a list with a memory that is not firing: it fires for what is new.
LEMMA AddFires ==
  ASSUME NEW K, NEW c \in Objects(K), Ordered(c), NEW f \in Acts(K), c.on, ~c.firing, c.memory # NoData
  PROVE  /\ fire([push(c, f) EXCEPT !.start = Len(c.list)], c.memory) \in Objects(K)
         /\ Ordered(fire([push(c, f) EXCEPT !.start = Len(c.list)], c.memory))
  <1>1. PICK p \in Objects(K): p = push(c, f)
    BY PushTyped
  <1>2. Extends(c, p)
    BY <1>1, PushExtends
  <1>3. c.list \in Seq(Entries(K)) /\ c.count \in Nat /\ c.called \in Seq(Nat) /\ c.memory \in Nat
    BY DEF Objects
  <1>4. PICK n \in Nat: n = Len(c.list)
    BY <1>3
  <1>5. DOMAIN c.list = 1..n
    BY <1>3, <1>4
  <1>6. PICK q \in Objects(K): q = [p EXCEPT !.start = n]
    BY DEF Objects
  <1>7. q.list = p.list /\ q.on = p.on /\ q.called = p.called /\ q.cleared = p.cleared /\ q.count = p.count /\ q.start = n
    BY <1>6 DEF Objects
  <1>m. PICK m \in Nat: m = c.memory
    BY <1>3
  <1>8. PICK d \in Objects(K): d = fire(q, m)
    BY FireTyped
  <1>9. /\ d.list = p.list /\ d.on /\ d.firing /\ d.index = n - 1 /\ d.start = 0 /\ d.length = Len(p.list)
        /\ d.called = c.called /\ d.cleared = c.cleared /\ d.count = p.count
    <2>1. /\ d.list = q.list /\ d.on = q.on /\ d.firing /\ d.index = q.start - 1 /\ d.start = 0 /\ d.length = Len(q.list)
          /\ d.called = q.called /\ d.cleared = q.cleared /\ d.count = q.count
      BY <1>8, FireTyped
    <2>2. p.on /\ p.called = c.called /\ p.cleared = c.cleared
      BY <1>2 DEF Extends
    <2> QED  BY <1>7, <2>1, <2>2
  <1>10. CalledIds(d) = CalledIds(c) /\ CalledIds(c) \subseteq 1..c.count /\ IsInjective(d.called)
    BY <1>9 DEF CalledIds, Ordered
  <1>11. \A i \in 1..n: c.list[i].id \in 1..c.count
    BY <1>5 DEF Ordered
  <1>12. ~c.cleared => \A i \in 1..n: c.list[i].id \in CalledIds(c)
    BY <1>5 DEF Ordered
  <1>13. \A i, j \in 1..n: c.list[i].id = c.list[j].id => i = j
    BY <1>5 DEF Ordered
  <1>14. Ordered(d)
    <2>1. CASE p.list = c.list /\ p.count = c.count
      <3>1. DOMAIN d.list = 1..n /\ Len(d.list) = n /\ d.list = c.list /\ d.count = c.count
        BY <1>4, <1>5, <1>9, <2>1
      <3>2. \A i \in DOMAIN d.list: i - 1 <= d.index /\ ~(i - 1 > d.index)
        BY <1>9, <3>1
      <3>3. d.index < Len(d.list) /\ d.index >= -1 /\ d.length = Len(d.list)
        BY <1>9, <3>1
      <3> QED  BY <1>9, <1>10, <1>11, <1>12, <1>13, <3>1, <3>2, <3>3 DEF Ordered
    <2>2. CASE \E e: p.list = Append(c.list, e) /\ e.id = c.count + 1 /\ p.count = c.count + 1
      <3>1. PICK e: p.list = Append(c.list, e) /\ e.id = c.count + 1 /\ p.count = c.count + 1
        BY <2>2
      <3>2. /\ DOMAIN d.list = 1..(n + 1) /\ Len(d.list) = n + 1 /\ d.list[n + 1] = e
            /\ \A i \in 1..n: d.list[i] = c.list[i]
        BY <1>3, <1>4, <1>5, <1>9, <3>1
      <3>3. \A i \in DOMAIN d.list: i \in 1..n \/ i = n + 1
        BY <3>2
      <3>4. d.list[n + 1].id = c.count + 1 /\ (c.count + 1) \notin CalledIds(c) /\ d.count = c.count + 1
        BY <1>3, <1>9, <1>10, <3>1, <3>2
      <3>5. \A i, j \in DOMAIN d.list: d.list[i].id = d.list[j].id => i = j
        <4>1. \A i \in 1..n: d.list[i].id # d.list[n + 1].id
          <5>1. TAKE i \in 1..n
          <5>2. c.list[i].id \in 1..c.count /\ d.list[i].id = c.list[i].id
            BY <1>11, <3>2
          <5> QED  BY <1>3, <3>4, <5>2
        <4> QED  BY <1>13, <3>2, <3>3, <4>1
      <3>6. \A i \in DOMAIN d.list: d.list[i].id \in 1..d.count
        <4>1. \A i \in 1..n: d.list[i].id \in 1..d.count
          <5>1. TAKE i \in 1..n
          <5>2. c.list[i].id \in 1..c.count /\ d.list[i].id = c.list[i].id
            BY <1>11, <3>2
          <5> QED  BY <1>3, <3>4, <5>2
        <4>2. d.list[n + 1].id \in 1..d.count
          BY <1>3, <3>4
        <4> QED  BY <3>3, <4>1, <4>2
      <3>7. \A i \in DOMAIN d.list: i - 1 > d.index => d.list[i].id \notin CalledIds(d)
        BY <1>9, <1>10, <3>3, <3>4
      <3>8. ~d.cleared => \A i \in DOMAIN d.list: i - 1 <= d.index => d.list[i].id \in CalledIds(d)
        BY <1>9, <1>10, <1>12, <3>2, <3>3
      <3>9. d.index < Len(d.list) /\ d.index >= -1 /\ d.length = Len(d.list)
        BY <1>9, <3>2
      <3>10. CalledIds(d) \subseteq 1..d.count
        BY <1>3, <1>10, <3>4
      <3> QED  BY <1>9, <1>10, <3>5, <3>6, <3>7, <3>8, <3>9, <3>10 DEF Ordered
    <2> QED  BY <1>2, <2>1, <2>2 DEF Extends
  <1>15. fire([push(c, f) EXCEPT !.start = Len(c.list)], c.memory) = d
    BY <1>1, <1>4, <1>6, <1>8, <1>m
  <1> QED  BY <1>14, <1>15

\* What Ordered looks at.
Alike(c, d) ==
    /\ d.list = c.list /\ d.count = c.count /\ d.on = c.on /\ d.firing = c.firing /\ d.index = c.index
    /\ d.start = c.start /\ d.called = c.called /\ d.cleared = c.cleared

LEMMA AlikeOrdered ==
  ASSUME NEW c, NEW d, Ordered(c), Alike(c, d), d.length = c.length, d.memory = c.memory \/ d.memory = NoData
  PROVE  Ordered(d)
  <1>1. CalledIds(d) = CalledIds(c)
    BY DEF CalledIds, Alike
  <1> QED  BY <1>1 DEF Ordered, Alike

LEMMA AddKeeps ==
  ASSUME NEW K, NEW c \in Objects(K), Ordered(c), NEW f \in Acts(K)
  PROVE  add(c, f) \in Objects(K) /\ Ordered(add(c, f)) /\ (c.firing => add(c, f).firing)
  <1>1. PICK p \in Objects(K): p = push(c, f)
    BY PushTyped
  <1>2. Extends(c, p)
    BY <1>1, PushExtends
  <1>3. c.on \in BOOLEAN /\ c.firing \in BOOLEAN /\ c.list \in Seq(Entries(K)) /\ p.list \in Seq(Entries(K))
    BY DEF Objects
  <1>4. CASE ~c.on
    BY <1>4 DEF add
  <1>5. CASE c.on /\ c.firing
    <2>1. PICK n \in Int: n = Len(p.list)
      <3>1. Len(p.list) \in Int
        BY <1>3
      <3> QED  BY <3>1
    <2>2. PICK d \in Objects(K): d = [p EXCEPT !.length = n]
      BY DEF Objects
    <2>3. d.length = Len(d.list) /\ Alike(p, d) /\ d.memory = p.memory
      BY <2>1, <2>2 DEF Objects, Alike
    <2>4. add(c, f) = d
      BY <1>1, <1>5, <2>1, <2>2 DEF add
    <2>5. d.firing
      BY <1>2, <1>5, <2>3 DEF Alike, Extends
    <2>6. CASE p.list = c.list /\ p.count = c.count
      <3>1. d.length = c.length
        BY <1>5, <2>3, <2>6 DEF Ordered, Alike
      <3>2. Alike(c, d) /\ d.memory = c.memory
        BY <1>2, <2>3, <2>6 DEF Alike, Extends
      <3> QED  BY <2>4, <2>5, <3>1, <3>2, AlikeOrdered
    <2>7. CASE \E e: p.list = Append(c.list, e) /\ e.id = c.count + 1 /\ p.count = c.count + 1
      <3>1. PICK e: p.list = Append(c.list, e) /\ e.id = c.count + 1 /\ p.count = c.count + 1
        BY <2>7
      <3>2. /\ d.list = Append(c.list, e) /\ d.count = c.count + 1 /\ d.on = c.on /\ d.firing = c.firing
            /\ d.index = c.index /\ d.start = c.start /\ d.called = c.called /\ d.cleared = c.cleared
            /\ d.memory = c.memory
        BY <1>2, <2>3, <3>1 DEF Alike, Extends
      <3>3. d.length = (IF c.firing THEN Len(d.list) ELSE c.length)
        BY <1>5, <2>3
      <3>4. Ordered(d)
        BY <1>5, <3>1, <3>2, <3>3, AddedOrdered
      <3> QED  BY <2>4, <2>5, <3>4
    <2> QED  BY <1>2, <2>6, <2>7 DEF Extends
  <1>6. CASE c.on /\ ~c.firing /\ c.memory # NoData
    <2>1. add(c, f) = fire([push(c, f) EXCEPT !.start = Len(c.list)], c.memory)
      BY <1>6 DEF add
    <2> QED  BY <1>6, <2>1, AddFires
  <1>7. CASE c.on /\ ~c.firing /\ c.memory = NoData
    <2>1. add(c, f) = p
      BY <1>1, <1>7 DEF add
    <2>2. CASE p.list = c.list /\ p.count = c.count
      <3>1. Alike(c, p) /\ p.length = c.length /\ p.memory = c.memory
        BY <1>2, <2>2 DEF Alike, Extends
      <3> QED  BY <1>7, <2>1, <3>1, AlikeOrdered
    <2>3. CASE \E e: p.list = Append(c.list, e) /\ e.id = c.count + 1 /\ p.count = c.count + 1
      <3>1. PICK e: p.list = Append(c.list, e) /\ e.id = c.count + 1 /\ p.count = c.count + 1
        BY <2>3
      <3>2. /\ p.on = c.on /\ p.firing = c.firing /\ p.length = (IF c.firing THEN Len(p.list) ELSE c.length)
            /\ p.index = c.index /\ p.start = c.start /\ p.called = c.called /\ p.cleared = c.cleared
            /\ p.memory = c.memory
        BY <1>2, <1>7 DEF Extends
      <3>3. Ordered(p)
        BY <1>7, <3>1, <3>2, AddedOrdered
      <3> QED  BY <1>7, <2>1, <3>3
    <2> QED  BY <1>2, <2>2, <2>3 DEF Extends
  <1> QED  BY <1>3, <1>4, <1>5, <1>6, <1>7

LEMMA EmptyOrdered ==
  ASSUME NEW K, NEW d \in Objects(K), d.list = <<>>, IsInjective(d.called), CalledIds(d) \subseteq 1..d.count, d.start = 0,
         d.firing => d.index >= -1, d.on /\ d.firing => d.length = 0 /\ (d.cleared \/ d.index < 0)
  PROVE  Ordered(d)
  <1>1. DOMAIN d.list = {} /\ Len(d.list) = 0
    OBVIOUS
  <1> QED  BY <1>1 DEF Ordered

LEMMA NewTyped ==
  ASSUME NEW K, NEW options \in SUBSET Flags
  PROVE  NewCallbacks(options) \in Objects(K) /\ Ordered(NewCallbacks(options)) /\ ~NewCallbacks(options).firing
  <1>1. <<>> \in Seq(Entries(K)) /\ <<>> \in Seq(Nat)
    OBVIOUS
  <1>a. NewCallbacks(options) \in Objects(K)
    <2>1. ("once" \notin options) \in BOOLEAN
      OBVIOUS
    <2> QED  BY <1>1, <2>1 DEF NewCallbacks, Objects, NoData
  <1>2. PICK d \in Objects(K): d = NewCallbacks(options)
    BY <1>a
  <1>3. d.list = <<>> /\ d.called = <<>> /\ ~d.firing /\ d.start = 0
    BY <1>2 DEF NewCallbacks
  <1>4. CalledIds(d) = {} /\ IsInjective(d.called)
    BY <1>3 DEF CalledIds, IsInjective
  <1> QED  BY <1>2, <1>3, <1>4, EmptyOrdered

LEMMA EmptyKeeps ==
  ASSUME NEW K, NEW c \in Objects(K), Ordered(c)
  PROVE  empty(c) \in Objects(K) /\ Ordered(empty(c)) /\ empty(c).firing = c.firing
  <1>1. PICK l \in Seq(Entries(K)): l = <<>>
    <2>1. <<>> \in Seq(Entries(K))
      OBVIOUS
    <2> QED  BY <2>1
  <1>2. PICK b \in BOOLEAN: b = (c.cleared \/ c.firing)
    OBVIOUS
  <1>3. PICK d \in Objects(K): d = [c EXCEPT !.list = l, !.on = TRUE, !.length = 0, !.cleared = b]
    <2>0. PICK n \in Int: n = 0
      OBVIOUS
    <2>1. PICK e \in Objects(K): e = [c EXCEPT !.list = l, !.on = TRUE, !.length = n]
      BY DEF Objects
    <2>2. PICK d \in Objects(K): d = [e EXCEPT !.cleared = b]
      BY DEF Objects
    <2> QED  BY <2>0, <2>1, <2>2
  <1>4. empty(c) = d
    BY <1>1, <1>2, <1>3 DEF empty
  <1>5. /\ d.list = <<>> /\ d.length = 0 /\ d.cleared = b /\ d.firing = c.firing /\ d.index = c.index /\ d.start = c.start
        /\ d.called = c.called /\ d.count = c.count
    BY <1>1, <1>3 DEF Objects
  <1>6. CalledIds(d) = CalledIds(c)
    BY <1>5 DEF CalledIds
  <1>7. IsInjective(d.called) /\ CalledIds(d) \subseteq 1..d.count /\ d.start = 0 /\ (d.firing => d.index >= -1)
    BY <1>5, <1>6 DEF Ordered
  <1>8. Ordered(d)
    BY <1>2, <1>5, <1>7, EmptyOrdered
  <1> QED  BY <1>4, <1>5, <1>8

LEMMA DisableKeeps ==
  ASSUME NEW K, NEW c \in Objects(K), Ordered(c)
  PROVE  disable(c) \in Objects(K) /\ Ordered(disable(c)) /\ disable(c).firing = c.firing
  <1>1. PICK l \in Seq(Entries(K)): l = <<>>
    <2>1. <<>> \in Seq(Entries(K))
      OBVIOUS
    <2> QED  BY <2>1
  <1>2. PICK q \in Seq(Nat): q = <<>>
    <2>1. <<>> \in Seq(Nat)
      OBVIOUS
    <2> QED  BY <2>1
  <1>3. PICK d \in Objects(K): d = [c EXCEPT !.list = l, !.on = FALSE, !.repeats = FALSE, !.queue = q, !.memory = NoData]
    BY DEF Objects, NoData
  <1>4. disable(c) = d
    BY <1>1, <1>2, <1>3 DEF disable
  <1>5. /\ d.list = <<>> /\ ~d.on /\ d.firing = c.firing /\ d.index = c.index /\ d.start = c.start
        /\ d.called = c.called /\ d.count = c.count
    BY <1>1, <1>3 DEF Objects
  <1>6. CalledIds(d) = CalledIds(c)
    BY <1>5 DEF CalledIds
  <1>7. IsInjective(d.called) /\ CalledIds(d) \subseteq 1..d.count /\ d.start = 0 /\ (d.firing => d.index >= -1)
    BY <1>5, <1>6 DEF Ordered
  <1>8. Ordered(d)
    BY <1>5, <1>7, EmptyOrdered
  <1> QED  BY <1>4, <1>5, <1>8

LEMMA LockKeeps ==
  ASSUME NEW K, NEW c \in Objects(K), Ordered(c)
  PROVE  lock(c) \in Objects(K) /\ Ordered(lock(c)) /\ lock(c).firing = c.firing
  <1>1. CASE c.memory = NoData
    BY <1>1, DisableKeeps DEF lock
  <1>2. CASE c.memory # NoData
    <2>1. PICK q \in Seq(Nat): q = <<>>
      <3>1. <<>> \in Seq(Nat)
        OBVIOUS
      <3> QED  BY <3>1
    <2>2. PICK d \in Objects(K): d = [c EXCEPT !.repeats = FALSE, !.queue = q]
      BY DEF Objects
    <2>3. lock(c) = d
      BY <1>2, <2>1, <2>2 DEF lock
    <2>4. Alike(c, d) /\ d.length = c.length /\ d.memory = c.memory
      BY <2>2 DEF Objects, Alike
    <2>5. d.firing = c.firing
      BY <2>4 DEF Alike
    <2> QED  BY <2>3, <2>4, <2>5, AlikeOrdered
  <1> QED  BY <1>1, <1>2

LEMMA FireWithKeeps ==
  ASSUME NEW K, NEW c \in Objects(K), Ordered(c), NEW data \in Nat
  PROVE  fireWith(c, data) \in Objects(K) /\ Ordered(fireWith(c, data)) /\ (c.firing => fireWith(c, data).firing)
  <1>1. c.firing \in BOOLEAN
    BY DEF Objects
  <1>2. CASE ~Fires(c)
    BY <1>2 DEF fireWith
  <1>3. CASE Fires(c) /\ c.firing
    <2>1. PICK q \in Seq(Nat): q = Append(c.queue, data)
      <3>1. c.queue \in Seq(Nat)
        BY DEF Objects
      <3>2. Append(c.queue, data) \in Seq(Nat)
        BY <3>1
      <3> QED  BY <3>2
    <2>2. PICK d \in Objects(K): d = [c EXCEPT !.queue = q]
      BY DEF Objects
    <2>3. fireWith(c, data) = d
      BY <1>3, <2>1, <2>2 DEF fireWith
    <2>4. Alike(c, d) /\ d.length = c.length /\ d.memory = c.memory
      BY <2>2 DEF Objects, Alike
    <2>5. d.firing = c.firing
      BY <2>4 DEF Alike
    <2> QED  BY <1>3, <2>3, <2>4, <2>5, AlikeOrdered
  <1>4. CASE Fires(c) /\ ~c.firing
    <2>1. fireWith(c, data) = FireAll(c, data) /\ c.on
      BY <1>4 DEF fireWith, Fires
    <2> QED  BY <1>4, <2>1, FireAllKeeps
  <1> QED  BY <1>1, <1>2, <1>3, <1>4

\* The end of a loop, after its last function or one that returned false.
LEMMA EndedOrdered ==
  ASSUME NEW K, NEW c \in Objects(K), Ordered(c), c.firing, ~More(c) \/ c.memory = NoData
  PROVE  [c EXCEPT !.firing = FALSE] \in Objects(K) /\ Ordered([c EXCEPT !.firing = FALSE])
  <1>1. PICK d \in Objects(K): d = [c EXCEPT !.firing = FALSE]
    BY DEF Objects
  <1>2. /\ d.list = c.list /\ d.count = c.count /\ d.on = c.on /\ ~d.firing /\ d.index = c.index /\ d.start = c.start
        /\ d.called = c.called /\ d.cleared = c.cleared /\ d.memory = c.memory
    BY <1>1 DEF Objects
  <1>3. CalledIds(d) = CalledIds(c)
    BY <1>2 DEF CalledIds
  <1>4. c.list \in Seq(Entries(K)) /\ c.index \in Int
    BY DEF Objects
  <1>5. DOMAIN c.list = 1..Len(c.list) /\ Len(c.list) \in Nat
    BY <1>4
  <1>6. c.on /\ c.memory # NoData /\ ~c.cleared => \A i \in DOMAIN c.list: c.list[i].id \in CalledIds(c)
    <2>1. SUFFICES ASSUME c.on, c.memory # NoData, ~c.cleared, NEW i \in DOMAIN c.list
                   PROVE  c.list[i].id \in CalledIds(c)
      OBVIOUS
    <2>2. c.length = Len(c.list) /\ c.index + 1 >= c.length
      BY <1>4, <1>5, <2>1 DEF Ordered, More
    <2>3. i - 1 <= c.index
      BY <1>4, <1>5, <2>2
    <2> QED  BY <2>1, <2>3 DEF Ordered
  <1>7. Ordered(d)
    BY <1>2, <1>3, <1>6 DEF Ordered
  <1> QED  BY <1>1, <1>7

LEMMA FinishedKeeps ==
  ASSUME NEW K, NEW c \in Objects(K), Ordered(c), c.firing, ~More(c) \/ c.memory = NoData
  PROVE  Finished(c) \in Objects(K) /\ Ordered(Finished(c)) /\ (Finished(c).firing => c.queue # <<>>)
  <1>1. PICK d \in Objects(K): d = [c EXCEPT !.firing = FALSE]
    BY EndedOrdered
  <1>2. /\ d.list = c.list /\ d.count = c.count /\ d.on = c.on /\ ~d.firing /\ d.start = c.start
        /\ d.called = c.called /\ d.memory = c.memory /\ d.queue = c.queue
    BY <1>1 DEF Objects
  <1>3. Ordered(d)
    BY <1>1, EndedOrdered
  <1>4. c.on \in BOOLEAN /\ c.repeats \in BOOLEAN /\ c.queue \in Seq(Nat)
    BY DEF Objects
  <1>5. CASE ~c.on
    <2>1. Finished(c) = d
      BY <1>1, <1>5 DEF Finished
    <2> QED  BY <1>2, <1>3, <2>1
  <1>6. CASE c.on /\ c.repeats /\ c.queue = <<>>
    <2>1. Finished(c) = d
      BY <1>1, <1>6 DEF Finished
    <2> QED  BY <1>2, <1>3, <2>1
  <1>7. CASE c.on /\ c.repeats /\ c.queue # <<>>
    <2>1. PICK q \in Seq(Nat): q = Tail(c.queue)
      <3>1. Tail(c.queue) \in Seq(Nat)
        BY <1>4, <1>7
      <3> QED  BY <3>1
    <2>2. PICK h \in Nat: h = Head(c.queue)
      <3>1. Head(c.queue) \in Nat
        BY <1>4, <1>7
      <3> QED  BY <3>1
    <2>3. PICK e \in Objects(K): e = [d EXCEPT !.queue = q]
      BY DEF Objects
    <2>4. Alike(d, e) /\ e.length = d.length /\ e.memory = d.memory /\ e.on
      BY <1>2, <1>7, <2>3 DEF Objects, Alike
    <2>5. Ordered(e)
      BY <1>3, <2>4, AlikeOrdered
    <2>6. Finished(c) = FireAll(e, h)
      <3>1. [d EXCEPT !.queue = Tail(@)] = e
        BY <1>2, <2>1, <2>3
      <3> QED  BY <1>1, <1>7, <2>2, <3>1 DEF Finished
    <2>7. FireAll(e, h) \in Objects(K) /\ Ordered(FireAll(e, h))
      BY <2>4, <2>5, FireAllKeeps
    <2> QED  BY <1>7, <2>6, <2>7
  <1>8. CASE c.on /\ ~c.repeats /\ c.memory # NoData
    <2>1. PICK l \in Seq(Entries(K)): l = <<>>
      <3>1. <<>> \in Seq(Entries(K))
        OBVIOUS
      <3> QED  BY <3>1
    <2>2. PICK e \in Objects(K): e = [d EXCEPT !.list = l]
      BY DEF Objects
    <2>3. e.list = <<>> /\ ~e.firing /\ e.called = d.called /\ e.count = d.count /\ e.start = d.start
      BY <1>2, <2>1, <2>2 DEF Objects
    <2>4. CalledIds(e) = CalledIds(d)
      BY <2>3 DEF CalledIds
    <2>5. Ordered(e)
      <3>1. IsInjective(e.called) /\ CalledIds(e) \subseteq 1..e.count /\ e.start = 0
        BY <1>3, <2>3, <2>4 DEF Ordered
      <3> QED  BY <2>3, <3>1, EmptyOrdered
    <2>6. Finished(c) = e
      BY <1>1, <1>8, <2>1, <2>2 DEF Finished
    <2> QED  BY <2>3, <2>5, <2>6
  <1>9. CASE c.on /\ ~c.repeats /\ c.memory = NoData
    <2>1. Finished(c) = disable(d)
      BY <1>1, <1>9 DEF Finished
    <2> QED  BY <1>2, <1>3, <2>1, DisableKeeps
  <1> QED  BY <1>4, <1>5, <1>6, <1>7, <1>8, <1>9

LEMMA AppendsOnce ==
  ASSUME NEW q \in Seq(Nat), NEW e \in Nat, IsInjective(q), \A i \in DOMAIN q: q[i] # e
  PROVE  /\ IsInjective(Append(q, e))
         /\ {Append(q, e)[i]: i \in DOMAIN Append(q, e)} = {q[i]: i \in DOMAIN q} \cup {e}
  <1>1. PICK r \in Seq(Nat): r = Append(q, e)
    <2>1. Append(q, e) \in Seq(Nat)
      OBVIOUS
    <2> QED  BY <2>1
  <1>2. PICK n \in Nat: n = Len(q)
    OBVIOUS
  <1>3. DOMAIN q = 1..n /\ DOMAIN r = 1..(n + 1) /\ r[n + 1] = e /\ \A i \in 1..n: r[i] = q[i]
    BY <1>1, <1>2
  <1>4. DOMAIN r = (DOMAIN q) \cup {n + 1} /\ n + 1 \notin DOMAIN q
    BY <1>3
  <1>5. IsInjective(r)
    BY <1>3, <1>4 DEF IsInjective
  <1>6. {r[i]: i \in DOMAIN r} = {q[i]: i \in DOMAIN q} \cup {e}
    BY <1>3, <1>4
  <1> QED  BY <1>1, <1>5, <1>6

\* One turn of the loop.
LEMMA TurnKeeps ==
  ASSUME NEW K, NEW c \in Objects(K), Ordered(c), c.firing, More(c)
  PROVE  LET n == c.index + 1
             d == [c EXCEPT !.index = n, !.called = Append(@, c.list[n + 1].id)]
         IN  /\ n + 1 \in DOMAIN c.list /\ c.list[n + 1] \in Entries(K)
             /\ d \in Objects(K) /\ Ordered(d) /\ d.firing
  <1>1. c.list \in Seq(Entries(K)) /\ c.index \in Int /\ c.called \in Seq(Nat) /\ c.count \in Nat
    BY DEF Objects
  <1>2. PICK l \in Nat: l = Len(c.list)
    BY <1>1
  <1>3. DOMAIN c.list = 1..l /\ c.length = l /\ c.on
    BY <1>1, <1>2 DEF More, Ordered
  <1>4. PICK n \in Int: n = c.index + 1
    BY <1>1
  <1>5. n + 1 \in 1..l
    BY <1>1, <1>2, <1>3, <1>4 DEF More, Ordered
  <1>6. c.list[n + 1] \in Entries(K)
    BY <1>1, <1>3, <1>5
  <1>7. PICK id \in Nat: id = c.list[n + 1].id
    BY <1>6 DEF Entries
  <1>8. id \notin CalledIds(c) /\ id \in 1..c.count
    <2>1. (n + 1) - 1 > c.index
      BY <1>1, <1>4
    <2> QED  BY <1>3, <1>5, <1>7, <2>1 DEF Ordered
  <1>9. PICK q \in Seq(Nat): q = Append(c.called, id)
    <2>1. Append(c.called, id) \in Seq(Nat)
      BY <1>1
    <2> QED  BY <2>1
  <1>10. IsInjective(q) /\ {q[i]: i \in DOMAIN q} = CalledIds(c) \cup {id}
    <2>1. IsInjective(c.called) /\ \A i \in DOMAIN c.called: c.called[i] # id
      BY <1>8 DEF Ordered, CalledIds
    <2>2. PICK p \in Seq(Nat): p = c.called
      BY <1>1
    <2>3. IsInjective(Append(p, id)) /\ {Append(p, id)[i]: i \in DOMAIN Append(p, id)} = {p[i]: i \in DOMAIN p} \cup {id}
      <3>1. IsInjective(p) /\ \A i \in DOMAIN p: p[i] # id
        BY <2>1, <2>2
      <3> QED  BY <3>1, AppendsOnce
    <2>4. q = Append(p, id) /\ CalledIds(c) = {p[i]: i \in DOMAIN p}
      BY <1>9, <2>2 DEF CalledIds
    <2> QED  BY Zenon, <2>3, <2>4
  <1>11. PICK d \in Objects(K): d = [c EXCEPT !.index = n, !.called = q]
    BY DEF Objects
  <1>12. /\ d.list = c.list /\ d.count = c.count /\ d.on = c.on /\ d.firing = c.firing /\ d.index = n
         /\ d.start = c.start /\ d.called = q /\ d.cleared = c.cleared /\ d.length = c.length
    BY <1>11 DEF Objects
  <1>13. CalledIds(d) = CalledIds(c) \cup {id}
    BY <1>10, <1>12 DEF CalledIds
  <1>14. Ordered(d)
    <2>1. \A i, j \in DOMAIN d.list: d.list[i].id = d.list[j].id => i = j
      BY <1>12 DEF Ordered
    <2>2. \A i \in DOMAIN d.list: d.list[i].id \in 1..d.count
      BY <1>12 DEF Ordered
    <2>3. IsInjective(d.called) /\ CalledIds(d) \subseteq 1..d.count
      BY <1>8, <1>10, <1>12, <1>13 DEF Ordered
    <2>4. \A i \in DOMAIN d.list: i - 1 > d.index => d.list[i].id \notin CalledIds(d)
      <3>1. SUFFICES ASSUME NEW i \in 1..l, i - 1 > n  PROVE c.list[i].id \notin CalledIds(d)
        BY <1>3, <1>12
      <3>2. c.list[i].id \notin CalledIds(c)
        <4>1. i - 1 > c.index
          BY <1>1, <1>4, <3>1
        <4> QED  BY <1>3, <4>1 DEF Ordered
      <3>3. c.list[i].id # id
        <4>1. i # n + 1
          BY <3>1
        <4> QED  BY <1>3, <1>5, <1>7, <4>1 DEF Ordered
      <3> QED  BY <1>13, <3>2, <3>3
    <2>5. ~d.cleared => \A i \in DOMAIN d.list: i - 1 <= d.index => d.list[i].id \in CalledIds(d)
      <3>1. SUFFICES ASSUME ~c.cleared, NEW i \in 1..l, i - 1 <= n  PROVE c.list[i].id \in CalledIds(d)
        BY <1>3, <1>12
      <3>2. CASE i = n + 1
        BY <1>7, <1>13, <3>2
      <3>3. CASE i # n + 1
        <4>1. i - 1 <= c.index
          BY <1>1, <1>4, <3>1, <3>3
        <4>2. c.list[i].id \in CalledIds(c)
          BY <1>3, <3>1, <4>1 DEF Ordered
        <4> QED  BY <1>13, <4>2
      <3> QED  BY <3>2, <3>3
    <2>6. d.index >= -1 /\ d.index < Len(d.list) /\ d.length = Len(d.list) /\ d.start = 0 /\ d.on
      BY <1>2, <1>3, <1>5, <1>12 DEF Ordered
    <2> QED  BY <1>12, <2>1, <2>2, <2>3, <2>4, <2>5, <2>6 DEF Ordered
  <1>15. [c EXCEPT !.index = c.index + 1, !.called = Append(@, c.list[(c.index + 1) + 1].id)] = d
    BY <1>4, <1>7, <1>9, <1>11
  <1> QED  BY <1>3, <1>4, <1>5, <1>6, <1>12, <1>14, <1>15

-----------------------------------------------------------------------------
\* Counting, for remove.

LEMMA CountingUp ==
  ASSUME NEW T, 0 \in T, \A n \in Nat: n \in T => n + 1 \in T
  PROVE  Nat \subseteq T
  <1> DEFINE Bad == Nat \ T
  <1> SUFFICES ASSUME Bad # {} PROVE FALSE
    OBVIOUS
  <1>1. PICK n \in Bad: \A m \in Bad: ~ (<<m, n>> \in OpToRel(<, Nat))
    BY NatLessThanWellFounded, WFMin
  <1>2. n \in Nat /\ n # 0 /\ n - 1 \in Nat
    OBVIOUS
  <1>3. n - 1 \in Bad
    BY <1>2
  <1>4. <<n - 1, n>> \in OpToRel(<, Nat)
    BY <1>2 DEF OpToRel
  <1> QED  BY <1>1, <1>3, <1>4

Upto(S, n) == Cardinality({k \in S: k <= n})
Counted(S, N) == N \in Nat /\ S \subseteq 1..N

LEMMA UptoFinite ==
  ASSUME NEW N, NEW S, Counted(S, N), NEW n \in Int
  PROVE  IsFiniteSet({k \in S: k <= n}) /\ IsFiniteSet(S)
  <1>0. N \in Nat /\ S \subseteq 1..N
    BY DEF Counted
  <1>1. IsFiniteSet(1..N)
    BY <1>0, FS_Interval
  <1>2. S \in SUBSET (1..N)
    BY <1>0
  <1>3. IsFiniteSet(S)
    BY <1>1, <1>2, FS_Subset
  <1>4. {k \in S: k <= n} \in SUBSET S
    OBVIOUS
  <1> QED  BY <1>3, <1>4, FS_Subset

LEMMA UptoNat ==
  ASSUME NEW N, NEW S, Counted(S, N), NEW n \in Int
  PROVE  /\ Upto(S, n) \in Nat /\ Cardinality(S) \in Nat /\ Upto(S, n) <= Cardinality(S)
         /\ n >= N => Upto(S, n) = Cardinality(S)
         /\ n <= 0 => Upto(S, n) = 0
  <1>0. N \in Nat /\ \A k \in S: k \in Int /\ k <= N /\ k >= 1
    BY DEF Counted
  <1>1. PICK T : T = {k \in S: k <= n}
    OBVIOUS
  <1>2. IsFiniteSet(T) /\ IsFiniteSet(S) /\ T \in SUBSET S
    BY <1>1, UptoFinite
  <1>3. Cardinality(T) \in Nat /\ Cardinality(S) \in Nat /\ Cardinality(T) <= Cardinality(S)
    BY <1>2, FS_CardinalityType, FS_Subset
  <1>4. ASSUME n >= N  PROVE T = S
    <2>1. \A k \in S: k <= n
      BY <1>0, <1>4
    <2> QED  BY <1>1, <2>1
  <1>5. ASSUME n <= 0  PROVE T = {}
    <2>1. \A k \in S: ~(k <= n)
      BY <1>0, <1>5
    <2> QED  BY <1>1, <2>1
  <1>6. Upto(S, n) = Cardinality(T)
    BY <1>1 DEF Upto
  <1> QED  BY <1>3, <1>4, <1>5, <1>6, FS_EmptySet

LEMMA UptoNext ==
  ASSUME NEW N, NEW S, Counted(S, N), NEW n \in Nat
  PROVE  Upto(S, n + 1) = Upto(S, n) + (IF n + 1 \in S THEN 1 ELSE 0)
  <1> DEFINE A == {k \in S: k <= n}
  <1>0. \A k \in S: k \in Int
    BY DEF Counted
  <1>1. IsFiniteSet(A) /\ Upto(S, n) \in Nat
    BY UptoNat, UptoFinite
  <1>2. CASE n + 1 \in S
    <2>1. {k \in S: k <= n + 1} = A \cup {n + 1} /\ n + 1 \notin A
      BY <1>0, <1>2
    <2> QED  BY <1>1, <1>2, <2>1, FS_AddElement DEF Upto
  <1>3. CASE n + 1 \notin S
    <2>1. {k \in S: k <= n + 1} = A
      BY <1>0, <1>3
    <2> QED  BY <1>1, <1>3, <2>1 DEF Upto
  <1> QED  BY <1>2, <1>3

\* Between two places no more are counted than there are places.
LEMMA UptoGrows ==
  ASSUME NEW N, NEW S, Counted(S, N), NEW i \in Nat
  PROVE  \A n \in Nat: Upto(S, i) <= Upto(S, i + n) /\ Upto(S, i + n) <= Upto(S, i) + n
  <1> DEFINE T == {n \in Nat: Upto(S, i) <= Upto(S, i + n) /\ Upto(S, i + n) <= Upto(S, i) + n}
  <1>1. 0 \in T
    BY UptoNat
  <1>2. ASSUME NEW n \in Nat, n \in T  PROVE n + 1 \in T
    <2>1. i + n \in Nat /\ (i + n) + 1 = i + (n + 1)
      OBVIOUS
    <2>2. Upto(S, i + (n + 1)) = Upto(S, i + n) + (IF (i + n) + 1 \in S THEN 1 ELSE 0)
      BY <2>1, UptoNext
    <2>3. Upto(S, i) \in Nat /\ Upto(S, i + n) \in Nat
      BY <2>1, UptoNat
    <2> QED  BY <1>2, <2>2, <2>3
  <1> HIDE DEF T
  <1>3. Nat \subseteq T
    BY <1>1, <1>2, CountingUp
  <1> QED  BY <1>3 DEF T

LEMMA UptoBoth ==
  ASSUME NEW N, NEW S, Counted(S, N), NEW n \in 0..N
  PROVE  Upto(S, n) + Upto((1..N) \ S, n) = n
  <1> DEFINE R == (1..N) \ S
             T == {m \in Nat: m <= N => Upto(S, m) + Upto(R, m) = m}
  <1>0. N \in Nat /\ Counted(R, N)
    BY DEF Counted
  <1>1. 0 \in T
    BY <1>0, UptoNat
  <1>2. ASSUME NEW m \in Nat, m \in T  PROVE m + 1 \in T
    <2>1. Upto(S, m) \in Nat /\ Upto(R, m) \in Nat
      BY <1>0, UptoNat
    <2>2. /\ Upto(S, m + 1) = Upto(S, m) + (IF m + 1 \in S THEN 1 ELSE 0)
          /\ Upto(R, m + 1) = Upto(R, m) + (IF m + 1 \in R THEN 1 ELSE 0)
      BY <1>0, UptoNext
    <2>3. m + 1 <= N => (m + 1 \in S <=> ~(m + 1 \in R))
      BY <1>0
    <2> QED  BY <1>0, <1>2, <2>1, <2>2, <2>3
  <1> HIDE DEF T
  <1>3. Nat \subseteq T
    BY <1>1, <1>2, CountingUp
  <1> QED  BY <1>0, <1>3 DEF T

LEMMA NthThere ==
  ASSUME NEW N, NEW S, Counted(S, N), NEW m \in 1..Cardinality(S)
  PROVE  Nth(S, m) \in S /\ Upto(S, Nth(S, m)) = m
  <1> DEFINE T == {n \in Nat: \A p \in 1..Upto(S, n): \E i \in S: Upto(S, i) = p}
  <1>1. 0 \in T
    BY UptoNat
  <1>2. ASSUME NEW n \in Nat, n \in T  PROVE n + 1 \in T
    <2>1. Upto(S, n + 1) = Upto(S, n) + (IF n + 1 \in S THEN 1 ELSE 0) /\ Upto(S, n) \in Nat
      BY UptoNext, UptoNat
    <2>2. SUFFICES ASSUME NEW p \in 1..Upto(S, n + 1)  PROVE \E i \in S: Upto(S, i) = p
      OBVIOUS
    <2>3. CASE p <= Upto(S, n)
      BY <1>2, <2>1, <2>3
    <2>4. CASE p > Upto(S, n)
      <3>1. n + 1 \in S /\ Upto(S, n + 1) = p
        BY <2>1, <2>4
      <3> QED  BY <3>1
    <2> QED  BY <2>1, <2>3, <2>4
  <1> HIDE DEF T
  <1>3. Nat \subseteq T
    BY <1>1, <1>2, CountingUp
  <1>0. N \in Nat
    BY DEF Counted
  <1>4. Upto(S, N) = Cardinality(S)
    BY <1>0, UptoNat
  <1>5. \E i \in S: Upto(S, i) = m
    BY <1>0, <1>3, <1>4 DEF T
  <1>6. Nth(S, m) = CHOOSE i \in S: Upto(S, i) = m
    BY DEF Nth, Upto
  <1> QED  BY <1>5, <1>6

-----------------------------------------------------------------------------
\* remove.

LEMMA RemoveKeeps ==
  ASSUME NEW K, NEW c \in Objects(K), Ordered(c), NEW fn
  PROVE  remove(c, fn) \in Objects(K) /\ Ordered(remove(c, fn)) /\ remove(c, fn).firing = c.firing
  <1>1. CASE ~c.on
    BY <1>1 DEF remove
  <1>2. ASSUME c.on
        PROVE  remove(c, fn) \in Objects(K) /\ Ordered(remove(c, fn)) /\ remove(c, fn).firing = c.firing
    <2>1. c.list \in Seq(Entries(K)) /\ c.index \in Int /\ c.length \in Int /\ c.firing \in BOOLEAN
      BY DEF Objects
    <2>2. PICK N \in Nat: N = Len(c.list)
      BY <2>1
    <2>3. DOMAIN c.list = 1..N
      BY <2>1, <2>2
    <2>4. PICK S : S = Kept(c, fn)
      OBVIOUS
    <2>5. PICK R : R = (1..N) \ S
      OBVIOUS
    <2>a. Counted(S, N) /\ Counted(R, N)
      BY <2>3, <2>4, <2>5 DEF Kept, Counted
    <2>6. PICK M \in Nat: M = Cardinality(S)
      BY <2>a, UptoNat
    <2>7. \A n \in 1..M: Nth(S, n) \in S /\ Upto(S, Nth(S, n)) = n
      BY <2>6, <2>a, NthThere
    <2>8. PICK l \in Seq(Entries(K)): l = Without(c, fn)
      <3>1. \A n \in 1..M: c.list[Nth(S, n)] \in Entries(K)
        <4>1. \A i \in S: c.list[i] \in Entries(K)
          BY <2>1, <2>3, <2>a DEF Counted
        <4> QED  BY <2>7, <4>1
      <3>2. [n \in 1..M |-> c.list[Nth(S, n)]] \in [1..M -> Entries(K)]
        BY <3>1
      <3>3. [n \in 1..M |-> c.list[Nth(S, n)]] \in Seq(Entries(K))
        BY <3>2, SeqDef
      <3>4. Without(c, fn) = [n \in 1..M |-> c.list[Nth(S, n)]]
        BY <2>4, <2>6 DEF Without
      <3> QED  BY <3>3, <3>4
    <2>9. l = [n \in 1..M |-> c.list[Nth(S, n)]]
      BY <2>4, <2>6, <2>8 DEF Without
    <2>10. DOMAIN l = 1..M /\ Len(l) = M /\ \A n \in 1..M: l[n] = c.list[Nth(S, n)]
      BY <2>8, <2>9
    <2>11. \A n \in Int: Down(c, fn, n) = IF c.firing THEN n - Upto(R, n + 1) ELSE n
      <3>1. TAKE n \in Int
      <3>2. {i \in DOMAIN c.list \ Kept(c, fn): i - 1 <= n} = {k \in R: k <= n + 1}
        BY <2>3, <2>4, <2>5
      <3> QED  BY <3>2 DEF Down, Upto
    <2>b. \A n \in Int: Upto(R, n) \in Nat /\ Upto(S, n) \in Nat /\ Upto(S, n) <= M
      BY <2>6, <2>a, UptoNat
    <2>12. PICK g \in Int: g = Down(c, fn, c.length)
      <3>1. c.length + 1 \in Int
        BY <2>1
      <3>2. Upto(R, c.length + 1) \in Nat
        BY <2>b, <3>1
      <3>3. Down(c, fn, c.length) = IF c.firing THEN c.length - Upto(R, c.length + 1) ELSE c.length
        BY <2>1, <2>11
      <3> QED  BY <2>1, <3>2, <3>3
    <2>13. PICK x \in Int: x = Down(c, fn, c.index)
      <3>1. c.index + 1 \in Int
        BY <2>1
      <3>2. Upto(R, c.index + 1) \in Nat
        BY <2>b, <3>1
      <3>3. Down(c, fn, c.index) = IF c.firing THEN c.index - Upto(R, c.index + 1) ELSE c.index
        BY <2>1, <2>11
      <3> QED  BY <2>1, <3>2, <3>3
    <2>c. c.firing => x = c.index - Upto(R, c.index + 1)
      BY <2>1, <2>11, <2>13
    <2>14. PICK d \in Objects(K): d = [c EXCEPT !.list = l, !.length = g, !.index = x]
      BY DEF Objects
    <2>15. /\ d.list = l /\ d.count = c.count /\ d.on = c.on /\ d.firing = c.firing /\ d.index = x /\ d.length = g
           /\ d.start = c.start /\ d.called = c.called /\ d.cleared = c.cleared /\ d.memory = c.memory
      BY <2>14 DEF Objects
    <2>16. remove(c, fn) = d
      BY <1>2, <2>8, <2>12, <2>13, <2>14 DEF remove
    <2>17. CalledIds(d) = CalledIds(c)
      BY <2>15 DEF CalledIds
    <2>18. \A n \in 1..M: Nth(S, n) \in 1..N /\ l[n].id = c.list[Nth(S, n)].id
      BY <2>7, <2>10, <2>a DEF Counted
    <2>19. \A i, j \in DOMAIN l: l[i].id = l[j].id => i = j
      <3>1. SUFFICES ASSUME NEW i \in 1..M, NEW j \in 1..M, l[i].id = l[j].id  PROVE i = j
        BY <2>10
      <3>2. Nth(S, i) = Nth(S, j)
        BY <2>3, <2>18, <3>1 DEF Ordered
      <3> QED  BY <2>7, <3>2
    <2>20. \A i \in DOMAIN l: l[i].id \in 1..c.count
      BY <2>3, <2>10, <2>18 DEF Ordered
    <2>21. c.firing => /\ g = M /\ x >= -1
                       /\ \A n \in 1..M: n - 1 > x => l[n].id \notin CalledIds(c)
      <3>1. SUFFICES ASSUME c.firing
                     PROVE  g = M /\ x >= -1 /\ \A n \in 1..M: n - 1 > x => l[n].id \notin CalledIds(c)
        OBVIOUS
      <3>2. c.length = N /\ c.index >= -1
        BY <1>2, <2>2, <3>1 DEF Ordered
      <3>3. Upto(R, N + 1) = N - M
        <4>0. N \in Int /\ N + 1 \in Int /\ N + 1 >= N /\ N >= N
          OBVIOUS
        <4>1. Upto(R, N + 1) = Cardinality(R) /\ Upto(R, N) = Cardinality(R)
          BY <2>a, <4>0, UptoNat
        <4>2. Upto(S, N) = M /\ Upto(R, N) \in Nat
          BY <2>6, <2>a, <4>0, UptoNat
        <4>3. Upto(S, N) + Upto(R, N) = N
          <5>1. N \in 0..N
            OBVIOUS
          <5> QED  BY <2>5, <2>a, <5>1, UptoBoth
        <4> QED  BY <4>1, <4>2, <4>3
      <3>4. g = M
        BY <2>11, <2>12, <3>1, <3>2, <3>3
      <3>5. PICK y \in Nat: y = c.index + 1
        BY <2>1, <3>2
      <3>6. x = y - 1 - Upto(R, y) /\ Upto(R, y) \in Nat
        <4>0. y \in Int
          OBVIOUS
        <4>1. Upto(R, y) \in Nat
          BY Zenon, <2>b, <4>0
        <4> QED  BY <2>1, <2>c, <3>1, <3>5, <4>1
      <3>7. Upto(R, y) <= y
        <4>1. Upto(R, 0 + y) <= Upto(R, 0) + y /\ Upto(R, 0) = 0
          BY <2>a, UptoGrows, UptoNat
        <4> QED  BY <4>1
      <3>8. \A n \in 1..M: n - 1 > x => l[n].id \notin CalledIds(c)
        <4>1. SUFFICES ASSUME NEW n \in 1..M, n - 1 > x  PROVE l[n].id \notin CalledIds(c)
          OBVIOUS
        <4>2. PICK i \in 1..N: i = Nth(S, n) /\ l[n].id = c.list[i].id /\ Upto(S, i) = n
          BY <2>7, <2>18
        <4>3. i - 1 > c.index
          <5>1. SUFFICES ASSUME i <= y  PROVE FALSE
            BY <2>1, <3>5
          <5>2. PICK m \in Nat: y = i + m
            BY <5>1
          <5>0. i \in Nat /\ i \in Int /\ i \in 0..N
            OBVIOUS
          <5>3. Upto(R, i + m) <= Upto(R, i) + m
            BY <5>0, <2>a, UptoGrows
          <5>4. Upto(S, i) + Upto(R, i) = i
            BY <2>5, <2>a, <5>0, UptoBoth
          <5>5. Upto(R, i) \in Nat
            BY Zenon, <2>b, <5>0
          <5>6. Upto(R, y) <= Upto(R, i) + m
            BY <5>2, <5>3
          <5>7. PICK u \in Nat, v \in Nat: u = Upto(R, i) /\ v = Upto(R, y)
            BY <3>6, <5>5
          <5>8. n + u = i
            BY <4>2, <5>4, <5>7
          <5>9. v <= u + m
            BY <5>6, <5>7
          <5>10. x = y - 1 - v
            BY <3>6, <5>7
          <5> QED  BY <4>1, <5>2, <5>8, <5>9, <5>10
        <4> QED  BY <1>2, <2>3, <3>1, <4>2, <4>3 DEF Ordered
      <3> QED  BY <3>4, <3>6, <3>7, <3>8
    <2>22. c.firing /\ ~c.cleared => /\ x < M
                                     /\ \A n \in 1..M: n - 1 <= x => l[n].id \in CalledIds(c)
      <3>1. SUFFICES ASSUME c.firing, ~c.cleared
                     PROVE  x < M /\ \A n \in 1..M: n - 1 <= x => l[n].id \in CalledIds(c)
        OBVIOUS
      <3>2. c.index >= -1 /\ c.index < N
        BY <1>2, <2>2, <3>1 DEF Ordered
      <3>3. PICK y \in 0..N: y = c.index + 1
        BY <2>1, <3>2
      <3>4. x = y - 1 - Upto(R, y) /\ Upto(R, y) \in Nat /\ Upto(S, y) \in Nat /\ Upto(S, y) <= M
        <4>0. y \in Int
          OBVIOUS
        <4>1. Upto(R, y) \in Nat /\ Upto(S, y) \in Nat /\ Upto(S, y) <= M
          BY Zenon, <2>b, <4>0
        <4> QED  BY <2>1, <2>c, <3>1, <3>3, <4>1
      <3>5. Upto(S, y) + Upto(R, y) = y
        BY <2>5, <2>a, UptoBoth
      <3>6. x + 1 = Upto(S, y)
        BY <3>4, <3>5
      <3>7. \A n \in 1..M: n - 1 <= x => l[n].id \in CalledIds(c)
        <4>1. SUFFICES ASSUME NEW n \in 1..M, n - 1 <= x  PROVE l[n].id \in CalledIds(c)
          OBVIOUS
        <4>2. PICK i \in 1..N: i \in S /\ l[n].id = c.list[i].id /\ Upto(S, i) = n
          BY <2>7, <2>18
        <4>3. i - 1 <= c.index
          <5>s. SUFFICES ASSUME i > y  PROVE FALSE
            BY <2>1, <3>3
          <5>2. PICK m \in Nat: i - 1 = y + m
            BY <5>s
          <5>0. y \in Nat
            OBVIOUS
          <5>1. PICK k \in Nat: k = i - 1
            OBVIOUS
          <5>3. Upto(S, y) <= Upto(S, k)
            <6>1. Upto(S, y) <= Upto(S, y + m)
              BY <5>0, <2>a, UptoGrows
            <6>2. k = y + m
              BY <5>1, <5>2
            <6> QED  BY <6>1, <6>2
          <5>4. Upto(S, k + 1) = Upto(S, k) + (IF k + 1 \in S THEN 1 ELSE 0)
            BY <2>a, UptoNext
          <5>5. k + 1 = i /\ i \in S /\ k \in Int
            BY <4>2, <5>1
          <5>6. Upto(S, k) \in Nat
            BY Zenon, <2>b, <5>5
          <5>7. Upto(S, i) = Upto(S, k) + 1
            BY <5>4, <5>5
          <5> QED  BY <3>4, <3>6, <4>1, <4>2, <5>3, <5>6, <5>7
        <4> QED  BY <1>2, <2>3, <3>1, <4>2, <4>3 DEF Ordered
      <3> QED  BY <3>4, <3>6, <3>7
    <2>23. ~c.firing /\ c.memory # NoData /\ ~c.cleared => \A n \in 1..M: l[n].id \in CalledIds(c)
      BY <1>2, <2>3, <2>18 DEF Ordered
    <2>24. Ordered(d)
      <3>1. IsInjective(d.called) /\ CalledIds(d) \subseteq 1..d.count /\ d.start = 0
        BY <2>15, <2>17 DEF Ordered
      <3> QED  BY <1>2, <2>10, <2>15, <2>17, <2>19, <2>20, <2>21, <2>22, <2>23, <3>1 DEF Ordered
    <2> QED  BY <2>15, <2>16, <2>24
  <1> QED  BY <1>1, <1>2

-----------------------------------------------------------------------------
\* The lists and the stack together.

LEMMA ListsWhere ==
  ASSUME NEW K, K \subseteq Promises
  PROVE  ListsOf(K) \subseteq Where
  BY DEF ListsOf, Where

\* What is said of the scripts is about their lists, states and stack.
LEMMA SameFirm ==
  ASSUME NEW K, NEW j, Firm(K, j), NEW y, DOMAIN y = ScriptFields, y.states = j.states, y.lists = j.lists,
         y.stack = j.stack
  PROVE  Firm(K, y)
  <1>1. Made(y) = Made(j) /\ Loops(y) = Loops(j)
    BY DEF Made, Loops
  <1> QED  BY <1>1 DEF Firm, Typed, Looping

LEMMA PushKeeps ==
  ASSUME NEW K, NEW j, Firm(K, j), NEW f \in Frames(K),
         f.kind = "fire" => j.lists[f.list].firing /\ \A i \in Loops(j): j.stack[i].list # f.list
  PROVE  Firm(K, Push(j, f)) /\ Push(j, f).lists = j.lists /\ Push(j, f).states = j.states
  <1>1. j.stack \in Seq(Frames(K)) /\ DOMAIN j = ScriptFields
    BY DEF Firm, Typed
  <1>2. PICK s \in Seq(Frames(K)): s = Append(j.stack, f)
    <2>1. Append(j.stack, f) \in Seq(Frames(K))
      BY <1>1
    <2> QED  BY <2>1
  <1>3. PICK n \in Nat: n = Len(j.stack)
    BY <1>1
  <1>4. DOMAIN j.stack = 1..n /\ DOMAIN s = 1..(n + 1) /\ s[n + 1] = f /\ \A i \in 1..n: s[i] = j.stack[i]
    BY <1>1, <1>2, <1>3
  <1>5. PICK y : y = Push(j, f)
    OBVIOUS
  <1>6. DOMAIN y = ScriptFields /\ y.stack = s /\ y.lists = j.lists /\ y.states = j.states
    BY <1>1, <1>2, <1>5 DEF Push, ScriptFields
  <1>7. \A i \in Loops(y): i \in Loops(j) \/ (i = n + 1 /\ f.kind = "fire")
    BY <1>4, <1>6 DEF Loops
  <1>8. \A i \in Loops(j): i \in 1..n /\ y.stack[i] = j.stack[i]
    BY <1>4, <1>6 DEF Loops
  <1>9. Looping(y)
    <2>1. ASSUME NEW i \in Loops(y)  PROVE y.lists[y.stack[i].list].firing
      BY <1>4, <1>6, <1>7, <1>8 DEF Looping, Firm
    <2>2. ASSUME NEW i \in Loops(y), NEW k \in Loops(y), y.stack[i].list = y.stack[k].list  PROVE i = k
      BY <1>4, <1>6, <1>7, <1>8, <2>2 DEF Looping, Firm
    <2> QED  BY <2>1, <2>2 DEF Looping
  <1>10. Made(y) = Made(j)
    BY <1>6 DEF Made
  <1>11. Firm(K, y)
    BY <1>6, <1>9, <1>10 DEF Firm, Typed
  <1> QED  BY <1>5, <1>6, <1>11

LEMMA PopKeeps ==
  ASSUME NEW K, NEW j, Firm(K, j), j.stack # <<>>
  PROVE  /\ Firm(K, Pop(j)) /\ Pop(j).lists = j.lists /\ Pop(j).states = j.states
         /\ Top(j) \in Frames(K)
         /\ Top(j).kind = "fire" => /\ j.lists[Top(j).list].firing /\ Top(j).list \in ListsOf(K) /\ Top(j).data \in Nat
                                    /\ \A i \in Loops(Pop(j)): Pop(j).stack[i].list # Top(j).list
         /\ Top(j).kind = "rest" => Top(j).calls \in Jobs(K) \ {<<>>}
  <1>1. j.stack \in Seq(Frames(K)) /\ DOMAIN j = ScriptFields
    BY DEF Firm, Typed
  <1>2. PICK n \in Nat: n = Len(j.stack) /\ n >= 1
    BY <1>1
  <1>3. PICK s \in Seq(Frames(K)): s = Front(j.stack) /\ DOMAIN s = 1..(n - 1) /\ \A i \in 1..(n - 1): s[i] = j.stack[i]
    <2>1. Front(j.stack) \in Seq(Frames(K))
      BY <1>1, <1>2 DEF Front
    <2>2. Len(Front(j.stack)) = n - 1 /\ \A i \in 1..(n - 1): Front(j.stack)[i] = j.stack[i]
      BY <1>1, <1>2 DEF Front
    <2> QED  BY <2>1, <2>2
  <1>4. DOMAIN j.stack = 1..n /\ Top(j) = j.stack[n]
    BY <1>1, <1>2 DEF Top, Last
  <1>5. PICK y : y = Pop(j)
    OBVIOUS
  <1>6. DOMAIN y = ScriptFields /\ y.stack = s /\ y.lists = j.lists /\ y.states = j.states
    BY <1>1, <1>3, <1>5 DEF Pop, ScriptFields
  <1>7. \A i \in Loops(y): i \in Loops(j) /\ i \in 1..(n - 1) /\ y.stack[i] = j.stack[i]
    BY <1>3, <1>4, <1>6 DEF Loops
  <1>8. Looping(y)
    BY <1>6, <1>7 DEF Looping, Firm
  <1>9. Made(y) = Made(j)
    BY <1>6 DEF Made
  <1>10. Firm(K, y)
    BY <1>6, <1>8, <1>9 DEF Firm, Typed
  <1>11. Top(j) \in Frames(K)
    BY <1>1, <1>2, <1>4
  <1>12. Top(j).kind = "fire" =>
             /\ j.lists[Top(j).list].firing /\ Top(j).list \in ListsOf(K) /\ Top(j).data \in Nat
             /\ \A i \in Loops(y): y.stack[i].list # Top(j).list
    <2>1. SUFFICES ASSUME Top(j).kind = "fire"
                   PROVE  /\ j.lists[Top(j).list].firing /\ Top(j).list \in ListsOf(K) /\ Top(j).data \in Nat
                          /\ \A i \in Loops(y): y.stack[i].list # Top(j).list
      OBVIOUS
    <2>2. n \in Loops(j)
      BY <1>2, <1>4, <2>1 DEF Loops
    <2>3. Top(j).list \in ListsOf(K) /\ Top(j).data \in Nat
      BY <1>11, <2>1 DEF Frames
    <2>4. ASSUME NEW i \in Loops(y)  PROVE y.stack[i].list # Top(j).list
      BY <1>4, <1>7, <2>2 DEF Looping, Firm
    <2> QED  BY <1>4, <2>2, <2>3, <2>4 DEF Looping, Firm
  <1>13. Top(j).kind = "rest" => Top(j).calls \in Jobs(K) \ {<<>>}
    BY <1>11 DEF Frames
  <1> QED  BY <1>5, <1>6, <1>10, <1>11, <1>12, <1>13

LEMMA PopFirm ==
  ASSUME NEW K, NEW j, Firm(K, j)
  PROVE  Firm(K, Pop(j))
  <1>1. CASE j.stack # <<>>
    BY <1>1, PopKeeps
  <1>2. CASE j.stack = <<>>
    <2>1. DOMAIN j = ScriptFields
      BY DEF Firm, Typed
    <2>2. Front(j.stack) = <<>>
      BY <1>2 DEF Front
    <2>3. DOMAIN Pop(j) = ScriptFields /\ Pop(j).lists = j.lists /\ Pop(j).states = j.states /\ Pop(j).stack = j.stack
      BY <1>2, <2>1, <2>2 DEF Pop, ScriptFields
    <2> QED  BY <2>3, SameFirm
  <1> QED  BY <1>1, <1>2

\* A list is changed, and not while it is firing to one that is not.
LEMMA ListKeeps ==
  ASSUME NEW K, NEW j, Firm(K, j), NEW l \in Where, NEW c \in Objects(K), Ordered(c),
         \A i \in Loops(j): j.stack[i].list = l => c.firing
  PROVE  LET y == [j EXCEPT !.lists[l] = c]
         IN  Firm(K, y) /\ y.lists[l] = c /\ y.stack = j.stack /\ y.states = j.states
  <1>1. PICK y : y = [j EXCEPT !.lists[l] = c]
    OBVIOUS
  <1>2. j.lists \in [Where -> Objects(K)] /\ DOMAIN j = ScriptFields
    BY DEF Firm, Typed
  <1>3. PICK h \in [Where -> Objects(K)]: h = [j.lists EXCEPT ![l] = c]
    BY <1>2
  <1>4. DOMAIN y = ScriptFields /\ y.stack = j.stack /\ y.lists = h /\ y.states = j.states
    BY <1>1, <1>2, <1>3 DEF ScriptFields
  <1>5. h[l] = c /\ \A m \in Where: m # l => h[m] = j.lists[m]
    BY <1>2, <1>3
  <1>6. Loops(y) = Loops(j) /\ Made(y) = Made(j)
    BY <1>4 DEF Loops, Made
  <1>7. Looping(y)
    <2>1. ASSUME NEW i \in Loops(y)  PROVE y.lists[y.stack[i].list].firing
      <3>1. j.stack[i] \in Frames(K) /\ j.stack[i].kind = "fire"
        BY <1>6 DEF Loops, Firm, Typed
      <3>2. j.stack[i].list \in Where
        BY <3>1, ListsWhere DEF Frames, Firm, Typed
      <3> QED  BY <1>4, <1>5, <1>6, <3>2 DEF Looping, Firm
    <2> QED  BY <1>4, <1>6, <2>1 DEF Looping, Firm
  <1>8. Firm(K, y)
    <2>1. \A m \in Where: Ordered(h[m])
      BY <1>5 DEF Firm
    <2> QED  BY <1>4, <1>6, <1>7, <2>1 DEF Firm, Typed
  <1> QED  BY <1>1, <1>4, <1>5, <1>8

LEMMA LoopKeeps ==
  ASSUME NEW K, NEW j, Firm(K, j), NEW l \in ListsOf(K), NEW c \in Objects(K), Ordered(c),
         j.lists[l].firing => c.firing, NEW data \in Nat
  PROVE  Firm(K, Loop(j, l, c, data))
  <1>1. l \in Where
    BY ListsWhere DEF Firm, Typed
  <1>2. PICK y : y = [j EXCEPT !.lists[l] = c]
    OBVIOUS
  <1>3. Firm(K, y) /\ y.lists[l] = c /\ y.stack = j.stack
    <2>1. \A i \in Loops(j): j.stack[i].list = l => c.firing
      BY DEF Firm, Looping
    <2> QED  BY <1>1, <1>2, <2>1, ListKeeps
  <1>4. CASE c.firing /\ ~j.lists[l].firing
    <2>1. PICK f : f = [kind |-> "fire", list |-> l, data |-> data]
      OBVIOUS
    <2>2. f \in Frames(K) /\ f.list = l
      BY <2>1 DEF Frames
    <2>3. \A i \in Loops(y): y.stack[i].list # f.list
      BY <1>3, <1>4, <2>2 DEF Firm, Looping, Loops
    <2>4. Firm(K, Push(y, f))
      BY <1>3, <1>4, <2>2, <2>3, PushKeeps
    <2> QED  BY <1>2, <1>4, <2>1, <2>4 DEF Loop
  <1>5. CASE ~(c.firing /\ ~j.lists[l].firing)
    BY <1>2, <1>3, <1>5 DEF Loop
  <1> QED  BY <1>4, <1>5

LEMMA AddFirm ==
  ASSUME NEW K, NEW j, Firm(K, j), NEW l \in ListsOf(K), NEW f \in Acts(K)
  PROVE  Firm(K, Add(j, l, f))
  <1>1. l \in Where
    BY ListsWhere DEF Firm, Typed
  <1>2. PICK c \in Objects(K): c = j.lists[l] /\ Ordered(c)
    BY <1>1 DEF Firm, Typed
  <1>3. PICK d \in Objects(K): d = add(c, f) /\ Ordered(d) /\ (c.firing => d.firing)
    BY <1>2, AddKeeps
  <1>4. PICK m \in Nat: m = c.memory
    BY DEF Objects
  <1>5. Firm(K, Loop(j, l, d, m))
    BY <1>2, <1>3, LoopKeeps
  <1> QED  BY <1>2, <1>3, <1>4, <1>5 DEF Add

LEMMA FireWithFirm ==
  ASSUME NEW K, NEW j, Firm(K, j), NEW l \in ListsOf(K), NEW data \in Nat
  PROVE  Firm(K, FireWith(j, l, data))
  <1>1. l \in Where
    BY ListsWhere DEF Firm, Typed
  <1>2. PICK c \in Objects(K): c = j.lists[l] /\ Ordered(c)
    BY <1>1 DEF Firm, Typed
  <1>3. PICK d \in Objects(K): d = fireWith(c, data) /\ Ordered(d) /\ (c.firing => d.firing)
    BY <1>2, FireWithKeeps
  <1>4. Firm(K, Loop(j, l, d, data))
    BY <1>2, <1>3, LoopKeeps
  <1> QED  BY <1>2, <1>3, <1>4 DEF FireWith

LEMMA PageFirm ==
  ASSUME NEW K, NEW j, Firm(K, j), NEW fn \in Fns
  PROVE  /\ Firm(K, Push(j, [kind |-> "page", fn |-> fn]))
         /\ Push(j, [kind |-> "page", fn |-> fn]).states = j.states
  <1>1. PICK f : f = [kind |-> "page", fn |-> fn]
    OBVIOUS
  <1>2. f \in Frames(K) /\ f.kind = "page"
    BY <1>1 DEF Frames
  <1> QED  BY <1>1, <1>2, PushKeeps

LEMMA RestFirm ==
  ASSUME NEW K, NEW j, Firm(K, j), NEW calls \in Jobs(K)
  PROVE  Firm(K, Rest(j, calls)) /\ Rest(j, calls).states = j.states
  <1>1. CASE calls = <<>>
    BY <1>1 DEF Rest
  <1>2. CASE calls # <<>>
    <2>1. PICK f : f = [kind |-> "rest", calls |-> calls]
      OBVIOUS
    <2>2. f \in Frames(K) /\ f.kind = "rest"
      BY <1>2, <2>1 DEF Frames
    <2> QED  BY <1>2, <2>1, <2>2, PushKeeps DEF Rest
  <1> QED  BY <1>1, <1>2

-----------------------------------------------------------------------------
\* What a function of a list does, and the calls of a function of jQuery.

LEMMA LateActs ==
  ASSUME NEW K
  PROVE  Late(K) \subseteq Acts(K) /\ Chain(K) \subseteq Late(K)
  BY DEF Acts, Late

LEMMA ActsTyped ==
  ASSUME NEW K
  PROVE  /\ \A l \in ListsOf(K): Disables(l) \in Acts(K) /\ Locks(l) \in Acts(K) /\ Forwards(l) \in Late(K)
         /\ \A d \in K, name \in {"done", "fail"}: Settles(d, name) \in Acts(K)
         /\ \A d \in K, name \in {"done", "fail", "progress"}, returns \in {0, -1} \cup K:
                Chains(d, name, returns) \in Chain(K)
         /\ \A d \in K, name \in {"done", "progress"}: Updates(d, name) \in Late(K)
         /\ \A fn \in Fns: Calls(fn) \in Late(K)
         /\ \A r \in K: Does([call |-> "cleanup", r |-> r]) \in Late(K)
  <1>1. ASSUME NEW l \in ListsOf(K)  PROVE Disables(l) \in Acts(K) /\ Locks(l) \in Acts(K) /\ Forwards(l) \in Late(K)
    BY DEF Disables, Locks, Forwards, Acts, Late, Fns
  <1>2. ASSUME NEW d \in K, NEW name \in {"done", "fail"}  PROVE Settles(d, name) \in Acts(K)
    <2>1. Outcomes[name] \in {"resolved", "rejected"}
      BY DEF Outcomes
    <2> QED  BY <2>1 DEF Settles, Acts, Fns
  <1>3. ASSUME NEW d \in K, NEW name \in {"done", "fail", "progress"}, NEW returns \in {0, -1} \cup K
        PROVE  Chains(d, name, returns) \in Chain(K)
    BY DEF Chains, Chain, Fns
  <1>4. ASSUME NEW d \in K, NEW name \in {"done", "progress"}  PROVE Updates(d, name) \in Late(K)
    BY DEF Updates, Late, Fns
  <1>5. ASSUME NEW fn \in Fns  PROVE Calls(fn) \in Late(K)
    BY DEF Calls, Late
  <1>6. ASSUME NEW r \in K  PROVE Does([call |-> "cleanup", r |-> r]) \in Late(K)
    <2>1. PICK w \in [call: {"cleanup"}, r: K]: w = [call |-> "cleanup", r |-> r]
      OBVIOUS
    <2>2. Does(w) \in Late(K)
      BY DEF Does, Late, Fns
    <2> QED  BY <2>1, <2>2
  <1> QED  BY <1>1, <1>2, <1>3, <1>4, <1>5, <1>6

LEMMA AddTask ==
  ASSUME NEW K, NEW l \in ListsOf(K), NEW f \in Late(K)
  PROVE  /\ [call |-> "add", list |-> l, f |-> f] \in Tasks(K)
         /\ [call |-> "add", list |-> l, f |-> f].call \notin Stops
  BY DEF Tasks, Stops

\* Calls of which none may end the others.
LEMMA JobsTyped ==
  ASSUME NEW K, NEW n \in Nat, NEW f, f = [i \in 1..n |-> f[i]], \A i \in 1..n: f[i] \in Tasks(K) /\ f[i].call \notin Stops
  PROVE  f \in Jobs(K)
  <1>1. f \in [1..n -> Tasks(K)]
    OBVIOUS
  <1>2. f \in Seq(Tasks(K))
    BY <1>1, SeqDef
  <1>3. Len(f) = n /\ (n = 0 => f = <<>>)
    BY <1>1, <1>2
  <1> QED  BY <1>2, <1>3 DEF Jobs

LEMMA OneJob ==
  ASSUME NEW K, NEW t \in Tasks(K), t.call \notin Stops
  PROVE  <<t>> \in Jobs(K)
  <1>1. <<t>> \in Seq(Tasks(K)) /\ Len(<<t>>) = 1
    OBVIOUS
  <1> QED  BY <1>1 DEF Jobs

LEMMA AdoptJobs ==
  ASSUME NEW K, NEW j, NEW p \in K, NEW new \in K
  PROVE  \E f \in Jobs(K): Adopt(j, p, new) = Rest(j, f)
  <1> DEFINE f == [i \in 1..3 |-> [call |-> "add", list |-> <<p, Names[i]>>, f |-> Forwards(<<new, Names[i]>>)]]
  <1>1. \A i \in 1..3: f[i] \in Tasks(K) /\ f[i].call \notin Stops
    <2>1. TAKE i \in 1..3
    <2>2. Names[i] \in {"done", "fail", "progress"}
      BY DEF Names
    <2>3. PICK g : g = Forwards(<<new, Names[i]>>)
      OBVIOUS
    <2>4. g \in Late(K)
      <3>1. <<new, Names[i]>> \in ListsOf(K)
        BY <2>2 DEF ListsOf
      <3> QED  BY <2>3, <3>1, ActsTyped
    <2>5. f[i] = [call |-> "add", list |-> <<p, Names[i]>>, f |-> g]
      BY <2>3
    <2>6. <<p, Names[i]>> \in ListsOf(K)
      BY <2>2 DEF ListsOf
    <2> HIDE DEF f
    <2> QED  BY <2>4, <2>5, <2>6, AddTask
  <1>2. f \in Jobs(K)
    <2>1. f = [i \in 1..3 |-> f[i]]
      OBVIOUS
    <2> HIDE DEF f
    <2> QED  BY <1>1, <2>1, JobsTyped
  <1>3. Adopt(j, p, new) = Rest(j, f)
    BY DEF Adopt
  <1> HIDE DEF f
  <1> QED  BY <1>2, <1>3

LEMMA StateFirm ==
  ASSUME NEW K, NEW j, Firm(K, j), NEW d \in K, NEW to \in {"resolved", "rejected"}
  PROVE  Firm(K, [j EXCEPT !.states[d] = to])
  <1>1. DOMAIN j = ScriptFields /\ j.states \in [Promises -> States] /\ K \subseteq Promises /\ K = Made(j)
    BY DEF Firm, Typed
  <1>2. PICK g \in [Promises -> States]: g = [j.states EXCEPT ![d] = to]
    BY <1>1 DEF States
  <1>3. PICK y : y = [j EXCEPT !.states[d] = to]
    OBVIOUS
  <1>4. DOMAIN y = ScriptFields /\ y.lists = j.lists /\ y.states = g /\ y.stack = j.stack
    BY <1>1, <1>2, <1>3 DEF ScriptFields
  <1>5. Made(y) = K
    BY <1>1, <1>2, <1>4 DEF Made
  <1>6. Loops(y) = Loops(j)
    BY <1>4 DEF Loops
  <1> QED  BY <1>3, <1>4, <1>5, <1>6 DEF Firm, Typed, Looping

LEMMA ChangedFirm ==
  ASSUME NEW K, NEW j, Firm(K, j), NEW l \in Where
  PROVE  /\ Firm(K, [j EXCEPT !.lists[l] = disable(j.lists[l])])
         /\ Firm(K, [j EXCEPT !.lists[l] = lock(j.lists[l])])
         /\ Firm(K, [j EXCEPT !.lists[l] = empty(j.lists[l])])
         /\ \A fn: Firm(K, [j EXCEPT !.lists[l] = remove(j.lists[l], fn)])
  <1>1. PICK c \in Objects(K): c = j.lists[l] /\ Ordered(c)
    BY DEF Firm, Typed
  <1>2. \A i \in Loops(j): j.stack[i].list = l => c.firing
    BY <1>1 DEF Firm, Looping
  <1>3. PICK d \in Objects(K): d = disable(c) /\ Ordered(d) /\ d.firing = c.firing
    BY <1>1, DisableKeeps
  <1>4. PICK e \in Objects(K): e = lock(c) /\ Ordered(e) /\ e.firing = c.firing
    BY <1>1, LockKeeps
  <1>5. PICK g \in Objects(K): g = empty(c) /\ Ordered(g) /\ g.firing = c.firing
    BY <1>1, EmptyKeeps
  <1>6. ASSUME NEW fn  PROVE Firm(K, [j EXCEPT !.lists[l] = remove(j.lists[l], fn)])
    <2>1. PICK h \in Objects(K): h = remove(c, fn) /\ Ordered(h) /\ h.firing = c.firing
      BY <1>1, RemoveKeeps
    <2>2. Firm(K, [j EXCEPT !.lists[l] = h])
      BY <1>2, <2>1, ListKeeps
    <2> QED  BY <1>1, <2>1, <2>2
  <1>7. Firm(K, [j EXCEPT !.lists[l] = d]) /\ Firm(K, [j EXCEPT !.lists[l] = e]) /\ Firm(K, [j EXCEPT !.lists[l] = g])
    BY <1>2, <1>3, <1>4, <1>5, ListKeeps
  <1> QED  BY <1>1, <1>3, <1>4, <1>5, <1>6, <1>7

LEMMA ActKinds ==
  ASSUME NEW K, NEW f \in Acts(K)
  PROVE  /\ f.fn \in Fns
         /\ f.kind \in {"state", "disable", "lock", "fireWith", "then", "update", "page", "call"}
         /\ f.kind = "state" => f.deferred \in K /\ f.to \in {"resolved", "rejected"}
         /\ f.kind \in {"disable", "lock", "fireWith"} => f.list \in ListsOf(K)
         /\ f.kind = "then" => /\ f \in Chain(K) /\ f.deferred \in K /\ f.name \in {"done", "fail", "progress"}
                               /\ f.returns \in {0, -1} \cup K
         /\ f.kind = "update" => f \in [fn: Fns, kind: {"update"}, deferred: K, name: {"done", "progress"}]
         /\ f.kind = "call" => f.what \in [call: {"cleanup"}, r: K]
  BY DEF Acts, Late, Chain

-----------------------------------------------------------------------------
\* The loop, and the end of a function of the page.

LEMMA ContinueFirm ==
  ASSUME NEW K, NEW j, Firm(K, j), j.stack # <<>>, Top(j).kind = "fire", NEW l, l = Top(j).list,
         NEW c \in Objects(K), Ordered(c), c.firing => j.lists[l].queue # <<>>
  PROVE  Firm(K, Continue(j, l, c))
  <1>1. /\ Firm(K, Pop(j)) /\ Pop(j).lists = j.lists
        /\ l \in ListsOf(K) /\ \A i \in Loops(Pop(j)): Pop(j).stack[i].list # l
    BY PopKeeps
  <1>2. l \in Where
    BY <1>1, ListsWhere DEF Firm, Typed
  <1>3. PICK y : y = [j EXCEPT !.lists[l] = c]
    OBVIOUS
  <1>4. PICK z : z = [Pop(j) EXCEPT !.lists[l] = c]
    OBVIOUS
  <1>5. Firm(K, z) /\ z.lists[l] = c /\ z.stack = Pop(j).stack
    BY <1>1, <1>2, <1>4, ListKeeps
  <1>6. Pop(y) = z
    <2>1. DOMAIN j = ScriptFields
      BY DEF Firm, Typed
    <2>2. y.stack = j.stack
      BY <1>3, <2>1 DEF ScriptFields
    <2> QED  BY <1>3, <1>4, <2>1, <2>2 DEF Pop, ScriptFields
  <1>7. CASE c.firing
    <2>1. PICK h \in Nat: h = Head(j.lists[l].queue)
      <3>1. j.lists[l].queue \in Seq(Nat)
        BY <1>2 DEF Firm, Typed, Objects
      <3> QED  BY <1>7, <3>1
    <2>2. PICK f : f = [kind |-> "fire", list |-> l, data |-> h]
      OBVIOUS
    <2>3. f \in Frames(K) /\ f.list = l
      BY <1>1, <2>2 DEF Frames
    <2>4. \A i \in Loops(z): z.stack[i].list # f.list
      BY <1>1, <1>5, <2>3 DEF Loops
    <2>5. Firm(K, Push(z, f))
      BY <1>5, <1>7, <2>3, <2>4, PushKeeps
    <2> QED  BY <1>3, <1>6, <1>7, <2>1, <2>2, <2>5 DEF Continue
  <1>8. CASE ~c.firing
    BY <1>3, <1>5, <1>6, <1>8 DEF Continue
  <1> QED  BY <1>7, <1>8

LEMMA ThrowFirm ==
  ASSUME NEW K, NEW j, Firm(K, j)
  PROVE  Firm(K, Throw(j))
  <1>1. DOMAIN j = ScriptFields
    BY DEF Firm, Typed
  <1>2. PICK y : y = Throw(j)
    OBVIOUS
  <1>3. DOMAIN y = ScriptFields /\ y.lists = j.lists /\ y.states = j.states /\ y.stack = <<>>
    BY <1>1, <1>2 DEF Throw, ScriptFields
  <1>4. y.stack \in Seq(Frames(K)) /\ Loops(y) = {}
    BY <1>3 DEF Loops
  <1>5. Made(y) = Made(j)
    BY <1>3 DEF Made
  <1> QED  BY <1>2, <1>3, <1>4, <1>5 DEF Firm, Typed, Looping

-----------------------------------------------------------------------------
\* A deferred is made.

LEMMA Monotone ==
  ASSUME NEW K, NEW L, K \subseteq L
  PROVE  /\ ListsOf(K) \subseteq ListsOf(L) /\ Late(K) \subseteq Late(L) /\ Acts(K) \subseteq Acts(L)
         /\ Tasks(K) \subseteq Tasks(L) /\ Frames(K) \subseteq Frames(L) /\ Objects(K) \subseteq Objects(L)
  <1>1. ListsOf(K) \subseteq ListsOf(L)
    BY DEF ListsOf
  <1>2. Chain(K) \subseteq Chain(L)
    BY DEF Chain
  <1>a. Late(K) \subseteq Late(L)
    BY <1>1, <1>2 DEF Late
  <1>3. Acts(K) \subseteq Acts(L)
    BY <1>1, <1>a DEF Acts
  <1>4. Tasks(K) \subseteq Tasks(L)
    BY <1>1, <1>2, <1>a DEF Tasks
  <1>5. Frames(K) \subseteq Frames(L)
    <2>1. Seq(Tasks(K)) \subseteq Seq(Tasks(L))
      BY <1>4, SeqMonotonic
    <2>2. Jobs(K) \subseteq Jobs(L)
      BY <2>1 DEF Jobs
    <2> QED  BY <1>1, <2>2 DEF Frames
  <1>6. Entries(K) \subseteq Entries(L)
    BY <1>3 DEF Entries
  <1>7. Seq(Entries(K)) \subseteq Seq(Entries(L))
    BY <1>6, SeqMonotonic
  <1>8. Objects(K) \subseteq Objects(L)
    BY <1>7 DEF Objects
  <1> QED  BY <1>1, <1>3, <1>4, <1>5, <1>8, <1>a

LEMMA NewListTyped ==
  ASSUME NEW K, NEW d \in K, NEW name \in {"done", "fail", "progress"}
  PROVE  NewList(d, name) \in Objects(K) /\ Ordered(NewList(d, name))
  <1>1. CASE name = "progress"
    <2>1. {"memory"} \in SUBSET Flags
      BY DEF Flags
    <2> QED  BY <1>1, <2>1, NewTyped DEF NewList
  <1>2. CASE name # "progress"
    <2>1. PICK o \in SUBSET Flags: o = {"once", "memory"}
      BY DEF Flags
    <2>2. PICK c \in Objects(K): c = NewCallbacks(o) /\ Ordered(c)
      BY NewTyped
    <2>3. PICK f \in Acts(K): f = Settles(d, name)
      BY <1>2, ActsTyped
    <2>4. PICK g \in Acts(K): g = Disables(<<d, Other(name)>>)
      <3>1. <<d, Other(name)>> \in ListsOf(K)
        BY DEF Other, ListsOf
      <3> QED  BY <3>1, ActsTyped
    <2>5. PICK h \in Acts(K): h = Locks(<<d, "progress">>)
      <3>1. <<d, "progress">> \in ListsOf(K)
        BY DEF ListsOf
      <3> QED  BY <3>1, ActsTyped
    <2>6. PICK c1 \in Objects(K): c1 = add(c, f) /\ Ordered(c1)
      BY <2>2, AddKeeps
    <2>7. PICK c2 \in Objects(K): c2 = add(c1, g) /\ Ordered(c2)
      BY <2>6, AddKeeps
    <2>8. add(c2, h) \in Objects(K) /\ Ordered(add(c2, h))
      BY <2>7, AddKeeps
    <2>9. NewList(d, name) = add(c2, h)
      BY <1>2, <2>1, <2>2, <2>3, <2>4, <2>5, <2>6, <2>7 DEF NewList
    <2> QED  BY <2>8, <2>9
  <1> QED  BY <1>1, <1>2

LEMMA NewDeferredFirm ==
  ASSUME NEW K, NEW j, Firm(K, j), NEW d \in Promises, d \notin K
  PROVE  Firm(K \cup {d}, NewDeferred(j, d)) /\ DOMAIN NewDeferred(j, d) = ScriptFields
  <1> DEFINE L == K \cup {d}
  <1>1. /\ K \subseteq Promises /\ K = Made(j) /\ DOMAIN j = ScriptFields /\ j.states \in [Promises -> States]
        /\ j.lists \in [Where -> Objects(K)] /\ j.stack \in Seq(Frames(K)) /\ K \subseteq L
    BY DEF Firm, Typed
  <1>2. Objects(K) \subseteq Objects(L) /\ Frames(K) \subseteq Frames(L)
    BY <1>1, Monotone
  <1>3. j.lists \in [Where -> Objects(L)]
    BY <1>1, <1>2
  <1>4. j.stack \in Seq(Frames(L))
    BY <1>1, <1>2, SeqMonotonic
  <1>5. PICK c \in Objects(L): c = NewList(d, "done") /\ Ordered(c)
    BY NewListTyped
  <1>6. PICK e \in Objects(L): e = NewList(d, "fail") /\ Ordered(e)
    BY NewListTyped
  <1>7. PICK p \in Objects(L): p = NewList(d, "progress") /\ Ordered(p)
    BY NewListTyped
  <1>8. <<d, "done">> \in Where /\ <<d, "fail">> \in Where /\ <<d, "progress">> \in Where
    BY DEF Where
  <1>9. PICK g \in [Promises -> States]: g = [j.states EXCEPT ![d] = "pending"]
    BY <1>1 DEF States
  <1>10. PICK h \in [Where -> Objects(L)]:
            h = [[[j.lists EXCEPT ![<<d, "done">>] = c] EXCEPT ![<<d, "fail">>] = e] EXCEPT ![<<d, "progress">>] = p]
    <2> HIDE DEF L
    <2>1. PICK h1 \in [Where -> Objects(L)]: h1 = [j.lists EXCEPT ![<<d, "done">>] = c]
      BY <1>3, <1>8
    <2>2. PICK h2 \in [Where -> Objects(L)]: h2 = [h1 EXCEPT ![<<d, "fail">>] = e]
      BY <1>8
    <2>3. PICK h3 \in [Where -> Objects(L)]: h3 = [h2 EXCEPT ![<<d, "progress">>] = p]
      BY <1>8
    <2> QED  BY <2>1, <2>2, <2>3
  <1>11. \A l \in Where: h[l] = j.lists[l] \/ (h[l] \in {c, e, p} /\ l \in {<<d, "done">>, <<d, "fail">>, <<d, "progress">>})
    BY <1>3, <1>8, <1>10
  <1>12. PICK y : y = NewDeferred(j, d)
    OBVIOUS
  <1>13. DOMAIN y = ScriptFields /\ y.states = g /\ y.lists = h /\ y.stack = j.stack
    BY <1>1, <1>5, <1>6, <1>7, <1>9, <1>10, <1>12 DEF NewDeferred, ScriptFields
  <1>14. Made(y) = L
    BY <1>1, <1>9, <1>13 DEF Made
  <1>15. Loops(y) = Loops(j)
    BY <1>13 DEF Loops
  <1>16. Looping(y)
    <2>1. ASSUME NEW i \in Loops(y)  PROVE y.lists[y.stack[i].list].firing
      <3>1. j.stack[i] \in Frames(K) /\ j.stack[i].kind = "fire"
        BY <1>1, <1>15 DEF Loops
      <3>2. j.stack[i].list \in ListsOf(K) /\ j.stack[i].list \in Where
        BY <1>1, <3>1, ListsWhere DEF Frames
      <3>3. j.stack[i].list \notin {<<d, "done">>, <<d, "fail">>, <<d, "progress">>}
        BY <3>2 DEF ListsOf
      <3>4. h[j.stack[i].list] = j.lists[j.stack[i].list]
        BY <1>11, <3>2, <3>3
      <3> QED  BY <1>13, <1>15, <3>4 DEF Firm, Looping
    <2> QED  BY <1>13, <1>15, <2>1 DEF Firm, Looping
  <1>17. \A l \in Where: Ordered(h[l])
    BY <1>5, <1>6, <1>7, <1>11 DEF Firm
  <1>18. L \subseteq Promises
    BY <1>1
  <1> HIDE DEF L
  <1>19. Firm(L, y)
    BY <1>4, <1>13, <1>14, <1>16, <1>17, <1>18 DEF Firm, Typed
  <1> QED  BY <1>12, <1>13, <1>19 DEF L

LEMMA SetToSeqTyped ==
  ASSUME NEW S, IsFiniteSet(S)
  PROVE  SetToSeq(S) \in Seq(S)
  <1>1. PICK n \in Nat: n = Cardinality(S) /\ ExistsBijection(1..n, S)
    BY FS_CardinalityType
  <1>2. PICK f : f \in [1..n -> S] /\ IsInjective(f)
    BY <1>1 DEF ExistsBijection, Bijection, Injection
  <1>3. SetToSeq(S) \in [1..n -> S]
    BY <1>1, <1>2 DEF SetToSeq
  <1> QED  BY <1>3, SeqDef

LEMMA AlwaysTyped ==
  ASSUME NEW K, NEW d \in K, NEW f \in Late(K)
  PROVE  always(d, f) \in Jobs(K)
  <1>1. <<d, "done">> \in ListsOf(K) /\ <<d, "fail">> \in ListsOf(K)
    BY DEF ListsOf
  <1>2. PICK s \in Tasks(K): s = [call |-> "add", list |-> <<d, "done">>, f |-> f]
    BY <1>1, AddTask
  <1>3. PICK t \in Tasks(K): t = [call |-> "add", list |-> <<d, "fail">>, f |-> f] /\ t.call \notin Stops
    BY <1>1, AddTask
  <1>4. <<s, t>> \in Seq(Tasks(K)) /\ Len(<<s, t>>) = 2
    OBVIOUS
  <1>5. <<s, t>> \in Jobs(K)
    BY <1>3, <1>4 DEF Jobs
  <1> QED  BY <1>2, <1>3, <1>5 DEF always

LEMMA ListensTyped ==
  ASSUME NEW L, NEW m \in L, NEW subs \in Seq(L)
  PROVE  Listens(m, subs) \in Jobs(L)
  <1>1. PICK n \in Nat: n = Len(subs)
    OBVIOUS
  <1>2. PICK N \in Nat: N = 3 * n
    OBVIOUS
  <1> DEFINE act(name) == IF name = "fail" THEN Forwards(<<m, "fail">>) ELSE Updates(m, name)
             f == [i \in 1..N |-> [call |-> "add", list |-> <<subs[((i - 1) \div 3) + 1], Names[((i - 1) % 3) + 1]>>,
                                   f |-> act(Names[((i - 1) % 3) + 1])]]
  <1>3. \A i \in 1..N: f[i] \in Tasks(L) /\ f[i].call \notin Stops
    <2>1. TAKE i \in 1..N
    <2>2. ((i - 1) % 3) + 1 \in 1..3 /\ ((i - 1) \div 3) + 1 \in 1..n
      BY <1>2
    <2>3. PICK name \in {"done", "fail", "progress"}: name = Names[((i - 1) % 3) + 1]
      BY <2>2 DEF Names
    <2>4. PICK d \in L: d = subs[((i - 1) \div 3) + 1]
      BY <1>1, <2>2
    <2>5. PICK g \in Late(L): g = act(name)
      <3>1. <<m, "fail">> \in ListsOf(L)
        BY DEF ListsOf
      <3>2. Forwards(<<m, "fail">>) \in Late(L)
        BY <3>1, ActsTyped
      <3>3. name # "fail" => Updates(m, name) \in Late(L)
        BY ActsTyped
      <3> QED  BY <3>2, <3>3
    <2>6. PICK l \in ListsOf(L): l = <<d, name>>
      BY DEF ListsOf
    <2>7. f[i] = [call |-> "add", list |-> l, f |-> g]
      BY <2>3, <2>4, <2>5, <2>6
    <2> HIDE DEF f
    <2> QED  BY <2>7, AddTask
  <1>4. f \in Jobs(L)
    <2>1. f = [i \in 1..N |-> f[i]]
      OBVIOUS
    <2> HIDE DEF f
    <2> QED  BY <1>3, <2>1, JobsTyped
  <1>5. Listens(m, subs) = f
    BY <1>1, <1>2 DEF Listens
  <1> HIDE DEF f
  <1> QED  BY <1>4, <1>5

-----------------------------------------------------------------------------
\* The lists of promises.

LEMMA NumberedSeq ==
  ASSUME NEW n \in Nat
  PROVE  /\ Numbered(n) \in Seq(Nat) /\ Len(Numbered(n)) = n /\ (n = 0 => Numbered(n) = <<>>)
         /\ Append(Numbered(n), n + 1) = Numbered(n + 1)
  <1>1. Numbered(n) \in [1..n -> Nat]
    BY DEF Numbered
  <1>2. PICK s \in Seq(Nat): s = Numbered(n)
    BY <1>1, SeqDef
  <1>3. Len(s) = n /\ DOMAIN s = 1..n /\ \A i \in 1..n: s[i] = i
    BY <1>2 DEF Numbered
  <1>4. PICK t \in Seq(Nat): t = Append(s, n + 1)
    <2>1. Append(s, n + 1) \in Seq(Nat)
      OBVIOUS
    <2> QED  BY <2>1
  <1>5. DOMAIN t = 1..(n + 1) /\ \A i \in 1..(n + 1): t[i] = i
    BY <1>3, <1>4
  <1>6. t = [i \in 1..(n + 1) |-> t[i]]
    BY <1>5
  <1>7. t = Numbered(n + 1)
    BY <1>5, <1>6 DEF Numbered
  <1>8. n = 0 => s = <<>>
    BY <1>3
  <1> QED  BY <1>2, <1>3, <1>4, <1>7, <1>8

\* add leaves the outcome alone, and the firing of a list with a memory goes on.
LEMMA AddOutcome ==
  ASSUME NEW K, NEW c \in Objects(K), Ordered(c), NEW d, NEW name, Outcome(K, c, d, name), NEW f \in Late(K)
  PROVE  LET e == add(c, f)
         IN  Outcome(K, e, d, name) /\ e.fired = c.fired /\ e.on = c.on /\ e.called = c.called
  <1>1. c.list \in Seq(Entries(K)) /\ c.count \in Nat /\ c.index \in Int /\ c.on \in BOOLEAN /\ c.firing \in BOOLEAN
        /\ c.fired \in BOOLEAN
    BY DEF Objects
  <1>2. PICK n \in Nat: n = Len(c.list) /\ n <= c.count /\ c.count >= 3
    BY <1>1 DEF Outcome
  <1>3. PICK g : g = [fn |-> f.fn, does |-> f, id |-> c.count + 1]
    OBVIOUS
  <1>4. PICK s : s = Append(c.list, g)
    OBVIOUS
  <1>a. PICK b \in Nat, x \in Int, k \in Nat: b = c.count /\ x = c.index /\ k = b + 1
    BY <1>1
  <1>5. DOMAIN c.list = 1..n /\ DOMAIN s = 1..(n + 1) /\ Len(s) = n + 1 /\ s[n + 1] = g /\ \A i \in 1..n: s[i] = c.list[i]
    BY <1>1, <1>2, <1>4
  <1>b. k = b + 1 /\ Len(s) = n + 1 /\ Len(s) <= k /\ k >= 3 /\ ~(k <= 3)
    BY <1>1, <1>2, <1>a, <1>5
  <1>c. \A i \in DOMAIN s: s[i].id = k - Len(s) + i /\ Entered(K, s[i], d, name)
    <2>1. TAKE i \in DOMAIN s
    <2>2. CASE i \in 1..n
      <3>1. s[i].id = c.count - n + i /\ Entered(K, s[i], d, name)
        BY <1>2, <1>5, <2>2 DEF Outcome
      <3>2. s[i].id = b - n + i
        BY Zenon, <1>a, <3>1
      <3>3. b - n + i = k - Len(s) + i
        BY <1>b, <2>2
      <3> QED  BY Zenon, <3>1, <3>2, <3>3
    <2>3. CASE i = n + 1
      <3>1. g.id = k /\ g.does = f
        BY <1>3, <1>a
      <3>2. k = k - Len(s) + i
        BY <1>b, <2>3
      <3>3. Entered(K, g, d, name)
        <4>1. ~(g.id <= 3) /\ g.does \in Late(K)
          BY Zenon, <1>b, <3>1
        <4> QED  BY Zenon, <4>1 DEF Entered
      <3> QED  BY Zenon, <1>5, <2>3, <3>1, <3>2, <3>3
    <2> QED  BY <1>5, <2>2, <2>3
  <1>d. k = b + 1 /\ Len(s) = n + 1
    BY <1>b
  <1>6. PICK p : p = [c EXCEPT !.list = s, !.count = c.count + 1]
    OBVIOUS
  <1>7. push(c, f) = p
    BY <1>3, <1>4, <1>6 DEF push, Outcome
  <1>8. /\ p.list = s /\ p.count = c.count + 1 /\ p.options = c.options /\ p.on = c.on /\ p.repeats = c.repeats
        /\ p.firing = c.firing /\ p.fired = c.fired /\ p.memory = c.memory /\ p.index = c.index /\ p.called = c.called
    BY <1>6 DEF Objects
  <1>9. c.options = {"once", "memory"} /\ ~c.repeats
    BY DEF Outcome
  <1>10. CASE ~c.on
    BY <1>10 DEF add
  <1>11. CASE c.on /\ c.firing
    <2>1. PICK e : e = [p EXCEPT !.length = Len(p.list)]
      OBVIOUS
    <2>2. /\ e.list = p.list /\ e.count = p.count /\ e.options = p.options /\ e.on = p.on /\ e.repeats = p.repeats
          /\ e.firing = p.firing /\ e.fired = p.fired /\ e.memory = p.memory /\ e.index = p.index
          /\ e.called = p.called
      BY <1>6, <2>1 DEF Objects
    <2>3. add(c, f) = e
      BY <1>7, <1>11, <2>1 DEF add
    <2>4. c.fired /\ x < n /\ c.called = Numbered(b - n + x + 1)
      BY <1>2, <1>a, <1>11 DEF Outcome
    <2>a. /\ e.list = s /\ e.count = k /\ e.index = x /\ e.called = c.called /\ e.options = c.options
          /\ e.on /\ e.firing /\ e.fired /\ ~e.repeats
      BY <1>8, <1>9, <1>11, <1>a, <2>2, <2>4
    <2>6. e.called = Numbered(e.count - Len(e.list) + e.index + 1) /\ e.index < Len(e.list)
      <3>1. k - Len(s) + x + 1 = b - n + x + 1 /\ x < Len(s)
        <4>1. x < n
          BY <2>4
        <4> QED  BY <1>d, <4>1
      <3>2. e.count - Len(e.list) + e.index + 1 = k - Len(s) + x + 1
        BY Zenon, <2>a
      <3>3. e.index < Len(e.list)
        BY Zenon, <2>a, <3>1
      <3> QED  BY Zenon, <2>4, <2>a, <3>1, <3>2, <3>3
    <2>7. /\ e.options = {"once", "memory"} /\ ~e.repeats /\ e.count >= 3 /\ Len(e.list) <= e.count
          /\ \A i \in DOMAIN e.list: e.list[i].id = e.count - Len(e.list) + i /\ Entered(K, e.list[i], d, name)
          /\ e.firing /\ e.on /\ e.fired
      BY Zenon, <1>b, <1>c, <1>9, <2>a
    <2>8. Outcome(K, e, d, name)
      BY <2>6, <2>7 DEF Outcome
    <2> QED  BY <1>8, <2>2, <2>3, <2>8
  <1>12. CASE c.on /\ ~c.firing /\ c.memory # NoData
    <2>1. c.fired /\ c.list = <<>> /\ c.called = Numbered(c.count)
      BY <1>1, <1>12 DEF Outcome
    <2>2. n = 0
      BY <1>2, <2>1
    <2>3. PICK e : e = fire([p EXCEPT !.start = n], c.memory)
      OBVIOUS
    <2>4. add(c, f) = e
      BY <1>2, <1>7, <1>12, <2>3 DEF add
    <2>5. /\ e.list = s /\ e.count = k /\ e.options = c.options /\ e.on = c.on /\ e.repeats = c.repeats
          /\ e.firing /\ e.fired /\ e.index = n - 1 /\ e.called = c.called
      BY <1>6, <1>a, <2>3 DEF fire, Objects
    <2>7. e.called = Numbered(e.count - Len(e.list) + e.index + 1) /\ e.index < Len(e.list)
      <3>1. k - Len(s) + (n - 1) + 1 = b /\ n - 1 < Len(s)
        BY <1>a, <1>b, <2>2
      <3>2. e.count - Len(e.list) + e.index + 1 = k - Len(s) + (n - 1) + 1
        BY Zenon, <2>5
      <3>3. e.index < Len(e.list)
        BY Zenon, <2>5, <3>1
      <3> QED  BY Zenon, <1>a, <2>1, <2>5, <3>1, <3>2, <3>3
    <2>8. /\ e.options = {"once", "memory"} /\ ~e.repeats /\ e.count >= 3 /\ Len(e.list) <= e.count
          /\ \A i \in DOMAIN e.list: e.list[i].id = e.count - Len(e.list) + i /\ Entered(K, e.list[i], d, name)
      BY Zenon, <1>b, <1>c, <1>9, <2>5
    <2>9. Outcome(K, e, d, name)
      BY <1>12, <2>5, <2>7, <2>8 DEF Outcome
    <2> QED  BY <2>1, <2>4, <2>5, <2>9
  <1>13. CASE c.on /\ ~c.firing /\ c.memory = NoData
    <2>1. add(c, f) = p
      BY <1>7, <1>13 DEF add
    <2>2. ~c.fired /\ c.called = <<>> /\ n = c.count
      BY <1>1, <1>2, <1>13 DEF Outcome
    <2>3. Outcome(K, p, d, name)
      <3>1. p.list = s /\ p.count = k /\ Len(s) = k
        BY <1>8, <1>a, <1>b, <2>2
      <3>2. /\ p.options = {"once", "memory"} /\ ~p.repeats /\ p.count >= 3 /\ Len(p.list) <= p.count
            /\ \A i \in DOMAIN p.list: p.list[i].id = p.count - Len(p.list) + i /\ Entered(K, p.list[i], d, name)
        BY Zenon, <1>b, <1>c, <1>8, <1>9, <3>1
      <3> QED  BY <1>8, <1>13, <2>2, <3>1, <3>2 DEF Outcome
    <2> QED  BY <1>8, <2>1, <2>3
  <1> QED  BY <1>1, <1>10, <1>11, <1>12, <1>13

\* It is fired once.
LEMMA FireOutcome ==
  ASSUME NEW K, NEW c \in Objects(K), Ordered(c), NEW d, NEW name, Outcome(K, c, d, name), NEW data \in Nat
  PROVE  LET e == fireWith(c, data)
         IN  /\ e = c \/ (c.on /\ ~c.fired /\ ~c.firing /\ e.firing /\ e.fired /\ e.on /\ e.called = <<>>)
             /\ Outcome(K, e, d, name)
  <1>1. c.list \in Seq(Entries(K)) /\ c.count \in Nat /\ c.on \in BOOLEAN /\ c.firing \in BOOLEAN /\ c.fired \in BOOLEAN
    BY DEF Objects
  <1>2. CASE ~Fires(c)
    BY <1>2 DEF fireWith
  <1>3. CASE Fires(c)
    <2>1. c.on /\ ~c.fired /\ ~c.firing /\ Len(c.list) = c.count /\ ~c.repeats
      BY <1>1, <1>3 DEF Fires, Outcome
    <2>2. PICK e : e = FireAll(c, data)
      OBVIOUS
    <2>3. fireWith(c, data) = e
      BY <1>3, <2>1, <2>2 DEF fireWith
    <2>4. /\ e.list = c.list /\ e.count = c.count /\ e.options = c.options /\ e.on = c.on /\ e.repeats = c.repeats
          /\ e.firing /\ e.fired /\ e.index = c.start - 1 /\ e.called = <<>>
      BY <2>2 DEF FireAll, fire, Objects
    <2>5. e.index = -1 /\ -1 < c.count /\ c.count - c.count + (-1) + 1 = 0
      BY <1>1, <2>4 DEF Ordered
    <2>6. Numbered(0) = <<>>
      BY NumberedSeq
    <2>7. Outcome(K, e, d, name)
      BY <2>1, <2>4, <2>5, <2>6 DEF Outcome
    <2> QED  BY <2>1, <2>3, <2>4, <2>7
  <1> QED  BY <1>2, <1>3

LEMMA DisableOutcome ==
  ASSUME NEW K, NEW c \in Objects(K), NEW d, NEW name, Outcome(K, c, d, name), ~c.fired
  PROVE  Outcome(K, disable(c), d, name) /\ ~disable(c).fired /\ ~disable(c).on /\ ~disable(c).firing
  <1>1. PICK e : e = disable(c)
    OBVIOUS
  <1>2. /\ e.list = <<>> /\ e.count = c.count /\ e.options = c.options /\ ~e.on /\ ~e.repeats /\ e.firing = c.firing
        /\ e.fired = c.fired /\ e.called = c.called /\ e.memory = NoData
    BY <1>1 DEF disable, Objects
  <1>3. Len(e.list) = 0 /\ DOMAIN e.list = {} /\ c.count \in Nat
    BY <1>2 DEF Objects
  <1>4. Outcome(K, e, d, name)
    BY <1>2, <1>3 DEF Outcome
  <1> QED  BY <1>1, <1>2, <1>4 DEF Outcome

\* A turn of the loop calls the next addition.
CallsNext(c) == [c EXCEPT !.index = c.index + 1, !.called = Append(@, c.list[(c.index + 1) + 1].id)]

LEMMA TurnOutcome ==
  ASSUME NEW K, NEW c \in Objects(K), Ordered(c), NEW d, NEW name, Outcome(K, c, d, name), c.firing, More(c),
         NEW e, e = CallsNext(c)
  PROVE  /\ Outcome(K, e, d, name) /\ e.fired /\ e.on = c.on /\ Entered(K, c.list[(c.index + 1) + 1], d, name)
         /\ c.list[(c.index + 1) + 1].id = Len(c.called) + 1 /\ Len(e.called) = Len(c.called) + 1
  <1>0. PICK x : x = c.index + 1
    OBVIOUS
  <1>a. /\ e.list = c.list /\ e.count = c.count /\ e.options = c.options /\ e.on = c.on
        /\ e.repeats = c.repeats /\ e.firing = c.firing /\ e.fired = c.fired /\ e.index = x
    BY <1>0 DEF CallsNext, Objects
  <1>b. x + 1 = (c.index + 1) + 1
    BY <1>0 DEF Objects
  <1>c. e.called = Append(c.called, c.list[x + 1].id)
    <2>1. e.called = Append(c.called, c.list[(c.index + 1) + 1].id)
      BY DEF CallsNext, Objects
    <2> QED  BY Zenon, <1>b, <2>1
  <1>1. c.list \in Seq(Entries(K)) /\ c.count \in Nat /\ c.index \in Int
    BY DEF Objects
  <1>2. PICK n \in Nat: n = Len(c.list) /\ n <= c.count /\ DOMAIN c.list = 1..n
    BY <1>1 DEF Outcome
  <1>3. PICK b \in Nat, u \in Int: b = c.count /\ u = c.index
    BY <1>1
  <1>4. c.on /\ c.fired /\ c.called = Numbered(b - n + u + 1) /\ u >= -1 /\ c.length = n /\ u + 1 < n /\ n <= b
    BY <1>2, <1>3 DEF Outcome, Ordered, More
  <1>5. x = u + 1 /\ x + 1 \in 1..n
    BY <1>0, <1>3, <1>4
  <1>6. PICK m \in Nat: m = b - n + u + 1
    BY <1>4
  <1>7. c.list[x + 1].id = m + 1 /\ Entered(K, c.list[x + 1], d, name)
    <2>1. PICK i \in 1..n: i = x + 1
      BY <1>5
    <2>2. c.list[i].id = c.count - n + i /\ Entered(K, c.list[i], d, name)
      BY <1>2 DEF Outcome
    <2>3. c.list[i].id = b - n + i
      BY Zenon, <1>3, <2>2
    <2>4. b - n + i = m + 1
      BY <1>5, <1>6, <2>1
    <2> QED  BY Zenon, <2>1, <2>2, <2>3, <2>4
  <1>8. c.called = Numbered(m) /\ Len(c.called) = m /\ Append(Numbered(m), m + 1) = Numbered(m + 1)
    <2>1. c.called = Numbered(m)
      BY Zenon, <1>4, <1>6
    <2> QED  BY <2>1, NumberedSeq
  <1>9. e.called = Numbered(m + 1) /\ Len(e.called) = m + 1
    <2>1. e.called = Append(c.called, m + 1)
      BY Zenon, <1>7, <1>c
    <2>2. e.called = Numbered(m + 1)
      BY Zenon, <1>8, <2>1
    <2>3. m + 1 \in Nat
      OBVIOUS
    <2>4. Len(Numbered(m + 1)) = m + 1
      BY <2>3, NumberedSeq
    <2> QED  BY Zenon, <2>2, <2>4
  <1>10. e.called = Numbered(e.count - Len(e.list) + e.index + 1) /\ e.index < Len(e.list)
    <2>1. b - n + (u + 1) + 1 = m + 1 /\ u + 1 < n
      BY <1>4, <1>6
    <2>2. e.count - Len(e.list) + e.index + 1 = b - n + (u + 1) + 1
      BY Zenon, <1>2, <1>3, <1>5, <1>a
    <2>3. e.index < Len(e.list)
      BY Zenon, <1>2, <1>5, <1>a, <2>1
    <2> QED  BY Zenon, <1>9, <2>1, <2>2, <2>3
  <1>11. /\ e.options = {"once", "memory"} /\ ~e.repeats /\ e.count >= 3 /\ Len(e.list) <= e.count
         /\ \A i \in DOMAIN e.list: e.list[i].id = e.count - Len(e.list) + i /\ Entered(K, e.list[i], d, name)
    <2>1. /\ c.options = {"once", "memory"} /\ ~c.repeats /\ c.count >= 3 /\ Len(c.list) <= c.count
          /\ \A i \in DOMAIN c.list: c.list[i].id = c.count - Len(c.list) + i /\ Entered(K, c.list[i], d, name)
      BY DEF Outcome
    <2> QED  BY Zenon, <1>a, <2>1
  <1>12. e.on /\ e.firing /\ e.fired
    BY <1>4, <1>a
  <1>13. Outcome(K, e, d, name)
    BY <1>10, <1>11, <1>12 DEF Outcome
  <1>14. c.list[x + 1].id = Len(c.called) + 1 /\ Len(e.called) = Len(c.called) + 1
    BY Zenon, <1>7, <1>8, <1>9
  <1> QED  BY Zenon, <1>a, <1>b, <1>7, <1>12, <1>13, <1>14

\* At its end everybody has been called.
LEMMA FinishedOutcome ==
  ASSUME NEW K, NEW c \in Objects(K), Ordered(c), NEW d, NEW name, Outcome(K, c, d, name), c.firing, ~More(c)
  PROVE  /\ Outcome(K, Finished(c), d, name) /\ Finished(c).fired /\ ~Finished(c).firing
         /\ Len(Finished(c).called) = c.count /\ c.count >= 3 /\ c.called = Finished(c).called
  <1>1. c.list \in Seq(Entries(K)) /\ c.count \in Nat /\ c.index \in Int
    BY DEF Objects
  <1>2. PICK n \in Nat: n = Len(c.list) /\ n <= c.count
    BY <1>1 DEF Outcome
  <1>3. c.on /\ c.fired /\ c.index < n /\ c.called = Numbered(c.count - n + c.index + 1) /\ c.length = n /\ ~c.repeats
    BY <1>2 DEF Outcome, Ordered
  <1>4. c.index + 1 = n
    BY <1>1, <1>2, <1>3 DEF More
  <1>5. c.called = Numbered(c.count) /\ Len(c.called) = c.count /\ c.count >= 3
    <2>1. c.count - n + c.index + 1 = c.count
      BY <1>1, <1>2, <1>4
    <2> QED  BY <1>1, <1>3, <2>1, NumberedSeq DEF Outcome
  <1>6. PICK e : e = Finished(c)
    OBVIOUS
  <1>7. /\ e.list = <<>> /\ e.count = c.count /\ e.options = c.options /\ ~e.repeats /\ ~e.firing /\ e.fired
        /\ e.called = c.called /\ (e.on => e.memory # NoData)
    <2>1. CASE c.memory # NoData
      <3>1. e = [c EXCEPT !.firing = FALSE, !.list = <<>>]
        BY <1>3, <1>6, <2>1 DEF Finished, Objects
      <3> QED  BY <1>3, <2>1, <3>1 DEF Objects
    <2>2. CASE c.memory = NoData
      <3>1. e = disable([c EXCEPT !.firing = FALSE])
        BY <1>3, <1>6, <2>2 DEF Finished, Objects
      <3> QED  BY <1>3, <3>1 DEF disable, Objects
    <2> QED  BY <2>1, <2>2
  <1>8. Len(e.list) = 0 /\ DOMAIN e.list = {}
    BY <1>7
  <1>9. Outcome(K, e, d, name)
    BY <1>1, <1>5, <1>7, <1>8 DEF Outcome
  <1> QED  BY <1>5, <1>6, <1>7, <1>9

\* The lists that are not of an outcome have what was added to them.
LEMMA ShrinkLate ==
  ASSUME NEW K, NEW c, Latecomers(K, c), NEW d, d.list = c.list \/ d.list = <<>>
  PROVE  Latecomers(K, d)
  BY DEF Latecomers

LEMMA AddLate ==
  ASSUME NEW K, NEW c \in Objects(K), Latecomers(K, c), NEW f \in Late(K)
  PROVE  Latecomers(K, add(c, f))
  <1>1. c.list \in Seq(Entries(K)) /\ c.on \in BOOLEAN /\ c.firing \in BOOLEAN
    BY DEF Objects
  <1>2. PICK g : g = [fn |-> f.fn, does |-> f, id |-> c.count + 1]
    OBVIOUS
  <1>3. PICK s : s = Append(c.list, g)
    OBVIOUS
  <1>4. PICK p : p = [c EXCEPT !.list = s, !.count = @ + 1]
    OBVIOUS
  <1>5. p.list = s /\ DOMAIN p = DOMAIN c
    BY <1>4 DEF Objects
  <1>6. Latecomers(K, p)
    <2>1. PICK n \in Nat: n = Len(c.list)
      BY <1>1
    <2>2. DOMAIN c.list = 1..n /\ DOMAIN s = 1..(n + 1) /\ s[n + 1] = g /\ \A i \in 1..n: s[i] = c.list[i]
      BY <1>1, <1>3, <2>1
    <2>3. g.does = f
      BY <1>2
    <2>4. \A i \in DOMAIN s: s[i].does \in Late(K)
      <3>1. TAKE i \in DOMAIN s
      <3>2. i \in 1..n \/ i = n + 1
        BY <2>1, <2>2
      <3> QED  BY <2>2, <2>3, <3>2 DEF Latecomers
    <2> QED  BY Zenon, <1>5, <2>4 DEF Latecomers
  <1>7. PICK q : q = push(c, f)
    OBVIOUS
  <1>8. q = c \/ q = p
    BY <1>2, <1>3, <1>4, <1>7 DEF push
  <1>9. Latecomers(K, q) /\ DOMAIN q = DOMAIN c
    BY <1>5, <1>6, <1>8
  <1>10. DOMAIN c = DOMAIN [options |-> 0, list |-> 0, on |-> 0, repeats |-> 0, queue |-> 0,
                            firing |-> 0, fired |-> 0, memory |-> 0, index |-> 0, length |-> 0, start |-> 0, count |-> 0,
                            called |-> 0, cleared |-> 0]
    BY DEF Objects
  <1>11. add(c, f).list \in {c.list, q.list}
    <2>1. CASE ~c.on
      BY <2>1 DEF add
    <2>2. CASE c.on /\ c.firing
      <3>1. add(c, f) = [q EXCEPT !.length = Len(q.list)]
        BY <1>7, <2>2 DEF add
      <3> QED  BY <1>9, <1>10, <3>1
    <2>3. CASE c.on /\ ~c.firing /\ c.memory # NoData
      <3>1. add(c, f) = fire([q EXCEPT !.start = Len(c.list)], c.memory)
        BY <1>7, <2>3 DEF add
      <3> QED  BY <1>9, <1>10, <3>1 DEF fire
    <2>4. CASE c.on /\ ~c.firing /\ c.memory = NoData
      BY <1>7, <2>4 DEF add
    <2> QED  BY <1>1, <2>1, <2>2, <2>3, <2>4
  <1>12. CASE add(c, f).list = c.list
    BY <1>12 DEF Latecomers
  <1>13. CASE add(c, f).list = q.list
    BY <1>9, <1>13 DEF Latecomers
  <1> QED  BY <1>11, <1>12, <1>13

LEMMA RemoveLate ==
  ASSUME NEW K, NEW c \in Objects(K), Latecomers(K, c), NEW fn
  PROVE  Latecomers(K, remove(c, fn))
  <1>1. CASE ~c.on
    BY <1>1 DEF remove
  <1>2. CASE c.on
    <2>1. c.list \in Seq(Entries(K))
      BY DEF Objects
    <2>2. PICK N \in Nat: N = Len(c.list)
      BY <2>1
    <2>3. PICK S : S = Kept(c, fn)
      OBVIOUS
    <2>4. DOMAIN c.list = 1..N /\ Counted(S, N)
      BY <2>1, <2>2, <2>3 DEF Kept, Counted
    <2>5. PICK s : s = Without(c, fn)
      OBVIOUS
    <2>6. DOMAIN s = 1..Cardinality(S) /\ \A n \in 1..Cardinality(S): s[n] = c.list[Nth(S, n)]
      BY <2>3, <2>5 DEF Without
    <2>7. \A n \in 1..Cardinality(S): Nth(S, n) \in 1..N
      <3>1. TAKE n \in 1..Cardinality(S)
      <3>2. Nth(S, n) \in S
        BY <2>4, NthThere
      <3> QED  BY <2>4, <3>2 DEF Counted
    <2>8. \A i \in DOMAIN s: s[i].does \in Late(K)
      BY <2>4, <2>6, <2>7 DEF Latecomers
    <2>9. remove(c, fn).list = s
      BY <1>2, <2>5 DEF remove, Objects
    <2> QED  BY Zenon, <2>8, <2>9 DEF Latecomers
  <1> QED  BY <1>1, <1>2

\* The other methods take functions away at most.
LEMMA ChangeLate ==
  ASSUME NEW K, NEW c \in Objects(K), Latecomers(K, c), NEW data
  PROVE  /\ Latecomers(K, disable(c)) /\ Latecomers(K, lock(c)) /\ Latecomers(K, empty(c))
         /\ Latecomers(K, fireWith(c, data)) /\ Latecomers(K, Finished(c))
         /\ Latecomers(K, Finished([c EXCEPT !.memory = NoData]))
  <1>1. DOMAIN c = DOMAIN [options |-> 0, list |-> 0, on |-> 0, repeats |-> 0, queue |-> 0,
                           firing |-> 0, fired |-> 0, memory |-> 0, index |-> 0, length |-> 0, start |-> 0, count |-> 0,
                           called |-> 0, cleared |-> 0]
    BY DEF Objects
  <1>2. \A d, v: DOMAIN d = DOMAIN c => FireAll(d, v).list = d.list
    BY <1>1 DEF FireAll, fire
  <1>3. disable(c).list = <<>> /\ empty(c).list = <<>> /\ lock(c).list \in {c.list, <<>>}
    BY <1>1 DEF disable, empty, lock
  <1>4. fireWith(c, data).list = c.list
    <2>1. CASE ~Fires(c)
      BY <2>1 DEF fireWith
    <2>2. CASE Fires(c) /\ c.firing
      <3>1. fireWith(c, data) = [c EXCEPT !.queue = Append(@, data)]
        BY <2>2 DEF fireWith
      <3> QED  BY <1>1, <3>1
    <2>3. CASE Fires(c) /\ ~c.firing
      <3>1. fireWith(c, data) = FireAll(c, data)
        BY <2>3 DEF fireWith
      <3> QED  BY <1>2, <3>1
    <2> QED  BY <2>1, <2>2, <2>3
  <1>5. \A d: DOMAIN d = DOMAIN c => Finished(d).list \in {d.list, <<>>}
    <2>1. SUFFICES ASSUME NEW d, DOMAIN d = DOMAIN c  PROVE Finished(d).list \in {d.list, <<>>}
      OBVIOUS
    <2>2. PICK e : e = [d EXCEPT !.firing = FALSE]
      OBVIOUS
    <2>3. DOMAIN e = DOMAIN c /\ e.list = d.list
      BY <1>1, <2>1, <2>2
    <2>4. CASE ~d.on
      BY <2>2, <2>3, <2>4 DEF Finished
    <2>5. CASE d.on /\ d.repeats
      <3>1. PICK q, v : q = [e EXCEPT !.queue = Tail(@)] /\ v = Head(d.queue)
        OBVIOUS
      <3>2. DOMAIN q = DOMAIN c /\ q.list = d.list
        BY <1>1, <2>3, <3>1
      <3>3. Finished(d) = IF d.queue = <<>> THEN e ELSE FireAll(q, v)
        BY <2>2, <2>5, <3>1 DEF Finished
      <3> QED  BY <1>2, <2>3, <3>2, <3>3
    <2>6. CASE d.on /\ ~d.repeats /\ d.memory # NoData
      <3>1. Finished(d) = [e EXCEPT !.list = <<>>]
        BY <2>2, <2>6 DEF Finished
      <3> QED  BY <1>1, <2>3, <3>1
    <2>7. CASE d.on /\ ~d.repeats /\ d.memory = NoData
      <3>1. Finished(d) = disable(e)
        BY <2>2, <2>7 DEF Finished
      <3> QED  BY <1>1, <2>3, <3>1 DEF disable
    <2> QED  BY <2>4, <2>5, <2>6, <2>7
  <1>6. PICK d : d = [c EXCEPT !.memory = NoData]
    OBVIOUS
  <1>7. DOMAIN d = DOMAIN c /\ d.list = c.list
    BY <1>1, <1>6
  <1>8. Finished(c).list \in {c.list, <<>>} /\ Finished(d).list \in {c.list, <<>>}
    BY <1>5, <1>7
  <1> QED  BY <1>3, <1>4, <1>6, <1>8, ShrinkLate

\* One list is another one now: what has to hold of it, and of the stack.
LEMMA Relisted ==
  ASSUME NEW K, K \subseteq Promises, NEW j, NEW W, Steady(K, j, W), NEW l \in Where, NEW c, NEW k, NEW V,
         k.states = j.states, k.lists[l] = c, \A m \in Where: m # l => k.lists[m] = j.lists[m],
         \A m \in LoopLists(j) \cup j.threw: m # l => m \in LoopLists(k) \cup k.threw,
         \A m \in W: m # l => m \in V,
         Plain(K, l) => Latecomers(K, c),
         \A d \in K, name \in Named: l = <<d, name>> =>
             /\ Outcome(K, c, d, name)
             /\ c.firing => l \in LoopLists(k) \cup k.threw
             /\ j.lists[l].fired => c.fired
             /\ c.fired => ~j.lists[<<d, Other(name)>>].fired
             /\ c.on => j.lists[l].on
             /\ c.fired /\ j.lists[<<d, Other(name)>>].on => l \in V /\ Len(c.called) <= 1
  PROVE  Steady(K, k, V)
  <1>1. ASSUME NEW d \in K, NEW name \in Named  PROVE Settling(K, k, V, d, name)
    <2>1. PICK p, q : p = <<d, name>> /\ q = <<d, Other(name)>>
      OBVIOUS
    <2>2. Other(name) \in Named /\ Other(Other(name)) = name /\ Other(name) # name
      BY DEF Other, Named
    <2>3. p \in Where /\ q \in Where /\ p # q
      BY <2>1, <2>2 DEF Where, Named
    <2>4. Settling(K, j, W, d, name) /\ Settling(K, j, W, d, Other(name))
      BY <2>2 DEF Steady
    <2>5. CASE l = p
      <3>1. k.lists[p] = c /\ k.lists[q] = j.lists[q]
        BY <2>3, <2>5
      <3>2. Outcome(K, c, d, name) /\ (c.firing => p \in LoopLists(k) \cup k.threw)
        BY <2>1, <2>5
      <3>3. k.states[d] = Outcomes[name] => c.fired
        BY <2>1, <2>4, <2>5 DEF Settling
      <3>4. /\ c.fired => ~j.lists[q].fired
            /\ c.fired /\ j.lists[q].on => p \in V /\ Len(c.called) <= 1
        BY <2>1, <2>5
      <3> QED  BY <2>1, <3>1, <3>2, <3>3, <3>4 DEF Settling
    <2>6. CASE l = q
      <3>1. k.lists[p] = j.lists[p] /\ k.lists[q] = c
        BY <2>3, <2>6
      <3>2. c.fired => ~j.lists[p].fired
        BY <2>1, <2>2, <2>6
      <3>3. c.on => j.lists[q].on
        BY <2>1, <2>2, <2>6
      <3>4. /\ Outcome(K, j.lists[p], d, name)
            /\ j.lists[p].firing => p \in LoopLists(k) \cup k.threw
            /\ k.states[d] = Outcomes[name] => j.lists[p].fired
            /\ j.lists[p].fired /\ j.lists[q].on => p \in W /\ Len(j.lists[p].called) <= 1
        BY <2>1, <2>3, <2>4, <2>6 DEF Settling
      <3>5. p \in W => p \in V
        BY <2>3, <2>6
      <3> QED  BY <2>1, <3>1, <3>2, <3>3, <3>4, <3>5 DEF Settling
    <2>7. CASE l # p /\ l # q
      <3>1. k.lists[p] = j.lists[p] /\ k.lists[q] = j.lists[q]
        BY <2>3, <2>7
      <3>2. p \in W => p \in V
        BY <2>7
      <3>3. p \in LoopLists(j) \cup j.threw => p \in LoopLists(k) \cup k.threw
        BY <2>7
      <3> QED  BY <2>1, <2>4, <3>1, <3>2, <3>3 DEF Settling
    <2> QED  BY <2>5, <2>6, <2>7
  <1>2. ASSUME NEW m \in Where, Plain(K, m)  PROVE Latecomers(K, k.lists[m])
    BY <1>2 DEF Steady
  <1> QED  BY <1>1, <1>2 DEF Steady

\* No list is another one.
LEMMA StillSteady ==
  ASSUME NEW K, NEW j, NEW W, Steady(K, j, W), NEW k, NEW V, k.states = j.states, k.lists = j.lists,
         LoopLists(j) \cup j.threw \subseteq LoopLists(k) \cup k.threw, W \subseteq V
  PROVE  Steady(K, k, V)
  <1>1. ASSUME NEW d \in K, NEW name \in Named  PROVE Settling(K, k, V, d, name)
    <2>1. Settling(K, j, W, d, name)
      BY DEF Steady
    <2> QED  BY <2>1 DEF Settling
  <1> QED  BY <1>1 DEF Steady

LEMMA CalmLoose ==
  ASSUME NEW K, NEW j, Calm(K, j)
  PROVE  Loose(K, j)
  BY StillSteady DEF Calm, Loose

\* What the frames of the stack are about.
LEMMA PushLoops ==
  ASSUME NEW K, NEW j, Typed(K, j), NEW f, NEW k, k = Push(j, f)
  PROVE  /\ k.lists = j.lists /\ k.states = j.states /\ k.threw = j.threw /\ DOMAIN k = ScriptFields
         /\ LoopLists(j) \subseteq LoopLists(k)
         /\ f.kind = "fire" => f.list \in LoopLists(k) /\ TopLoop(k) = {f.list}
         /\ f.kind # "fire" => TopLoop(k) = {}
  <1>1. j.stack \in Seq(Frames(K)) /\ DOMAIN j = ScriptFields
    BY DEF Typed
  <1>2. PICK n \in Nat: n = Len(j.stack)
    BY <1>1
  <1>3. PICK s : s = Append(j.stack, f)
    OBVIOUS
  <1>4. DOMAIN s = 1..(n + 1) /\ Len(s) = n + 1 /\ DOMAIN j.stack = 1..n /\ s[n + 1] = f /\ (\A i \in 1..n: s[i] = j.stack[i])
        /\ s # <<>>
    BY <1>1, <1>2, <1>3
  <1>5. k.lists = j.lists /\ k.states = j.states /\ k.threw = j.threw /\ k.stack = s /\ DOMAIN k = ScriptFields
    BY <1>1, <1>3 DEF Push, ScriptFields
  <1>6. \A i \in Loops(j): i \in Loops(k) /\ k.stack[i].list = j.stack[i].list
    BY <1>2, <1>4, <1>5 DEF Loops
  <1>7. Top(k) = f
    BY <1>4, <1>5 DEF Top, Last
  <1>8. f.kind = "fire" => f.list \in LoopLists(k)
    <2>1. SUFFICES ASSUME f.kind = "fire"  PROVE f.list \in LoopLists(k)
      OBVIOUS
    <2>2. n + 1 \in Loops(k) /\ k.stack[n + 1].list = f.list
      BY <1>2, <1>4, <1>5, <2>1 DEF Loops
    <2> QED  BY <2>2 DEF LoopLists
  <1> QED  BY <1>4, <1>5, <1>6, <1>7, <1>8 DEF LoopLists, TopLoop

LEMMA PopLoops ==
  ASSUME NEW K, NEW j, Typed(K, j), j.stack # <<>>, NEW k, k = Pop(j)
  PROVE  /\ k.lists = j.lists /\ k.states = j.states /\ k.threw = j.threw /\ DOMAIN k = ScriptFields
         /\ LoopLists(j) \subseteq LoopLists(k) \cup TopLoop(j)
  <1>1. j.stack \in Seq(Frames(K)) /\ DOMAIN j = ScriptFields
    BY DEF Typed
  <1>2. PICK n \in Nat: n = Len(j.stack) /\ n >= 1
    BY <1>1
  <1>3. PICK s : s = Front(j.stack)
    OBVIOUS
  <1>4. DOMAIN s = 1..(n - 1) /\ DOMAIN j.stack = 1..n /\ \A i \in 1..(n - 1): s[i] = j.stack[i]
    BY <1>1, <1>2, <1>3 DEF Front
  <1>5. k.lists = j.lists /\ k.states = j.states /\ k.threw = j.threw /\ k.stack = s /\ DOMAIN k = ScriptFields
    BY <1>1, <1>3 DEF Pop, ScriptFields
  <1>6. Top(j) = j.stack[n]
    BY <1>1, <1>2 DEF Top, Last
  <1>7. ASSUME NEW i \in Loops(j)  PROVE j.stack[i].list \in LoopLists(k) \cup TopLoop(j)
    <2>1. i \in 1..n /\ j.stack[i].kind = "fire"
      BY <1>4 DEF Loops
    <2>2. CASE i = n
      BY <1>6, <2>1, <2>2 DEF TopLoop
    <2>3. CASE i # n
      <3>1. i \in 1..(n - 1)
        BY <2>1, <2>3
      <3>2. i \in Loops(k) /\ k.stack[i] = j.stack[i]
        BY <1>4, <1>5, <2>1, <3>1 DEF Loops
      <3> QED  BY <3>2 DEF LoopLists
    <2> QED  BY <2>2, <2>3
  <1> QED  BY <1>5, <1>7 DEF LoopLists

LEMMA LoopLoops ==
  ASSUME NEW K, NEW j, Firm(K, j), NEW l \in ListsOf(K), NEW c \in Objects(K), Ordered(c),
         j.lists[l].firing => c.firing, NEW data \in Nat, NEW k, k = Loop(j, l, c, data)
  PROVE  /\ k.lists[l] = c /\ (\A m \in Where: m # l => k.lists[m] = j.lists[m])
         /\ k.states = j.states /\ k.threw = j.threw /\ LoopLists(j) \subseteq LoopLists(k)
         /\ c.firing /\ ~j.lists[l].firing => l \in LoopLists(k) /\ TopLoop(k) = {l}
  <1>1. l \in Where /\ j.lists \in [Where -> Objects(K)] /\ DOMAIN j = ScriptFields
    BY ListsWhere DEF Firm, Typed
  <1>2. PICK y : y = [j EXCEPT !.lists[l] = c]
    OBVIOUS
  <1>3. /\ y.lists[l] = c /\ (\A m \in Where: m # l => y.lists[m] = j.lists[m]) /\ y.stack = j.stack
        /\ y.states = j.states /\ y.threw = j.threw
    BY <1>1, <1>2 DEF ScriptFields
  <1>4. Typed(K, y)
    <2>1. \A i \in Loops(j): j.stack[i].list = l => c.firing
      BY DEF Firm, Looping
    <2> QED  BY <1>1, <1>2, <2>1, ListKeeps DEF Firm
  <1>5. LoopLists(y) = LoopLists(j)
    BY <1>3 DEF LoopLists, Loops
  <1>6. CASE c.firing /\ ~j.lists[l].firing
    <2>1. PICK f : f = [kind |-> "fire", list |-> l, data |-> data]
      OBVIOUS
    <2>2. k = Push(y, f) /\ f.kind = "fire" /\ f.list = l
      BY <1>2, <1>6, <2>1 DEF Loop
    <2> QED  BY <1>3, <1>4, <1>5, <2>2, PushLoops
  <1>7. CASE ~(c.firing /\ ~j.lists[l].firing)
    <2>1. k = y
      BY <1>2, <1>7 DEF Loop
    <2> QED  BY <1>3, <1>5, <1>7, <2>1
  <1> QED  BY <1>6, <1>7

\* add: the function waits for its turn, or the firing goes on with it.
LEMMA AddCalm ==
  ASSUME NEW K, NEW j, Calm(K, j), NEW l \in ListsOf(K), NEW f \in Late(K)
  PROVE  Calm(K, Add(j, l, f)) /\ Add(j, l, f).states = j.states
  <1>1. l \in Where /\ K \subseteq Promises /\ Firm(K, j) /\ Steady(K, j, {}) /\ f \in Acts(K)
    BY ListsWhere, LateActs DEF Calm, Firm, Typed
  <1>2. PICK c \in Objects(K): c = j.lists[l] /\ Ordered(c)
    BY <1>1 DEF Firm, Typed
  <1>3. PICK e \in Objects(K): e = add(c, f) /\ Ordered(e) /\ (c.firing => e.firing)
    BY <1>1, <1>2, AddKeeps
  <1>4. PICK m \in Nat: m = c.memory
    BY DEF Objects
  <1>5. PICK k : k = Loop(j, l, e, m)
    OBVIOUS
  <1>6. k = Add(j, l, f)
    BY <1>2, <1>3, <1>4, <1>5 DEF Add
  <1>7. /\ k.lists[l] = e /\ (\A n \in Where: n # l => k.lists[n] = j.lists[n])
        /\ k.states = j.states /\ k.threw = j.threw /\ LoopLists(j) \subseteq LoopLists(k)
        /\ e.firing /\ ~c.firing => l \in LoopLists(k)
    BY <1>1, <1>2, <1>3, <1>5, LoopLoops
  <1>8. Plain(K, l) => Latecomers(K, e)
    BY <1>1, <1>2, <1>3, AddLate DEF Steady
  <1>9. ASSUME NEW d \in K, NEW name \in Named, l = <<d, name>>
        PROVE  /\ Outcome(K, e, d, name)
               /\ e.firing => l \in LoopLists(k) \cup k.threw
               /\ c.fired => e.fired
               /\ e.fired => ~j.lists[<<d, Other(name)>>].fired
               /\ e.on => c.on
               /\ e.fired /\ j.lists[<<d, Other(name)>>].on => l \in {} /\ Len(e.called) <= 1
    <2>1. Settling(K, j, {}, d, name)
      BY <1>1 DEF Steady
    <2>2. Outcome(K, c, d, name)
      BY <1>2, <1>9, <2>1 DEF Settling
    <2>3. Outcome(K, e, d, name) /\ e.fired = c.fired /\ e.on = c.on
      BY <1>2, <1>3, <2>2, AddOutcome
    <2>4. c.firing => l \in LoopLists(j) \cup j.threw
      BY <1>2, <1>9, <2>1 DEF Settling
    <2>5. e.firing => l \in LoopLists(k) \cup k.threw
      BY <1>7, <2>4
    <2>6. c.fired => ~j.lists[<<d, Other(name)>>].fired /\ ~j.lists[<<d, Other(name)>>].on
      BY <1>2, <1>9, <2>1 DEF Settling
    <2> QED  BY <2>3, <2>5, <2>6
  <1>10. Steady(K, k, {})
    BY <1>1, <1>2, <1>7, <1>8, <1>9, Relisted
  <1>11. Firm(K, k)
    BY <1>1, <1>6, AddFirm
  <1> QED  BY <1>6, <1>7, <1>10, <1>11 DEF Calm

\* fireWith: the loop of an outcome begins, and the other one is still on.
LEMMA FireWithLoose ==
  ASSUME NEW K, NEW j, Calm(K, j), NEW l \in ListsOf(K), NEW data \in Nat
  PROVE  Loose(K, FireWith(j, l, data)) /\ FireWith(j, l, data).states = j.states
  <1>1. l \in Where /\ K \subseteq Promises /\ Firm(K, j) /\ Steady(K, j, {})
    BY ListsWhere DEF Calm, Firm, Typed
  <1>2. PICK c \in Objects(K): c = j.lists[l] /\ Ordered(c)
    BY <1>1 DEF Firm, Typed
  <1>3. PICK e \in Objects(K): e = fireWith(c, data) /\ Ordered(e) /\ (c.firing => e.firing)
    BY <1>2, FireWithKeeps
  <1>4. PICK k : k = Loop(j, l, e, data)
    OBVIOUS
  <1>5. k = FireWith(j, l, data)
    BY <1>2, <1>3, <1>4 DEF FireWith
  <1>6. /\ k.lists[l] = e /\ (\A n \in Where: n # l => k.lists[n] = j.lists[n])
        /\ k.states = j.states /\ k.threw = j.threw /\ LoopLists(j) \subseteq LoopLists(k)
        /\ e.firing /\ ~c.firing => l \in LoopLists(k) /\ TopLoop(k) = {l}
    BY <1>1, <1>2, <1>3, <1>4, LoopLoops
  <1>7. Plain(K, l) => Latecomers(K, e)
    BY <1>1, <1>2, <1>3, ChangeLate DEF Steady
  <1>8. ASSUME NEW d \in K, NEW name \in Named, l = <<d, name>>
        PROVE  /\ Outcome(K, e, d, name)
               /\ e.firing => l \in LoopLists(k) \cup k.threw
               /\ c.fired => e.fired
               /\ e.fired => ~j.lists[<<d, Other(name)>>].fired
               /\ e.on => c.on
               /\ e.fired /\ j.lists[<<d, Other(name)>>].on => l \in TopLoop(k) /\ Len(e.called) <= 1
    <2>1. Other(name) \in Named /\ Other(Other(name)) = name
      BY DEF Other, Named
    <2>2. Settling(K, j, {}, d, name) /\ Settling(K, j, {}, d, Other(name))
      BY <1>1, <2>1 DEF Steady
    <2>3. Outcome(K, c, d, name) /\ (c.firing => l \in LoopLists(j) \cup j.threw)
          /\ (c.fired => ~j.lists[<<d, Other(name)>>].fired /\ ~j.lists[<<d, Other(name)>>].on)
      BY <1>2, <1>8, <2>2 DEF Settling
    <2>4. j.lists[<<d, Other(name)>>].fired => ~c.on
      BY <1>2, <1>8, <2>1, <2>2 DEF Settling
    <2>5. /\ e = c \/ (c.on /\ ~c.fired /\ ~c.firing /\ e.firing /\ e.fired /\ e.on /\ e.called = <<>>)
          /\ Outcome(K, e, d, name)
      BY <1>2, <1>3, <2>3, FireOutcome
    <2>6. CASE e = c
      BY <1>6, <2>3, <2>5, <2>6
    <2>7. CASE c.on /\ ~c.fired /\ ~c.firing /\ e.firing /\ e.fired /\ e.on /\ e.called = <<>>
      <3>1. Len(e.called) <= 1
        BY <2>7
      <3> QED  BY <1>6, <2>4, <2>5, <2>7, <3>1
    <2> QED  BY <2>5, <2>6, <2>7
  <1>9. Steady(K, k, TopLoop(k))
    BY <1>1, <1>2, <1>6, <1>7, <1>8, Relisted
  <1>10. Firm(K, k)
    BY <1>1, <1>5, FireWithFirm
  <1> QED  BY <1>5, <1>6, <1>9, <1>10 DEF Loose

LEMMA SameCalm ==
  ASSUME NEW K, NEW j, Calm(K, j), NEW y, DOMAIN y = ScriptFields, y.states = j.states, y.lists = j.lists,
         y.stack = j.stack, y.threw = j.threw
  PROVE  Calm(K, y)
  <1>1. Firm(K, y)
    BY SameFirm DEF Calm
  <1>2. LoopLists(y) = LoopLists(j)
    BY DEF LoopLists, Loops
  <1> QED  BY <1>1, <1>2, StillSteady DEF Calm

LEMMA PageCalm ==
  ASSUME NEW K, NEW j, Calm(K, j), NEW fn \in Fns
  PROVE  /\ Calm(K, Push(j, [kind |-> "page", fn |-> fn]))
         /\ Push(j, [kind |-> "page", fn |-> fn]).states = j.states
  <1>1. Firm(K, j) /\ Typed(K, j) /\ Steady(K, j, {})
    BY DEF Calm, Firm
  <1>2. PICK k : k = Push(j, [kind |-> "page", fn |-> fn])
    OBVIOUS
  <1>3. Firm(K, k)
    BY <1>1, <1>2, PageFirm
  <1>4. k.lists = j.lists /\ k.states = j.states /\ k.threw = j.threw /\ LoopLists(j) \subseteq LoopLists(k)
    BY <1>1, <1>2, PushLoops
  <1>5. Steady(K, k, {})
    BY <1>1, <1>4, StillSteady
  <1> QED  BY <1>2, <1>3, <1>4, <1>5 DEF Calm

LEMMA RestCalm ==
  ASSUME NEW K, NEW j, Calm(K, j), NEW calls \in Jobs(K)
  PROVE  Calm(K, Rest(j, calls)) /\ Rest(j, calls).states = j.states
  <1>1. Firm(K, j) /\ Typed(K, j) /\ Steady(K, j, {})
    BY DEF Calm, Firm
  <1>2. PICK k : k = Rest(j, calls)
    OBVIOUS
  <1>3. Firm(K, k)
    BY <1>1, <1>2, RestFirm
  <1>4. k.lists = j.lists /\ k.states = j.states /\ k.threw = j.threw /\ LoopLists(j) \subseteq LoopLists(k)
    <2>1. CASE calls = <<>>
      BY <1>2, <2>1 DEF Rest
    <2>2. CASE calls # <<>>
      <3>1. k = Push(j, [kind |-> "rest", calls |-> calls])
        BY <1>2, <2>2 DEF Rest
      <3> QED  BY <1>1, <3>1, PushLoops
    <2> QED  BY <2>1, <2>2
  <1>5. Steady(K, k, {})
    BY <1>1, <1>4, StillSteady
  <1> QED  BY <1>2, <1>3, <1>4, <1>5 DEF Calm

\* Leaving a function of the page or of jQuery.
LEMMA PopCalm ==
  ASSUME NEW K, NEW j, Loose(K, j), TopLoop(j) = {}
  PROVE  Calm(K, Pop(j)) /\ Calm(K, j) /\ Pop(j).states = j.states
  <1>1. Firm(K, j) /\ Typed(K, j) /\ Steady(K, j, {})
    BY DEF Loose, Firm
  <1>2. Firm(K, Pop(j))
    BY <1>1, PopFirm
  <1>3. PICK k : k = Pop(j)
    OBVIOUS
  <1>4. k.lists = j.lists /\ k.states = j.states /\ k.threw = j.threw /\ LoopLists(j) \subseteq LoopLists(k)
    <2>1. CASE j.stack # <<>>
      BY <1>1, <1>3, <2>1, PopLoops
    <2>2. CASE j.stack = <<>>
      <3>1. DOMAIN j = ScriptFields /\ Front(j.stack) = <<>>
        BY <1>1, <2>2 DEF Front, Typed
      <3>2. k.lists = j.lists /\ k.states = j.states /\ k.threw = j.threw /\ k.stack = j.stack
        BY <1>3, <2>2, <3>1 DEF Pop, ScriptFields
      <3> QED  BY <3>2 DEF LoopLists, Loops
    <2> QED  BY <2>1, <2>2
  <1>5. Steady(K, k, {})
    BY <1>1, <1>4, StillSteady
  <1> QED  BY <1>1, <1>2, <1>3, <1>4, <1>5 DEF Calm

\* The methods of a list that is not of an outcome.
LEMMA ChangedCalm ==
  ASSUME NEW K, NEW j, Calm(K, j), NEW l \in Where, Plain(K, l)
  PROVE  /\ Calm(K, [j EXCEPT !.lists[l] = disable(j.lists[l])])
         /\ Calm(K, [j EXCEPT !.lists[l] = lock(j.lists[l])])
         /\ Calm(K, [j EXCEPT !.lists[l] = empty(j.lists[l])])
         /\ \A fn: Calm(K, [j EXCEPT !.lists[l] = remove(j.lists[l], fn)])
  <1>1. K \subseteq Promises /\ Firm(K, j) /\ Steady(K, j, {}) /\ j.lists \in [Where -> Objects(K)] /\ DOMAIN j = ScriptFields
    BY DEF Calm, Firm, Typed
  <1>2. PICK c \in Objects(K): c = j.lists[l]
    BY <1>1
  <1>3. Latecomers(K, c)
    BY <1>1, <1>2 DEF Steady
  <1>4. ASSUME NEW e, Latecomers(K, e), NEW k, k = [j EXCEPT !.lists[l] = e], Firm(K, k)  PROVE Calm(K, k)
    <2>1. /\ k.lists[l] = e /\ (\A m \in Where: m # l => k.lists[m] = j.lists[m]) /\ k.stack = j.stack
          /\ k.states = j.states /\ k.threw = j.threw
      BY <1>1, <1>4 DEF ScriptFields
    <2>2. LoopLists(k) = LoopLists(j)
      BY <2>1 DEF LoopLists, Loops
    <2>3. \A d \in K, name \in Named: l # <<d, name>>
      BY DEF Plain
    <2>4. ASSUME NEW d \in K, NEW name \in Named, l = <<d, name>>
          PROVE  /\ Outcome(K, e, d, name)
                 /\ e.firing => l \in LoopLists(k) \cup k.threw
                 /\ j.lists[l].fired => e.fired
                 /\ e.fired => ~j.lists[<<d, Other(name)>>].fired
                 /\ e.on => j.lists[l].on
                 /\ e.fired /\ j.lists[<<d, Other(name)>>].on => l \in {} /\ Len(e.called) <= 1
      BY <2>3, <2>4
    <2>5. \A m \in LoopLists(j) \cup j.threw: m # l => m \in LoopLists(k) \cup k.threw
      BY <2>1, <2>2
    <2>6. Plain(K, l) => Latecomers(K, e)
      BY <1>4
    <2>7. Steady(K, k, {})
      BY <1>1, <2>1, <2>4, <2>5, <2>6, Relisted
    <2> QED  BY <1>4, <2>7 DEF Calm
  <1>5. Latecomers(K, disable(c)) /\ Latecomers(K, lock(c)) /\ Latecomers(K, empty(c))
    BY <1>3, ChangeLate
  <1>6. ASSUME NEW fn  PROVE Calm(K, [j EXCEPT !.lists[l] = remove(j.lists[l], fn)])
    <2>1. Latecomers(K, remove(c, fn))
      BY <1>3, RemoveLate
    <2> QED  BY <1>1, <1>2, <1>4, <2>1, ChangedFirm
  <1>7. Calm(K, [j EXCEPT !.lists[l] = disable(j.lists[l])])
    BY <1>1, <1>2, <1>4, <1>5, ChangedFirm
  <1>8. Calm(K, [j EXCEPT !.lists[l] = lock(j.lists[l])])
    BY <1>1, <1>2, <1>4, <1>5, ChangedFirm
  <1>9. Calm(K, [j EXCEPT !.lists[l] = empty(j.lists[l])])
    BY <1>1, <1>2, <1>4, <1>5, ChangedFirm
  <1> QED  BY <1>6, <1>7, <1>8, <1>9

LEMMA AdoptCalm ==
  ASSUME NEW K, NEW j, Calm(K, j), NEW p \in K, NEW new \in K
  PROVE  Calm(K, Adopt(j, p, new))
  <1>1. PICK f \in Jobs(K): Adopt(j, p, new) = Rest(j, f)
    BY AdoptJobs
  <1> QED  BY <1>1, RestCalm

LEMMA UpdateLoose ==
  ASSUME NEW K, NEW j, Calm(K, j), NEW f \in [fn: Fns, kind: {"update"}, deferred: K, name: {"done", "progress"}],
         NEW data \in Nat
  PROVE  Loose(K, Update(j, f, data))
  <1>1. PICK m \in K: m = f.deferred
    OBVIOUS
  <1>2. f.name \in {"done", "progress"}
    OBVIOUS
  <1>3. PICK y : y = [j EXCEPT !.remaining[m] = @ - 1]
    OBVIOUS
  <1>4. Calm(K, y)
    <2>1. DOMAIN j = ScriptFields
      BY DEF Calm, Firm, Typed
    <2>2. DOMAIN y = ScriptFields /\ y.lists = j.lists /\ y.states = j.states /\ y.stack = j.stack /\ y.threw = j.threw
      BY <1>3, <2>1 DEF ScriptFields
    <2> QED  BY <2>2, SameCalm
  <1>5. <<m, "progress">> \in ListsOf(K) /\ <<m, "done">> \in ListsOf(K)
    BY DEF ListsOf
  <1>6. Loose(K, FireWith(j, <<m, "progress">>, data)) /\ Loose(K, FireWith(y, <<m, "done">>, data)) /\ Loose(K, y)
    BY <1>4, <1>5, FireWithLoose, CalmLoose
  <1>7. CASE f.name = "progress"
    <2>1. Update(j, f, data) = FireWith(j, <<m, "progress">>, data)
      BY <1>1, <1>7 DEF Update
    <2> QED  BY <1>6, <2>1
  <1>8. CASE f.name = "done"
    <2>1. Update(j, f, data) = IF y.remaining[m] = 0 THEN FireWith(y, <<m, "done">>, data) ELSE y
      BY <1>1, <1>3, <1>8 DEF Update
    <2> QED  BY <1>6, <2>1
  <1> QED  BY <1>2, <1>7, <1>8

\* What was added after the three functions of jQuery.Deferred is called when the
\* other outcome is off.
LEMMA InvokeLoose ==
  ASSUME NEW K, NEW j, Calm(K, j), NEW f \in Late(K), NEW data \in Nat
  PROVE  Loose(K, Invoke(j, f, data))
  <1>1. f \in Acts(K) /\ f.kind \in {"fireWith", "then", "update", "page", "call"}
    <2>1. f.kind \in {"fireWith", "then", "update", "page", "call"}
      BY DEF Late, Chain
    <2> QED  BY <2>1, LateActs
  <1>2. CASE f.kind = "fireWith"
    <2>1. PICK l \in ListsOf(K): l = f.list
      BY <1>1, <1>2, ActKinds
    <2>2. Invoke(j, f, data) = FireWith(j, l, data)
      BY <1>2, <2>1 DEF Invoke
    <2> QED  BY <2>2, FireWithLoose
  <1>3. CASE f.kind = "then"
    <2>0. /\ f \in Chain(K) /\ f.deferred \in K /\ f.name \in {"done", "fail", "progress"}
      BY <1>1, <1>3, ActKinds
    <2>1. PICK l \in ListsOf(K): l = <<f.deferred, f.name>>
      BY <2>0 DEF ListsOf
    <2>2. PICK t : t = [call |-> "chain", f |-> f, data |-> data]
      OBVIOUS
    <2>3. t \in Tasks(K) /\ t.call \notin Stops
      BY <2>0, <2>2 DEF Tasks, Stops
    <2>4. <<t>> \in Jobs(K)
      BY <2>3, OneJob
    <2>5. Calm(K, Rest(j, <<t>>))
      BY <2>4, RestCalm
    <2>6. "then" \in Fns
      BY DEF Fns
    <2>7. Loose(K, Push(Rest(j, <<t>>), [kind |-> "page", fn |-> "then"]))
      <3>1. Calm(K, Push(Rest(j, <<t>>), [kind |-> "page", fn |-> "then"]))
        BY <2>5, <2>6, PageCalm
      <3> QED  BY <3>1, CalmLoose
    <2>8. Loose(K, FireWith(j, l, data))
      BY FireWithLoose
    <2>9. Invoke(j, f, data) = IF f.returns = 0 THEN FireWith(j, l, data)
                               ELSE Push(Rest(j, <<t>>), [kind |-> "page", fn |-> "then"])
      BY <1>3, <2>1, <2>2 DEF Invoke
    <2> QED  BY <2>7, <2>8, <2>9
  <1>4. CASE f.kind = "update"
    <2>1. Invoke(j, f, data) = Update(j, f, data)
      BY <1>4 DEF Invoke
    <2>2. f \in [fn: Fns, kind: {"update"}, deferred: K, name: {"done", "progress"}]
      BY <1>1, <1>4, ActKinds
    <2> QED  BY <2>1, <2>2, UpdateLoose
  <1>5. CASE f.kind = "page"
    <2>1. Invoke(j, f, data) = Push(j, [kind |-> "page", fn |-> f.fn])
      BY <1>5 DEF Invoke
    <2>2. f.fn \in Fns
      BY <1>1, ActKinds
    <2> QED  BY <2>1, <2>2, PageCalm, CalmLoose
  <1>6. CASE f.kind = "call"
    <2>1. PICK t \in [call: {"cleanup"}, r: K]: t = f.what
      BY <1>1, <1>6, ActKinds
    <2>2. t \in Tasks(K) /\ t.call \notin Stops
      BY DEF Tasks, Stops
    <2>3. <<t>> \in Jobs(K)
      BY <2>2, OneJob
    <2>4. Invoke(j, f, data) = Rest(j, <<t>>)
      BY <1>6, <2>1 DEF Invoke
    <2>5. Loose(K, Rest(j, <<t>>))
      BY <2>3, RestCalm, CalmLoose
    <2> QED  BY Zenon, <2>4, <2>5
  <1> QED  BY <1>1, <1>2, <1>3, <1>4, <1>5, <1>6

LEMMA CallLoose ==
  ASSUME NEW K, NEW j, Calm(K, j), NEW t \in Tasks(K), t.call \in {"add", "fireWith", "chain"}
  PROVE  Loose(K, Call(j, t))
  <1>1. CASE t.call = "add"
    <2>1. t.list \in ListsOf(K) /\ t.f \in Late(K)
      BY <1>1 DEF Tasks
    <2>2. Call(j, t) = Add(j, t.list, t.f)
      BY <1>1 DEF Call
    <2>3. Calm(K, Add(j, t.list, t.f))
      BY <2>1, AddCalm
    <2> QED  BY <2>2, <2>3, CalmLoose
  <1>2. CASE t.call = "fireWith"
    <2>1. t.list \in ListsOf(K) /\ t.data \in Nat
      BY <1>2 DEF Tasks
    <2>2. Call(j, t) = FireWith(j, t.list, t.data)
      BY <1>2 DEF Call
    <2> QED  BY <2>1, <2>2, FireWithLoose
  <1>3. CASE t.call = "chain"
    <2>1. t.f \in Chain(K) /\ t.data \in Nat
      BY <1>3 DEF Tasks
    <2>2. PICK f \in Chain(K), n \in Nat: f = t.f /\ n = t.data
      BY <2>1
    <2>3. f.deferred \in K /\ f.name \in {"done", "fail", "progress"} /\ f.returns \in {0, -1} \cup K
      BY DEF Chain
    <2>4. PICK l \in ListsOf(K): l = <<f.deferred, f.name>>
      BY <2>3 DEF ListsOf
    <2>5. f.returns > 0 => f.returns \in K
      BY <2>3
    <2>6. Call(j, t) = IF f.returns > 0 THEN Adopt(j, f.returns, f.deferred) ELSE FireWith(j, l, n)
      BY <1>3, <2>2, <2>4 DEF Call
    <2>7. Loose(K, FireWith(j, l, n))
      BY FireWithLoose
    <2>8. f.returns > 0 => Loose(K, Adopt(j, f.returns, f.deferred))
      BY <2>3, <2>5, AdoptCalm, CalmLoose
    <2> QED  BY <2>6, <2>7, <2>8
  <1> QED  BY <1>1, <1>2, <1>3

\* The end of a loop, or its next firing.
LEMMA ContinueCalm ==
  ASSUME NEW K, NEW j, Loose(K, j), j.stack # <<>>, Top(j).kind = "fire", NEW l, l = Top(j).list,
         NEW c \in Objects(K), Ordered(c), c.firing => j.lists[l].queue # <<>>,
         Plain(K, l) => Latecomers(K, c),
         \A d \in K, name \in Named: l = <<d, name>> =>
             /\ Outcome(K, c, d, name) /\ ~c.firing /\ j.lists[l].fired /\ c.fired /\ (c.on => j.lists[l].on)
             /\ ~(Len(j.lists[l].called) <= 1)
  PROVE  Calm(K, Continue(j, l, c)) /\ Continue(j, l, c).states = j.states
  <1>1. Firm(K, j) /\ Typed(K, j) /\ TopLoop(j) = {l} /\ Steady(K, j, {l})
    BY DEF Loose, Firm, TopLoop
  <1>2. /\ Firm(K, Pop(j)) /\ l \in ListsOf(K) /\ \A i \in Loops(Pop(j)): Pop(j).stack[i].list # l
    BY <1>1, PopKeeps
  <1>3. l \in Where /\ K \subseteq Promises
    BY <1>1, <1>2, ListsWhere DEF Typed
  <1>4. PICK p : p = Pop(j)
    OBVIOUS
  <1>5. /\ p.lists = j.lists /\ p.states = j.states /\ p.threw = j.threw /\ DOMAIN p = ScriptFields
        /\ LoopLists(j) \subseteq LoopLists(p) \cup {l}
    BY <1>1, <1>4, PopLoops
  <1>6. p.lists \in [Where -> Objects(K)]
    BY <1>1, <1>5 DEF Typed
  <1>7. PICK z : z = [p EXCEPT !.lists[l] = c]
    OBVIOUS
  <1>8. /\ z.lists[l] = c /\ (\A m \in Where: m # l => z.lists[m] = j.lists[m]) /\ z.stack = p.stack
        /\ z.states = j.states /\ z.threw = j.threw
    BY <1>3, <1>5, <1>6, <1>7 DEF ScriptFields
  <1>9. Typed(K, z)
    <2>1. \A i \in Loops(p): p.stack[i].list = l => c.firing
      BY <1>2, <1>4
    <2> QED  BY <1>2, <1>3, <1>4, <1>7, <2>1, ListKeeps DEF Firm
  <1>10. LoopLists(z) = LoopLists(p)
    BY <1>8 DEF LoopLists, Loops
  <1>11. PICK k : k = Continue(j, l, c)
    OBVIOUS
  <1>12. /\ k.lists = z.lists /\ k.states = z.states /\ k.threw = z.threw /\ LoopLists(z) \subseteq LoopLists(k)
    <2>1. PICK y : y = [j EXCEPT !.lists[l] = c]
      OBVIOUS
    <2>2. Pop(y) = z
      <3>1. DOMAIN j = ScriptFields
        BY <1>1 DEF Typed
      <3>2. y.stack = j.stack
        BY <2>1, <3>1 DEF ScriptFields
      <3> QED  BY <1>4, <1>7, <2>1, <3>1, <3>2 DEF Pop, ScriptFields
    <2>3. CASE c.firing
      <3>1. PICK f : f = [kind |-> "fire", list |-> l, data |-> Head(j.lists[l].queue)]
        OBVIOUS
      <3>2. k = Push(z, f)
        BY <1>11, <2>1, <2>2, <2>3, <3>1 DEF Continue
      <3> QED  BY <1>9, <3>2, PushLoops
    <2>4. CASE ~c.firing
      BY <1>11, <2>1, <2>2, <2>4 DEF Continue
    <2> QED  BY <2>3, <2>4
  <1>13. ASSUME NEW d \in K, NEW name \in Named, l = <<d, name>>
         PROVE  /\ Outcome(K, c, d, name)
                /\ c.firing => l \in LoopLists(k) \cup k.threw
                /\ j.lists[l].fired => c.fired
                /\ c.fired => ~j.lists[<<d, Other(name)>>].fired
                /\ c.on => j.lists[l].on
                /\ c.fired /\ j.lists[<<d, Other(name)>>].on => l \in {} /\ Len(c.called) <= 1
    <2>1. Settling(K, j, {l}, d, name)
      BY <1>1 DEF Steady
    <2>2. /\ Outcome(K, c, d, name) /\ ~c.firing /\ j.lists[l].fired /\ c.fired /\ (c.on => j.lists[l].on)
          /\ ~(Len(j.lists[l].called) <= 1)
      BY <1>13
    <2>3. ~j.lists[<<d, Other(name)>>].fired /\ ~j.lists[<<d, Other(name)>>].on
      BY <1>13, <2>1, <2>2 DEF Settling
    <2> QED  BY <2>2, <2>3
  <1>14. k.states = j.states /\ k.lists[l] = c /\ \A m \in Where: m # l => k.lists[m] = j.lists[m]
    BY <1>8, <1>12
  <1>15. \A m \in LoopLists(j) \cup j.threw: m # l => m \in LoopLists(k) \cup k.threw
    BY <1>5, <1>8, <1>10, <1>12
  <1>16. Steady(K, k, {})
    <2>1. \A m \in {l}: m # l => m \in {}
      OBVIOUS
    <2>2. Steady(K, j, {l}) /\ K \subseteq Promises /\ l \in Where
      BY <1>1, <1>3
    <2>3. Plain(K, l) => Latecomers(K, c)
      OBVIOUS
    <2> QED  BY ONLY <1>13, <1>14, <1>15, <2>1, <2>2, <2>3, Relisted
  <1>17. Firm(K, k)
    BY <1>1, <1>11, ContinueFirm
  <1> QED  BY <1>11, <1>14, <1>16, <1>17 DEF Calm

\* A turn of the loop of a list that is not of an outcome.
LEMMA TurnPlain ==
  ASSUME NEW K, NEW j, NEW l, Steady(K, j, {l}), K \subseteq Promises, l \in Where, Plain(K, l),
         NEW e, NEW y, y.states = j.states, y.threw = j.threw, LoopLists(y) = LoopLists(j),
         e.list = j.lists[l].list, y.lists[l] = e, \A m \in Where: m # l => y.lists[m] = j.lists[m]
  PROVE  Steady(K, y, {})
  <1>1. Latecomers(K, e)
    BY DEF Steady, Latecomers
  <1>2. ASSUME NEW d \in K, NEW name \in Named, l = <<d, name>>
        PROVE  /\ Outcome(K, e, d, name)
               /\ e.firing => l \in LoopLists(y) \cup y.threw
               /\ j.lists[l].fired => e.fired
               /\ e.fired => ~j.lists[<<d, Other(name)>>].fired
               /\ e.on => j.lists[l].on
               /\ e.fired /\ j.lists[<<d, Other(name)>>].on => l \in {} /\ Len(e.called) <= 1
    BY <1>2 DEF Plain
  <1>3. \A m \in LoopLists(j) \cup j.threw: m # l => m \in LoopLists(y) \cup y.threw
    OBVIOUS
  <1> QED  BY <1>1, <1>2, <1>3, Relisted

\* A turn of the loop of an outcome calls the function that settles the promise,
\* then the one that disables the other outcome, then what follows them: when the
\* other one is off, nothing is left to be done in this loop.
LEMMA TurnSettles ==
  ASSUME NEW K, NEW j, NEW d \in K, NEW name \in Named, NEW l, l = <<d, name>>, Steady(K, j, {l}), K \subseteq Promises,
         l \in LoopLists(j),
         NEW e, Outcome(K, e, d, name), e.fired, e.on => j.lists[l].on, j.lists[l].fired,
         NEW y, y.states = j.states, y.threw = j.threw, LoopLists(y) = LoopLists(j),
         y.lists[l] = e, \A m \in Where: m # l => y.lists[m] = j.lists[m],
         NEW V, j.lists[<<d, Other(name)>>].on => l \in V /\ Len(e.called) <= 1
  PROVE  Steady(K, y, V)
  <1>1. l \in Where
    BY DEF Where, Named
  <1>2. ~Plain(K, l)
    BY DEF Plain
  <1>3. ASSUME NEW b \in K, NEW n \in Named, l = <<b, n>>
        PROVE  /\ Outcome(K, e, b, n)
               /\ e.firing => l \in LoopLists(y) \cup y.threw
               /\ j.lists[l].fired => e.fired
               /\ e.fired => ~j.lists[<<b, Other(n)>>].fired
               /\ e.on => j.lists[l].on
               /\ e.fired /\ j.lists[<<b, Other(n)>>].on => l \in V /\ Len(e.called) <= 1
    <2>1. b = d /\ n = name
      BY <1>3
    <2>2. Settling(K, j, {l}, d, name)
      BY DEF Steady
    <2>3. ~j.lists[<<d, Other(name)>>].fired
      BY <2>2 DEF Settling
    <2> QED  BY <2>1, <2>3
  <1>4. \A m \in LoopLists(j) \cup j.threw: m # l => m \in LoopLists(y) \cup y.threw
    OBVIOUS
  <1>5. \A m \in {l}: m # l => m \in V
    OBVIOUS
  <1> QED  BY <1>1, <1>2, <1>3, <1>4, <1>5, Relisted

LEMMA StateSteady ==
  ASSUME NEW K, K \subseteq Promises, NEW j, NEW W, Steady(K, j, W), j.states \in [Promises -> States],
         NEW d \in K, NEW name \in Named, j.lists[<<d, name>>].fired,
         NEW k, k.lists = j.lists, k.threw = j.threw, LoopLists(k) = LoopLists(j),
         k.states = [j.states EXCEPT ![d] = Outcomes[name]]
  PROVE  Steady(K, k, W)
  <1>1. ASSUME NEW b \in K, NEW n \in Named  PROVE Settling(K, k, W, b, n)
    <2>1. Settling(K, j, W, b, n)
      BY DEF Steady
    <2>2. k.states[b] = IF b = d THEN Outcomes[name] ELSE j.states[b]
      OBVIOUS
    <2>3. Outcomes[name] = Outcomes[n] => name = n
      BY DEF Outcomes, Named
    <2>4. k.states[b] = Outcomes[n] => j.lists[<<b, n>>].fired
      BY <2>1, <2>2, <2>3 DEF Settling
    <2> QED  BY <2>1, <2>4 DEF Settling
  <1> QED  BY <1>1 DEF Steady

LEMMA TurnDisables ==
  ASSUME NEW K, NEW j, Firm(K, j), NEW d \in K, NEW name \in Named, NEW l, l = <<d, name>>, Steady(K, j, {l}),
         l \in LoopLists(j), j.lists[l].fired,
         NEW e, Outcome(K, e, d, name), e.fired, e.on => j.lists[l].on,
         NEW o, o = <<d, Other(name)>>,
         NEW k, k.states = j.states, k.threw = j.threw, LoopLists(k) = LoopLists(j),
         k.lists[l] = e, k.lists[o] = disable(j.lists[o]),
         \A m \in Where: m # l /\ m # o => k.lists[m] = j.lists[m]
  PROVE  Steady(K, k, {})
  <1>1. K \subseteq Promises /\ j.lists \in [Where -> Objects(K)] /\ DOMAIN j = ScriptFields
    BY DEF Firm, Typed
  <1>2. Other(name) \in Named /\ Other(name) # name /\ Other(Other(name)) = name
    BY DEF Other, Named
  <1>3. o \in Where /\ l \in Where /\ o # l
    BY <1>1, <1>2 DEF Where, Named
  <1>4. PICK c \in Objects(K): c = j.lists[o]
    BY <1>1, <1>3
  <1>5. PICK y : y = [j EXCEPT !.lists[o] = disable(c)]
    OBVIOUS
  <1>6. /\ y.lists[o] = disable(c) /\ (\A m \in Where: m # o => y.lists[m] = j.lists[m]) /\ y.stack = j.stack
        /\ y.states = j.states /\ y.threw = j.threw
    BY <1>1, <1>3, <1>5 DEF ScriptFields
  <1>7. LoopLists(y) = LoopLists(j)
    BY <1>6 DEF LoopLists, Loops
  <1>8. Settling(K, j, {l}, d, name) /\ Settling(K, j, {l}, d, Other(name))
    BY <1>2 DEF Steady
  <1>9. Outcome(K, c, d, Other(name)) /\ ~c.fired
    BY <1>4, <1>8 DEF Settling
  <1>10. Outcome(K, disable(c), d, Other(name)) /\ ~disable(c).fired /\ ~disable(c).on /\ ~disable(c).firing
    BY <1>9, DisableOutcome
  <1>11. Steady(K, y, {l})
    <2>1. ~Plain(K, o)
      BY <1>2 DEF Plain
    <2>2. ASSUME NEW b \in K, NEW n \in Named, o = <<b, n>>
          PROVE  /\ Outcome(K, disable(c), b, n)
                 /\ disable(c).firing => o \in LoopLists(y) \cup y.threw
                 /\ j.lists[o].fired => disable(c).fired
                 /\ disable(c).fired => ~j.lists[<<b, Other(n)>>].fired
                 /\ disable(c).on => j.lists[o].on
                 /\ disable(c).fired /\ j.lists[<<b, Other(n)>>].on => o \in {l} /\ Len(disable(c).called) <= 1
      <3>1. b = d /\ n = Other(name)
        BY <2>2
      <3> QED  BY <1>4, <1>9, <1>10, <3>1
    <2>3. \A m \in LoopLists(j) \cup j.threw: m # o => m \in LoopLists(y) \cup y.threw
      BY <1>6, <1>7
    <2>4. \A m \in {l}: m # o => m \in {l}
      OBVIOUS
    <2> QED  BY <1>1, <1>3, <1>6, <2>1, <2>2, <2>3, <2>4, Relisted
  <1>12. \A m \in Where: m # l => k.lists[m] = y.lists[m]
    BY <1>4, <1>6
  <1>13. k.states = y.states /\ k.threw = y.threw /\ LoopLists(k) = LoopLists(y) /\ l \in LoopLists(y)
    BY <1>6, <1>7
  <1>14. y.lists[l] = j.lists[l] /\ ~y.lists[o].on
    BY <1>3, <1>6, <1>10
  <1> QED  BY <1>1, <1>11, <1>12, <1>13, <1>14, TurnSettles

\* The turns of a loop.
LEMMA TurnLoose ==
  ASSUME NEW K, NEW j, Loose(K, j), j.stack # <<>>, Top(j).kind = "fire"
  PROVE  Loose(K, Turn(j))
  <1>1. Firm(K, j) /\ Typed(K, j) /\ K \subseteq Promises /\ DOMAIN j = ScriptFields /\ j.lists \in [Where -> Objects(K)]
    BY DEF Loose, Firm, Typed
  <1>2. PICK l : l = Top(j).list
    OBVIOUS
  <1>3. TopLoop(j) = {l} /\ Steady(K, j, {l})
    BY <1>2 DEF Loose, TopLoop
  <1>4. j.lists[l].firing /\ l \in ListsOf(K) /\ Top(j).data \in Nat
    BY <1>1, <1>2, PopKeeps
  <1>5. l \in Where
    BY <1>1, <1>4, ListsWhere
  <1>6. PICK c \in Objects(K): c = j.lists[l] /\ Ordered(c) /\ c.firing
    BY <1>1, <1>4, <1>5 DEF Firm
  <1>7. PICK k : k = Turn(j)
    OBVIOUS
  <1>9. CASE ~More(c)
    <2>1. PICK e \in Objects(K): e = Finished(c) /\ Ordered(e) /\ (e.firing => c.queue # <<>>)
      BY <1>6, <1>9, FinishedKeeps
    <2>2. k = Continue(j, l, e)
      BY <1>2, <1>6, <1>7, <1>9, <2>1 DEF Turn
    <2>3. Plain(K, l) => Latecomers(K, e)
      BY <1>3, <1>5, <1>6, <2>1, ChangeLate DEF Steady
    <2>4. ASSUME NEW d \in K, NEW name \in Named, l = <<d, name>>
          PROVE  /\ Outcome(K, e, d, name) /\ ~e.firing /\ c.fired /\ e.fired /\ (e.on => c.on)
                 /\ ~(Len(c.called) <= 1)
      <3>1. Outcome(K, c, d, name)
        BY <1>3, <1>6, <2>4 DEF Steady, Settling
      <3>2. /\ Outcome(K, e, d, name) /\ e.fired /\ ~e.firing
            /\ Len(e.called) = c.count /\ c.count >= 3 /\ c.called = e.called
        BY <1>6, <1>9, <2>1, <3>1, FinishedOutcome
      <3>3. c.on /\ c.fired
        BY <1>6, <3>1 DEF Outcome, Objects
      <3>4. c.count \in Nat
        BY DEF Objects
      <3>5. PICK n \in Nat: n = c.count
        BY <3>4
      <3>6. n >= 3 /\ ~(n <= 1)
        BY <3>2, <3>5
      <3>7. Len(c.called) = n
        BY Zenon, <3>2, <3>5
      <3> QED  BY Zenon, <3>2, <3>3, <3>6, <3>7
    <2>5. Calm(K, k)
      BY <1>2, <1>6, <2>1, <2>2, <2>3, <2>4, ContinueCalm
    <2> QED  BY <1>7, <2>5, CalmLoose
  <1>10. CASE More(c)
    <2>1. PICK n : n = c.index + 1
      OBVIOUS
    <2>2. PICK e : e = [c EXCEPT !.index = n, !.called = Append(@, c.list[n + 1].id)]
      OBVIOUS
    <2>3. c.list[n + 1] \in Entries(K) /\ e \in Objects(K) /\ Ordered(e) /\ e.firing
      BY <1>6, <1>10, <2>1, <2>2, TurnKeeps
    <2>4. e.list = c.list
      BY <2>2 DEF Objects
    <2>5. PICK f \in Acts(K): f = c.list[n + 1].does
      BY <2>3 DEF Entries
    <2>6. PICK y : y = [j EXCEPT !.lists[l] = e]
      OBVIOUS
    <2>7. Firm(K, y)
      <3>1. \A i \in Loops(j): j.stack[i].list = l => e.firing
        BY <2>3
      <3> QED  BY <1>1, <1>5, <2>3, <2>6, <3>1, ListKeeps
    <2>8. /\ y.lists[l] = e /\ (\A m \in Where: m # l => y.lists[m] = j.lists[m]) /\ y.stack = j.stack
          /\ y.states = j.states /\ y.threw = j.threw /\ DOMAIN y = ScriptFields
      BY <1>1, <1>5, <2>6 DEF ScriptFields
    <2>9. LoopLists(y) = LoopLists(j) /\ TopLoop(y) = {l}
      <3>1. TopLoop(y) = TopLoop(j)
        BY <2>8 DEF TopLoop, Top
      <3> QED  BY <1>3, <2>8, <3>1 DEF LoopLists, Loops
    <2>10. k = Invoke(y, f, Top(j).data)
      <3>1. y = [j EXCEPT !.lists[l].index = n, !.lists[l].called = Append(@, c.list[n + 1].id)]
        <4>1. DOMAIN c = DOMAIN [options |-> 0, list |-> 0, on |-> 0, repeats |-> 0, queue |-> 0,
                                 firing |-> 0, fired |-> 0, memory |-> 0, index |-> 0, length |-> 0, start |-> 0,
                                 count |-> 0, called |-> 0, cleared |-> 0]
          BY DEF Objects
        <4> QED  BY <1>1, <1>5, <1>6, <2>2, <2>6, <4>1 DEF ScriptFields
      <3> QED  BY <1>2, <1>6, <1>7, <1>10, <2>1, <2>5, <3>1 DEF Turn
    <2>11. CASE Plain(K, l)
      <3>1. Steady(K, y, {})
        BY <1>1, <1>3, <1>5, <1>6, <2>4, <2>8, <2>9, <2>11, TurnPlain
      <3>2. n + 1 \in DOMAIN c.list
        BY <1>6, <1>10, <2>1, TurnKeeps
      <3>3. f \in Late(K)
        BY <1>3, <1>5, <1>6, <2>5, <2>11, <3>2 DEF Steady, Latecomers
      <3> QED  BY <1>4, <1>7, <2>7, <2>10, <3>1, <3>3, InvokeLoose DEF Calm
    <2>12. CASE ~Plain(K, l)
      <3>1. PICK d \in K, name \in Named: l = <<d, name>>
        BY <2>12 DEF Plain
      <3>2. Settling(K, j, {l}, d, name)
        BY <1>3 DEF Steady
      <3>3. Outcome(K, c, d, name) /\ c.fired
        BY <1>6, <3>1, <3>2 DEF Settling, Outcome, Objects
      <3>4. PICK o : o = <<d, Other(name)>>
        OBVIOUS
      <3>5. o \in Where /\ o # l /\ ~j.lists[o].fired /\ (j.lists[o].on => Len(c.called) <= 1)
        <4>1. Other(name) \in Named /\ Other(name) # name
          BY DEF Other, Named
        <4>2. o \in Where /\ o # l
          BY <1>1, <3>1, <3>4, <4>1 DEF Where, Named
        <4>3. ~j.lists[o].fired /\ (j.lists[o].on => Len(c.called) <= 1)
          BY <1>6, <3>1, <3>2, <3>3, <3>4 DEF Settling
        <4> QED  BY <4>2, <4>3
      <3>6. PICK s : s = Len(c.called)
        OBVIOUS
      <3>7. s \in Nat
        BY <3>6 DEF Objects
      <3>8. /\ Outcome(K, e, d, name) /\ e.fired /\ e.on = c.on /\ Entered(K, c.list[n + 1], d, name)
            /\ c.list[n + 1].id = s + 1 /\ Len(e.called) = s + 1
        <4>1. e = CallsNext(c)
          BY Zenon, <2>1, <2>2 DEF CallsNext
        <4>2. /\ Outcome(K, e, d, name) /\ e.fired /\ e.on = c.on /\ Entered(K, c.list[(c.index + 1) + 1], d, name)
              /\ c.list[(c.index + 1) + 1].id = Len(c.called) + 1 /\ Len(e.called) = Len(c.called) + 1
          BY <1>6, <1>10, <3>3, <4>1, TurnOutcome
        <4> QED  BY Zenon, <2>1, <3>6, <4>2
      <3>9. Entered(K, c.list[n + 1], d, name) => IF s + 1 <= 3 THEN f = Begins(d, name)[s + 1] ELSE f \in Late(K)
        BY <2>5, <3>8 DEF Entered
      <3>10. l \in LoopLists(y)
        <4>1. j.stack \in Seq(Frames(K))
          BY <1>1 DEF Typed
        <4>2. PICK h \in Nat: h = Len(j.stack) /\ h >= 1
          BY <4>1
        <4>3. h \in DOMAIN j.stack /\ Top(j) = j.stack[h]
          BY <4>1, <4>2 DEF Top, Last
        <4>4. h \in Loops(j)
          BY <4>3 DEF Loops
        <4>5. l \in LoopLists(j)
          BY <1>2, <4>3, <4>4 DEF LoopLists
        <4> QED  BY <2>9, <4>5
      <3>11. CASE s = 0
        <4>1. f = Settles(d, name) /\ Len(e.called) = 1
          BY <3>8, <3>9, <3>11 DEF Begins
        <4>2. k = [y EXCEPT !.states[d] = Outcomes[name]]
          BY <2>10, <4>1 DEF Invoke, Settles
        <4>3. /\ k.lists = y.lists /\ k.stack = y.stack /\ k.threw = y.threw /\ k.states = [y.states EXCEPT ![d] = Outcomes[name]]
          BY <2>8, <4>2 DEF ScriptFields
        <4>4. TopLoop(k) = {l} /\ LoopLists(k) = LoopLists(y)
          BY <2>9, <4>3 DEF TopLoop, Top, LoopLists, Loops
        <4>a. l \in LoopLists(j) /\ LoopLists(y) = LoopLists(j) /\ (e.on => j.lists[l].on)
          BY <1>6, <2>9, <3>8, <3>10
        <4>b. j.lists[<<d, Other(name)>>].on => l \in {l} /\ Len(e.called) <= 1
          BY <4>1
        <4>o. j.lists[l].fired
          BY <1>6, <3>3
        <4>5. Steady(K, y, {l})
          BY ONLY <1>1, <1>3, <1>6, <2>8, <3>1, <3>3, <3>8, <4>a, <4>b, <4>o, TurnSettles
        <4>c. y.lists[<<d, name>>].fired /\ y.states \in [Promises -> States]
          BY <2>7, <2>8, <3>1, <3>8 DEF Firm, Typed
        <4>d. LoopLists(k) = LoopLists(y)
          BY <4>4
        <4>6. Steady(K, k, {l})
          BY <1>1, <3>1, <4>3, <4>c, <4>d, <4>5, StateSteady
        <4>7. Firm(K, k)
          <5>1. Outcomes[name] \in {"resolved", "rejected"}
            BY DEF Outcomes, Named
          <5>2. Firm(K, [y EXCEPT !.states[d] = Outcomes[name]])
            BY <2>7, <5>1, StateFirm
          <5> QED  BY Zenon, <4>2, <5>2
        <4> QED  BY <1>7, <4>4, <4>6, <4>7 DEF Loose
      <3>12. CASE s = 1
        <4>1. f = Disables(o)
          BY <3>4, <3>9, <3>8, <3>12 DEF Begins
        <4>2. k = [y EXCEPT !.lists[o] = disable(y.lists[o])]
          BY <2>10, <4>1 DEF Invoke, Disables
        <4>3. y.lists \in [Where -> Objects(K)]
          BY <2>7 DEF Firm, Typed
        <4>4. /\ k.stack = y.stack /\ k.threw = y.threw /\ k.states = y.states
              /\ k.lists[o] = disable(y.lists[o]) /\ \A m \in Where: m # o => k.lists[m] = y.lists[m]
          BY <2>8, <3>5, <4>2, <4>3 DEF ScriptFields
        <4>5. LoopLists(k) = LoopLists(j) /\ l \in LoopLists(j)
          BY <2>8, <2>9, <3>10, <4>4 DEF LoopLists, Loops
        <4>6. /\ k.threw = j.threw /\ k.states = j.states /\ k.lists[l] = e /\ k.lists[o] = disable(j.lists[o])
              /\ \A m \in Where: m # l /\ m # o => k.lists[m] = j.lists[m]
          BY <1>5, <2>8, <3>5, <4>4
        <4>7. e.on => j.lists[l].on
          BY <1>6, <3>8
        <4>8. Steady(K, k, {})
          BY <1>1, <1>3, <1>6, <3>1, <3>3, <3>4, <3>8, <4>5, <4>6, <4>7, TurnDisables
        <4>9. Calm(K, k)
          <5>1. Firm(K, [y EXCEPT !.lists[o] = disable(y.lists[o])])
            BY <2>7, <3>5, ChangedFirm
          <5> QED  BY <4>2, <4>8, <5>1 DEF Calm
        <4> QED  BY <1>7, <4>9, CalmLoose
      <3>a. ASSUME s >= 2  PROVE Calm(K, y)
        <4>1. ~(s <= 1)
          BY <3>7, <3>a
        <4>2. ~j.lists[o].on
          BY <3>5, <3>6, <4>1
        <4>3. l \in LoopLists(j) /\ LoopLists(y) = LoopLists(j) /\ (e.on => j.lists[l].on)
          BY <1>6, <2>9, <3>8, <3>10
        <4>4. j.lists[o].on => l \in {} /\ Len(e.called) <= 1
          BY <4>2
        <4>5. Steady(K, y, {})
          BY <1>1, <1>3, <1>6, <2>8, <3>1, <3>3, <3>4, <3>8, <4>3, <4>4, TurnSettles
        <4> QED  BY <2>7, <4>5 DEF Calm
      <3>13. CASE s = 2
        <4>1. f = Locks(<<d, "progress">>) /\ Calm(K, y)
          BY <3>a, <3>9, <3>8, <3>13 DEF Begins
        <4>2. PICK p : p = <<d, "progress">>
          OBVIOUS
        <4>3. k = [y EXCEPT !.lists[p] = lock(y.lists[p])]
          BY <2>10, <4>1, <4>2 DEF Invoke, Locks
        <4>4. p \in Where /\ Plain(K, p)
          BY <1>1, <4>2 DEF Where, Plain, Named
        <4>5. Calm(K, [y EXCEPT !.lists[p] = lock(y.lists[p])])
          BY <4>1, <4>4, ChangedCalm
        <4>6. Calm(K, k)
          BY Zenon, <4>3, <4>5
        <4> QED  BY <1>7, <4>6, CalmLoose
      <3>14. CASE s >= 3
        <4>1. f \in Late(K)
          BY <3>7, <3>8, <3>9, <3>14
        <4>2. Calm(K, y)
          BY <3>7, <3>a, <3>14
        <4>3. Loose(K, Invoke(y, f, Top(j).data))
          <5>1. Top(j).data \in Nat
            BY <1>4
          <5> QED  BY <4>1, <4>2, <5>1, InvokeLoose
        <4> QED  BY Zenon, <1>7, <2>10, <4>3
      <3> QED  BY <3>7, <3>11, <3>12, <3>13, <3>14
    <2> QED  BY <2>11, <2>12
  <1> QED  BY <1>9, <1>10

\* The end of a function of the page: a false is listened to by Callbacks objects
\* that are not of an outcome.
LEMMA ReturnCalm ==
  ASSUME NEW K, NEW j, Loose(K, j), j.stack # <<>>, Top(j).kind = "page", NEW false \in BOOLEAN
  PROVE  Calm(K, Return(j, false)) /\ Return(j, false).states = j.states
  <1>1. PICK y : y = Pop(j)
    OBVIOUS
  <1>2. Calm(K, y) /\ y.states = j.states
    <2>1. TopLoop(j) = {}
      BY DEF TopLoop
    <2> QED  BY <1>1, <2>1, PopCalm
  <1>3. PICK l : l = Top(y).list
    OBVIOUS
  <1>4. CASE false /\ y.stack # <<>> /\ Top(y).kind = "fire" /\ "stopOnFalse" \in y.lists[l].options
    <2>1. y.lists[l].firing /\ l \in ListsOf(K) /\ Firm(K, y) /\ Steady(K, y, {})
      BY <1>2, <1>3, <1>4, PopKeeps DEF Calm
    <2>2. l \in Where
      BY <2>1, ListsWhere DEF Firm, Typed
    <2>3. PICK c \in Objects(K): c = y.lists[l] /\ Ordered(c) /\ c.firing
      BY <2>1, <2>2 DEF Firm, Typed
    <2>4. PICK d \in Objects(K): d = [c EXCEPT !.memory = NoData]
      BY DEF Objects, NoData
    <2>5. Alike(c, d) /\ d.length = c.length /\ d.memory = NoData /\ d.queue = c.queue
      BY <2>4 DEF Objects, Alike
    <2>6. Ordered(d) /\ d.firing
      <3>1. Ordered(d)
        BY <2>3, <2>5, AlikeOrdered
      <3> QED  BY <2>3, <2>5, <3>1 DEF Alike
    <2>7. PICK e \in Objects(K): e = Finished(d) /\ Ordered(e) /\ (e.firing => c.queue # <<>>)
      BY <2>5, <2>6, FinishedKeeps
    <2>8. ASSUME NEW b \in K, NEW name \in Named, l = <<b, name>>  PROVE FALSE
      <3>1. Outcome(K, c, b, name)
        BY <2>1, <2>3, <2>8 DEF Steady, Settling
      <3>2. c.options = {"once", "memory"} /\ "stopOnFalse" \in c.options
        BY <1>4, <2>3, <3>1 DEF Outcome
      <3> QED  BY <3>2
    <2>9. Latecomers(K, e)
      <3>1. Latecomers(K, c)
        BY <2>1, <2>2, <2>3, <2>8 DEF Steady, Plain
      <3> QED  BY <2>4, <2>7, <3>1, ChangeLate
    <2>10. Loose(K, y)
      BY <1>2, CalmLoose
    <2>11. Calm(K, Continue(y, l, e)) /\ Continue(y, l, e).states = y.states
      <3>1. ASSUME NEW b \in K, NEW name \in Named, l = <<b, name>>
            PROVE  /\ Outcome(K, e, b, name) /\ ~e.firing /\ y.lists[l].fired /\ e.fired /\ (e.on => y.lists[l].on)
                   /\ ~(Len(y.lists[l].called) <= 1)
        BY <2>8, <3>1
      <3>2. e.firing => y.lists[l].queue # <<>>
        BY <2>3, <2>7
      <3> QED  BY <1>3, <1>4, <2>7, <2>9, <2>10, <3>1, <3>2, ContinueCalm
    <2>12. Return(j, false) = Continue(y, l, e)
      BY <1>1, <1>3, <1>4, <2>3, <2>4, <2>7 DEF Return
    <2> QED  BY <1>2, <2>11, <2>12
  <1>5. CASE ~(false /\ y.stack # <<>> /\ Top(y).kind = "fire" /\ "stopOnFalse" \in y.lists[l].options)
    <2>1. Return(j, false) = y
      BY <1>1, <1>3, <1>5 DEF Return
    <2> QED  BY <1>2, <2>1
  <1> QED  BY <1>4, <1>5

\* The loops that an exception ends are remembered.
LEMMA ThrowCalm ==
  ASSUME NEW K, NEW j, Loose(K, j), TopLoop(j) = {}
  PROVE  Calm(K, Throw(j))
  <1>1. Firm(K, j) /\ Steady(K, j, {}) /\ DOMAIN j = ScriptFields
    BY DEF Loose, Firm, Typed
  <1>2. PICK y : y = Throw(j)
    OBVIOUS
  <1>3. y.lists = j.lists /\ y.states = j.states /\ y.threw = j.threw \cup LoopLists(j)
    BY <1>1, <1>2 DEF Throw, ScriptFields, LoopLists, Loops
  <1>4. LoopLists(j) \cup j.threw \subseteq LoopLists(y) \cup y.threw
    BY <1>3
  <1>5. Steady(K, y, {})
    BY <1>1, <1>3, <1>4, StillSteady
  <1> QED  BY <1>1, <1>2, <1>5, ThrowFirm DEF Calm

\* The lists of a new deferred.
LEMMA AddFresh ==
  ASSUME NEW c, c.on, ~c.firing, c.memory = NoData, "unique" \notin c.options, NEW f
  PROVE  add(c, f) = [c EXCEPT !.list = Append(c.list, [fn |-> f.fn, does |-> f, id |-> c.count + 1]), !.count = c.count + 1]
  BY DEF add, push

LEMMA NewListOutcome ==
  ASSUME NEW K, NEW d \in K, NEW name \in Named
  PROVE  /\ Outcome(K, NewList(d, name), d, name)
         /\ ~NewList(d, name).fired /\ ~NewList(d, name).firing
  <1>1. PICK c : c = NewCallbacks({"once", "memory"})
    OBVIOUS
  <1>2. /\ c.options = {"once", "memory"} /\ c.list = <<>> /\ c.on /\ ~c.repeats /\ ~c.firing /\ ~c.fired
        /\ c.memory = NoData /\ c.count = 0 /\ c.called = <<>>
        /\ DOMAIN c = {"options", "list", "on", "repeats", "queue", "firing", "fired", "memory", "index", "length",
                       "start", "count", "called", "cleared"}
    BY <1>1 DEF NewCallbacks
  <1>3. PICK f, g, h : f = Settles(d, name) /\ g = Disables(<<d, Other(name)>>) /\ h = Locks(<<d, "progress">>)
    OBVIOUS
  <1>4. PICK e1, e2, e3 : /\ e1 = [fn |-> f.fn, does |-> f, id |-> 1] /\ e2 = [fn |-> g.fn, does |-> g, id |-> 2]
                          /\ e3 = [fn |-> h.fn, does |-> h, id |-> 3]
    OBVIOUS
  <1>5. PICK s1, s2, s3 : s1 = Append(<<>>, e1) /\ s2 = Append(s1, e2) /\ s3 = Append(s2, e3)
    OBVIOUS
  <1>6. PICK c1 : c1 = [c EXCEPT !.list = s1, !.count = 1]
    OBVIOUS
  <1>7. PICK c2 : c2 = [c1 EXCEPT !.list = s2, !.count = 2]
    OBVIOUS
  <1>8. PICK c3 : c3 = [c2 EXCEPT !.list = s3, !.count = 3]
    OBVIOUS
  <1>9. /\ c1.options = {"once", "memory"} /\ c1.list = s1 /\ c1.on /\ ~c1.repeats /\ ~c1.firing /\ ~c1.fired
        /\ c1.memory = NoData /\ c1.count = 1 /\ c1.called = <<>> /\ DOMAIN c1 = DOMAIN c
    BY <1>2, <1>6
  <1>10. /\ c2.options = {"once", "memory"} /\ c2.list = s2 /\ c2.on /\ ~c2.repeats /\ ~c2.firing /\ ~c2.fired
         /\ c2.memory = NoData /\ c2.count = 2 /\ c2.called = <<>> /\ DOMAIN c2 = DOMAIN c
    BY <1>2, <1>7, <1>9
  <1>11. /\ c3.options = {"once", "memory"} /\ c3.list = s3 /\ c3.on /\ ~c3.repeats /\ ~c3.firing /\ ~c3.fired
         /\ c3.memory = NoData /\ c3.count = 3 /\ c3.called = <<>>
    BY <1>2, <1>8, <1>10
  <1>12. add(c, f) = c1
    <2>1. c.count + 1 = 1 /\ "unique" \notin c.options /\ c.list = <<>>
      BY <1>2
    <2>2. [fn |-> f.fn, does |-> f, id |-> c.count + 1] = e1
      BY Zenon, <1>4, <2>1
    <2>3. add(c, f) = [c EXCEPT !.list = Append(c.list, [fn |-> f.fn, does |-> f, id |-> c.count + 1]),
                              !.count = c.count + 1]
      BY <1>2, <2>1, AddFresh
    <2> QED  BY Zenon, <1>5, <1>6, <2>1, <2>2, <2>3
  <1>13. add(c1, g) = c2
    <2>1. c1.count + 1 = 2 /\ "unique" \notin c1.options /\ c1.list = s1
      BY <1>9
    <2>2. [fn |-> g.fn, does |-> g, id |-> c1.count + 1] = e2
      BY Zenon, <1>4, <2>1
    <2>3. add(c1, g) = [c1 EXCEPT !.list = Append(c1.list, [fn |-> g.fn, does |-> g, id |-> c1.count + 1]),
                              !.count = c1.count + 1]
      BY <1>9, <2>1, AddFresh
    <2> QED  BY Zenon, <1>5, <1>7, <2>1, <2>2, <2>3
  <1>14. add(c2, h) = c3
    <2>1. c2.count + 1 = 3 /\ "unique" \notin c2.options /\ c2.list = s2
      BY <1>10
    <2>2. [fn |-> h.fn, does |-> h, id |-> c2.count + 1] = e3
      BY Zenon, <1>4, <2>1
    <2>3. add(c2, h) = [c2 EXCEPT !.list = Append(c2.list, [fn |-> h.fn, does |-> h, id |-> c2.count + 1]),
                              !.count = c2.count + 1]
      BY <1>10, <2>1, AddFresh
    <2> QED  BY Zenon, <1>5, <1>8, <2>1, <2>2, <2>3
  <1>15. NewList(d, name) = c3
    BY <1>1, <1>3, <1>12, <1>13, <1>14 DEF NewList, Named
  <1>16. Len(s3) = 3 /\ DOMAIN s3 = 1..3 /\ s3[1] = e1 /\ s3[2] = e2 /\ s3[3] = e3
    <2>1. PICK S : S = {e1, e2, e3}
      OBVIOUS
    <2>2. e1 \in S /\ e2 \in S /\ e3 \in S /\ <<>> \in Seq(S)
      BY <2>1
    <2>3. s1 \in Seq(S) /\ Len(s1) = 1 /\ s1[1] = e1
      BY <1>5, <2>2
    <2>4. s2 \in Seq(S) /\ Len(s2) = 2 /\ s2[1] = e1 /\ s2[2] = e2
      BY <1>5, <2>2, <2>3
    <2>5. s3 \in Seq(S) /\ Len(s3) = 3 /\ s3[1] = e1 /\ s3[2] = e2 /\ s3[3] = e3
      BY <1>5, <2>2, <2>4
    <2> QED  BY <2>5
  <1>17. \A i \in 1..3: s3[i].id = i /\ s3[i].does = Begins(d, name)[i]
    BY <1>3, <1>4, <1>16 DEF Begins
  <1>18. Outcome(K, c3, d, name)
    <2>1. \A i \in DOMAIN c3.list: c3.list[i].id = c3.count - Len(c3.list) + i /\ Entered(K, c3.list[i], d, name)
      BY <1>11, <1>16, <1>17 DEF Entered
    <2> QED  BY <1>11, <1>16, <2>1 DEF Outcome
  <1> QED  BY <1>11, <1>15, <1>18

LEMMA OutcomeGrows ==
  ASSUME NEW K, NEW L, K \subseteq L, NEW c
  PROVE  /\ \A d, name: Outcome(K, c, d, name) => Outcome(L, c, d, name)
         /\ Latecomers(K, c) => Latecomers(L, c)
  <1>1. Late(K) \subseteq Late(L)
    BY Monotone
  <1> QED  BY <1>1 DEF Outcome, Entered, Latecomers

LEMMA NewDeferredFields ==
  ASSUME NEW K, NEW j, Firm(K, j), NEW d \in Promises, d \notin K, NEW y, y = NewDeferred(j, d)
  PROVE  /\ DOMAIN y = ScriptFields /\ y.stack = j.stack /\ y.threw = j.threw
         /\ y.states = [j.states EXCEPT ![d] = "pending"]
         /\ \A name \in {"done", "fail", "progress"}: y.lists[<<d, name>>] = NewList(d, name)
         /\ \A l \in Where: (\A name \in {"done", "fail", "progress"}: l # <<d, name>>) => y.lists[l] = j.lists[l]
  <1>1. DOMAIN j = ScriptFields /\ DOMAIN j.lists = Where
    BY DEF Firm, Typed
  <1>2. <<d, "done">> \in Where /\ <<d, "fail">> \in Where /\ <<d, "progress">> \in Where
    BY DEF Where
  <1>3. PICK h : h = [j.lists EXCEPT ![<<d, "done">>] = NewList(d, "done"), ![<<d, "fail">>] = NewList(d, "fail"),
                                     ![<<d, "progress">>] = NewList(d, "progress")]
    OBVIOUS
  <1>4. /\ DOMAIN y = ScriptFields /\ y.stack = j.stack /\ y.threw = j.threw
        /\ y.states = [j.states EXCEPT ![d] = "pending"] /\ y.lists = h
    BY <1>1, <1>3 DEF NewDeferred, ScriptFields
  <1>5. PICK c, e, p : c = NewList(d, "done") /\ e = NewList(d, "fail") /\ p = NewList(d, "progress")
    OBVIOUS
  <1>6. h[<<d, "done">>] = c /\ h[<<d, "fail">>] = e /\ h[<<d, "progress">>] = p
    BY <1>1, <1>2, <1>3, <1>5
  <1>7. \A l \in Where: l \notin {<<d, "done">>, <<d, "fail">>, <<d, "progress">>} => h[l] = j.lists[l]
    BY <1>1, <1>2, <1>3
  <1> QED  BY <1>4, <1>5, <1>6, <1>7

LEMMA NewDeferredCalm ==
  ASSUME NEW K, NEW j, Calm(K, j), NEW d \in Promises, d \notin K
  PROVE  Calm(K \cup {d}, NewDeferred(j, d)) /\ DOMAIN NewDeferred(j, d) = ScriptFields
  <1>1. PICK L : L = K \cup {d}
    OBVIOUS
  <1>2. PICK y : y = NewDeferred(j, d)
    OBVIOUS
  <1>3. K \subseteq Promises /\ Firm(K, j) /\ Steady(K, j, {}) /\ j.states \in [Promises -> States]
    BY DEF Calm, Firm, Typed
  <1>4. Firm(L, y)
    BY <1>1, <1>2, <1>3, NewDeferredFirm
  <1>5. /\ DOMAIN y = ScriptFields /\ y.stack = j.stack /\ y.threw = j.threw
        /\ y.states = [j.states EXCEPT ![d] = "pending"]
        /\ \A name \in {"done", "fail", "progress"}: y.lists[<<d, name>>] = NewList(d, name)
        /\ \A l \in Where: (\A name \in {"done", "fail", "progress"}: l # <<d, name>>) => y.lists[l] = j.lists[l]
    BY <1>2, <1>3, NewDeferredFields
  <1>6. LoopLists(y) = LoopLists(j)
    BY <1>5 DEF LoopLists, Loops
  <1>7. ASSUME NEW b \in L, NEW name \in Named  PROVE Settling(L, y, {}, b, name)
    <2>1. Other(name) \in Named
      BY DEF Other, Named
    <2>2. CASE b = d
      <3>1. y.lists[<<d, name>>] = NewList(d, name) /\ y.lists[<<d, Other(name)>>] = NewList(d, Other(name))
        BY <1>5, <2>1 DEF Named
      <3>2. /\ Outcome(L, y.lists[<<d, name>>], d, name) /\ ~y.lists[<<d, name>>].firing /\ ~y.lists[<<d, name>>].fired
            /\ ~y.lists[<<d, Other(name)>>].fired
        BY <1>1, <2>1, <3>1, NewListOutcome
      <3>3. y.states[d] # Outcomes[name]
        BY <1>3, <1>5 DEF Outcomes, Named
      <3> QED  BY <2>2, <3>2, <3>3 DEF Settling
    <2>3. CASE b # d
      <3>1. b \in K
        BY <1>1, <2>3
      <3>2. Settling(K, j, {}, b, name)
        BY <1>3, <3>1 DEF Steady
      <3>3. <<b, name>> \in Where /\ <<b, Other(name)>> \in Where
        BY <1>3, <2>1, <3>1 DEF Where, Named
      <3>4. y.lists[<<b, name>>] = j.lists[<<b, name>>] /\ y.lists[<<b, Other(name)>>] = j.lists[<<b, Other(name)>>]
        BY <1>5, <2>3, <3>3
      <3>5. y.states[b] = j.states[b]
        BY <1>3, <1>5, <2>3
      <3>6. Outcome(K, j.lists[<<b, name>>], b, name) => Outcome(L, j.lists[<<b, name>>], b, name)
        BY <1>1, OutcomeGrows
      <3> QED  BY <1>5, <1>6, <3>2, <3>4, <3>5, <3>6 DEF Settling
    <2> QED  BY <2>2, <2>3
  <1>8. ASSUME NEW l \in Where, Plain(L, l)  PROVE Latecomers(L, y.lists[l])
    <2>1. CASE l = <<d, "progress">>
      <3>1. y.lists[l] = NewCallbacks({"memory"})
        BY <1>5, <2>1 DEF NewList
      <3>2. y.lists[l].list = <<>>
        BY <3>1 DEF NewCallbacks
      <3> QED  BY <3>2 DEF Latecomers
    <2>2. CASE l # <<d, "progress">>
      <3>1. \A b \in L, name \in Named: l # <<b, name>>
        BY <1>8 DEF Plain
      <3>2. Plain(K, l)
        BY <1>1, <3>1 DEF Plain
      <3>3. l # <<d, "done">> /\ l # <<d, "fail">>
        BY <1>1, <3>1 DEF Named
      <3>4. y.lists[l] = j.lists[l]
        BY <1>5, <2>2, <3>3
      <3>5. Latecomers(K, j.lists[l])
        BY <1>3, <3>2 DEF Steady
      <3> QED  BY <1>1, <3>4, <3>5, OutcomeGrows
    <2> QED  BY <2>1, <2>2
  <1>9. Steady(L, y, {})
    BY <1>7, <1>8 DEF Steady
  <1> QED  BY <1>1, <1>2, <1>4, <1>5, <1>9 DEF Calm

LEMMA thenCalm ==
  ASSUME NEW K, NEW j, Calm(K, j), NEW d \in K, NEW new \in Promises, new \notin K, NEW returns \in {0, -1} \cup K
  PROVE  Calm(K \cup {new}, then(j, d, new, returns))
  <1>1. PICK L : L = K \cup {new}
    OBVIOUS
  <1>2. PICK y : y = [NewDeferred(j, new) EXCEPT !.follows[new] = <<d, returns>>]
    OBVIOUS
  <1>3. Calm(L, y)
    <2>1. PICK z : z = NewDeferred(j, new) /\ Calm(L, z) /\ DOMAIN z = ScriptFields
      BY <1>1, NewDeferredCalm
    <2>2. DOMAIN y = ScriptFields /\ y.states = z.states /\ y.lists = z.lists /\ y.stack = z.stack
          /\ y.threw = z.threw
      BY <1>2, <2>1 DEF ScriptFields
    <2> QED  BY <2>1, <2>2, SameCalm
  <1> DEFINE f == [i \in 1..3 |-> [call |-> "add", list |-> <<d, Names[i]>>,
                                   f |-> Chains(new, Names[i], IF Names[i] = "progress" THEN 0 ELSE returns)]]
  <1>4. \A i \in 1..3: f[i] \in Tasks(L) /\ f[i].call \notin Stops
    <2>1. TAKE i \in 1..3
    <2>2. Names[i] \in {"done", "fail", "progress"}
      BY DEF Names
    <2>3. PICK v \in {0, -1} \cup L: v = IF Names[i] = "progress" THEN 0 ELSE returns
      BY <1>1
    <2>4. PICK g \in Late(L): g = Chains(new, Names[i], v)
      <3>1. Chains(new, Names[i], v) \in Chain(L)
        BY <1>1, <2>2, ActsTyped
      <3> QED  BY <3>1, LateActs
    <2>5. PICK l \in ListsOf(L): l = <<d, Names[i]>>
      BY <1>1, <2>2 DEF ListsOf
    <2>6. f[i] = [call |-> "add", list |-> l, f |-> g]
      BY <2>3, <2>4, <2>5
    <2> HIDE DEF f
    <2> QED  BY <2>6, AddTask
  <1>5. f \in Jobs(L)
    <2>1. f = [i \in 1..3 |-> f[i]]
      OBVIOUS
    <2> HIDE DEF f
    <2> QED  BY <1>4, <2>1, JobsTyped
  <1>6. then(j, d, new, returns) = Rest(y, f)
    BY <1>2 DEF then
  <1> HIDE DEF f
  <1>7. Calm(L, Rest(y, f))
    BY <1>3, <1>5, RestCalm
  <1> QED  BY <1>1, <1>6, <1>7

LEMMA whenCalm ==
  ASSUME NEW K, NEW j, Calm(K, j), NEW m \in Promises, m \notin K, NEW subs \in Seq(K)
  PROVE  Calm(K \cup {m}, when(j, m, subs))
  <1>1. PICK L : L = K \cup {m}
    OBVIOUS
  <1>2. PICK y : y = [NewDeferred(j, m) EXCEPT !.remaining[m] = Len(subs), !.waits[m] = ToSet(subs)]
    OBVIOUS
  <1>3. Calm(L, y)
    <2>1. PICK z : z = NewDeferred(j, m) /\ Calm(L, z) /\ DOMAIN z = ScriptFields
      BY <1>1, NewDeferredCalm
    <2>2. DOMAIN y = ScriptFields /\ y.states = z.states /\ y.lists = z.lists /\ y.stack = z.stack
          /\ y.threw = z.threw
      BY <1>2, <2>1 DEF ScriptFields
    <2> QED  BY <2>1, <2>2, SameCalm
  <1>4. subs \in Seq(L)
    BY <1>1, SeqMonotonic
  <1>5. Listens(m, subs) \in Jobs(L)
    BY <1>1, <1>4, ListensTyped
  <1>6. Calm(L, Rest(y, Listens(m, subs)))
    BY <1>3, <1>5, RestCalm
  <1>7. when(j, m, subs) = Rest(y, Listens(m, subs))
    BY <1>2 DEF when
  <1> QED  BY <1>1, <1>6, <1>7

-----------------------------------------------------------------------------
\* The requests and the page around the scripts.

LEMMA ScriptsSound ==
  ASSUME NEW K, NEW R, NEW x, Sound(K, R, x), NEW j, Calm(K, j)
  PROVE  /\ Sound(K, R, [x EXCEPT !.js = j])
         /\ [x EXCEPT !.js = j].req = x.req /\ [x EXCEPT !.js = j].page = x.page /\ [x EXCEPT !.js = j].js = j
  BY DEF Sound

LEMMA PageSound ==
  ASSUME NEW K, NEW R, NEW x, Sound(K, R, x), NEW p, Paged(p)
  PROVE  Sound(K, R, [x EXCEPT !.page = p])
  BY DEF Sound

LEMMA RequestSound ==
  ASSUME NEW K, NEW R, NEW x, Sound(K, R, x), NEW r, NEW e,
         r \in R => DOMAIN e = RequestFields /\ StartedWith(e, r \in K)
  PROVE  Sound(K, R, [x EXCEPT !.req[r] = e])
  <1>1. PICK q : q = [x.req EXCEPT ![r] = e]
    OBVIOUS
  <1>2. DOMAIN q = R /\ \A p \in R: q[p] = IF p = r THEN e ELSE x.req[p]
    BY <1>1 DEF Sound, Requested
  <1>3. Requested(K, R, q)
    BY <1>2 DEF Sound, Requested
  <1>4. PICK y : y = [x EXCEPT !.req = q]
    OBVIOUS
  <1>5. Sound(K, R, y)
    BY <1>3, <1>4 DEF Sound
  <1>6. [x EXCEPT !.req[r] = e] = y
    BY <1>1, <1>4
  <1> QED  BY <1>5, <1>6

LEMMA CallingSound ==
  ASSUME NEW K, NEW R, NEW x, Sound(K, R, x), NEW calls \in Jobs(K)
  PROVE  Sound(K, R, Calling(x, calls))
  <1>1. PICK j : j = Rest(x.js, calls)
    OBVIOUS
  <1>2. Calm(K, j)
    BY <1>1, RestCalm DEF Sound
  <1>3. Sound(K, R, [x EXCEPT !.js = j])
    BY <1>2, ScriptsSound
  <1> QED  BY <1>1, <1>3 DEF Calling

LEMMA SkipSound ==
  ASSUME NEW K, NEW R, NEW x, Sound(K, R, x), TopLoop(x.js) = {}
  PROVE  Sound(K, R, Skip(x))
  <1>1. PICK j : j = Pop(x.js)
    OBVIOUS
  <1>2. Calm(K, j)
    BY <1>1, PopCalm, CalmLoose DEF Sound
  <1>3. Sound(K, R, [x EXCEPT !.js = j])
    BY <1>2, ScriptsSound
  <1> QED  BY <1>1, <1>3 DEF Skip

LEMMA HookSound ==
  ASSUME NEW K, NEW R, NEW x, Sound(K, R, x), NEW at \in Fns
  PROVE  Sound(K, R, Hook(x, at))
  <1>1. PICK j : j = Push(x.js, [kind |-> "page", fn |-> at])
    OBVIOUS
  <1>2. Calm(K, j)
    BY <1>1, PageCalm DEF Sound
  <1>3. Sound(K, R, [x EXCEPT !.js = j])
    BY <1>2, ScriptsSound
  <1> QED  BY <1>1, <1>3 DEF Hook

LEMMA triggerSound ==
  ASSUME NEW K, NEW R, NEW x, Sound(K, R, x), NEW event \in Fns
  PROVE  Sound(K, R, trigger(x, event))
  <1>1. PICK p : p = [x.page EXCEPT !.events = Append(@, event)]
    OBVIOUS
  <1>2. Paged(p)
    BY <1>1 DEF Sound, Paged, PageFields
  <1>3. PICK y : y = [x EXCEPT !.page = p]
    OBVIOUS
  <1>4. Sound(K, R, y)
    BY <1>2, <1>3, PageSound
  <1>5. trigger(x, event) = Hook(IF event \in {"ajaxStart", "ajaxStop"} THEN y ELSE x, event)
    BY <1>1, <1>3 DEF trigger
  <1> QED  BY <1>4, <1>5, HookSound

LEMMA RunsSound ==
  ASSUME NEW K, NEW R, NEW x, Sound(K, R, x), NEW r
  PROVE  Sound(K, R, Runs(x, r))
  <1>1. PICK f : f = x.page.win[x.req[r].name]
    OBVIOUS
  <1>2. PICK e : e = [x.req[f] EXCEPT !.answer = r]
    OBVIOUS
  <1>3. f \in R => DOMAIN e = RequestFields /\ StartedWith(e, f \in K)
    BY <1>2 DEF Sound, Requested, StartedWith, RequestFields, NewRequest
  <1>4. Sound(K, R, [x EXCEPT !.req[f] = e])
    BY <1>3, RequestSound
  <1>5. Runs(x, r) = IF x.req[r].name # 0 /\ f # 0 THEN [x EXCEPT !.req[f] = e] ELSE x
    BY <1>1, <1>2 DEF Runs
  <1> QED  BY <1>4, <1>5

LEMMA RequestTask ==
  ASSUME NEW K, NEW r \in K, NEW name \in {"prefilter", "begin", "beforeSend", "check", "install", "ajaxSend", "send",
                                           "statusCode", "cleanup", "finish"}
  PROVE  [call |-> name, r |-> r] \in Tasks(K)
  BY DEF Tasks

LEMMA DoneCalls ==
  ASSUME NEW K, K \subseteq Promises, NEW r \in K, NEW ok
  PROVE  << [call |-> "fireWith", list |-> <<r, IF ok THEN "done" ELSE "fail">>, data |-> r],
            [call |-> "statusCode", r |-> r],
            [call |-> "global", r |-> r, event |-> IF ok THEN "ajaxSuccess" ELSE "ajaxError"],
            [call |-> "fireWith", list |-> <<r, "complete">>, data |-> r],
            [call |-> "global", r |-> r, event |-> "ajaxComplete"],
            [call |-> "finish", r |-> r] >> \in Jobs(K)
  <1>1. r \in Nat
    <2>1. r \in Promises
      OBVIOUS
    <2>2. Cardinality(Promises) \in Nat
      BY PromisesAssumption, FS_CardinalityType
    <2>3. r \in 1..Cardinality(Promises)
      BY Zenon, <2>1, PromisesAssumption
    <2> QED  BY <2>2, <2>3
  <1>2. PICK l \in ListsOf(K): l = <<r, IF ok THEN "done" ELSE "fail">>
    <2>1. PICK name \in {"done", "fail"}: name = IF ok THEN "done" ELSE "fail"
      OBVIOUS
    <2>2. <<r, name>> \in ListsOf(K)
      BY DEF ListsOf
    <2> QED  BY <2>1, <2>2
  <1>3. PICK m \in ListsOf(K): m = <<r, "complete">>
    BY DEF ListsOf
  <1>4. PICK event \in Fns: event = IF ok THEN "ajaxSuccess" ELSE "ajaxError"
    BY DEF Fns
  <1>5. "ajaxComplete" \in Fns
    BY DEF Fns
  <1>6. [call |-> "fireWith", list |-> l, data |-> r] \in Tasks(K) /\ [call |-> "fireWith", list |-> m, data |-> r] \in Tasks(K)
    BY <1>1 DEF Tasks
  <1>7. [call |-> "global", r |-> r, event |-> event] \in Tasks(K) /\ [call |-> "global", r |-> r, event |-> "ajaxComplete"] \in Tasks(K)
    BY <1>5 DEF Tasks
  <1>8. [call |-> "statusCode", r |-> r] \in Tasks(K) /\ [call |-> "finish", r |-> r] \in Tasks(K)
    BY RequestTask
  <1>9. PICK a, b, c, d, e, f \in Tasks(K):
            /\ a = [call |-> "fireWith", list |-> l, data |-> r] /\ b = [call |-> "statusCode", r |-> r]
            /\ c = [call |-> "global", r |-> r, event |-> event] /\ d = [call |-> "fireWith", list |-> m, data |-> r]
            /\ e = [call |-> "global", r |-> r, event |-> "ajaxComplete"] /\ f = [call |-> "finish", r |-> r]
    BY Zenon, <1>6, <1>7, <1>8
  <1>10. f.call \notin Stops
    BY <1>9 DEF Stops
  <1>11. <<a, b, c, d, e, f>> \in Seq(Tasks(K)) /\ Len(<<a, b, c, d, e, f>>) = 6 /\ <<a, b, c, d, e, f>>[6] = f
    OBVIOUS
  <1>12. <<a, b, c, d, e, f>> \in Jobs(K)
    BY <1>10, <1>11 DEF Jobs
  <1> QED  BY Zenon, <1>2, <1>3, <1>4, <1>9, <1>12

LEMMA doneSound ==
  ASSUME NEW K, NEW R, NEW x, Sound(K, R, x), NEW r \in K, NEW status, NEW responses, NEW ct, NEW good
  PROVE  Sound(K, R, done(x, r, status, responses, ct, good))
  <1> DEFINE cs == Converters(x.req[r].name # 0)
             types == HandleResponses(x.req[r].types, ct, responses, cs)
             results == Convert(IF responses = <<>> THEN x.req[r].types ELSE types, cs)
             y == IF "globalEval" \in ToSet(results) THEN Runs(x, r) ELSE x
             ok == isSuccess(status) /\ (status \in {204, 304} \/ ~Fails(y, r, results, good))
             data == IF ~ok \/ status \in {204, 304} THEN 0
                     ELSE IF "container" \in ToSet(results) THEN y.req[r].answer ELSE r
             calls == << [call |-> "fireWith", list |-> <<r, IF ok THEN "done" ELSE "fail">>, data |-> r],
                         [call |-> "statusCode", r |-> r],
                         [call |-> "global", r |-> r, event |-> IF ok THEN "ajaxSuccess" ELSE "ajaxError"],
                         [call |-> "fireWith", list |-> <<r, "complete">>, data |-> r],
                         [call |-> "global", r |-> r, event |-> "ajaxComplete"],
                         [call |-> "finish", r |-> r] >>
             e == [y.req[r] EXCEPT !.state = 2, !.timer = FALSE, !.transport = "none", !.ok = ok, !.data = data]
  <1>1. done(x, r, status, responses, ct, good) =
            IF x.req[r].state = 2 THEN x ELSE Calling([y EXCEPT !.req[r] = e], calls)
    BY DEF done
  <1> HIDE DEF cs, types, results
  <1>2. Sound(K, R, y)
    BY RunsSound
  <1>3. calls \in Jobs(K)
    <2>1. K \subseteq Promises
      BY DEF Sound, Calm, Firm, Typed
    <2> HIDE DEF ok
    <2> QED  BY <2>1, DoneCalls
  <1> HIDE DEF y, ok, data, calls
  <1>4. r \in R => DOMAIN e = RequestFields /\ StartedWith(e, r \in K)
    BY <1>2 DEF Sound, Requested, StartedWith, RequestFields, NewRequest
  <1> HIDE DEF e
  <1>5. Sound(K, R, [y EXCEPT !.req[r] = e])
    BY <1>2, <1>4, RequestSound
  <1>6. Sound(K, R, Calling([y EXCEPT !.req[r] = e], calls))
    BY <1>3, <1>5, CallingSound
  <1> QED  BY <1>1, <1>6

LEMMA AbortedSound ==
  ASSUME NEW K, NEW R, NEW x, Sound(K, R, x), NEW r \in K
  PROVE  Sound(K, R, Aborted(x, r)) /\ Sound(K, R, abort(x, r))
  <1>1. PICK e : e = [x.req[r] EXCEPT !.net = "none"]
    OBVIOUS
  <1>2. PICK g : g = [x.req[r] EXCEPT !.net = IF @ = "open" THEN "late" ELSE @]
    OBVIOUS
  <1>3. r \in R => /\ DOMAIN e = RequestFields /\ StartedWith(e, r \in K)
                   /\ DOMAIN g = RequestFields /\ StartedWith(g, r \in K)
    BY <1>1, <1>2 DEF Sound, Requested, StartedWith, RequestFields, NewRequest
  <1>4. Sound(K, R, [x EXCEPT !.req[r] = e]) /\ Sound(K, R, [x EXCEPT !.req[r] = g])
    BY <1>3, RequestSound
  <1>5. Aborted(x, r) \in {x, [x EXCEPT !.req[r] = e], [x EXCEPT !.req[r] = g]}
    BY <1>1, <1>2 DEF Aborted
  <1>6. Sound(K, R, Aborted(x, r))
    BY <1>4, <1>5
  <1> QED  BY <1>6, doneSound DEF abort, Nothing

\* A request and the page are changed together.
LEMMA BothSound ==
  ASSUME NEW K, NEW R, NEW x, Sound(K, R, x), NEW r, NEW e,
         r \in R => DOMAIN e = RequestFields /\ StartedWith(e, r \in K),
         NEW y, DOMAIN y = {"js", "req", "page"}, y.js = x.js, y.req = [x.req EXCEPT ![r] = e], Paged(y.page)
  PROVE  Sound(K, R, y)
  <1>1. DOMAIN y.req = R /\ \A p \in R: y.req[p] = IF p = r THEN e ELSE x.req[p]
    BY DEF Sound, Requested
  <1>2. Requested(K, R, y.req)
    BY <1>1 DEF Sound, Requested
  <1> QED  BY <1>2 DEF Sound

-----------------------------------------------------------------------------
\* The calls of ajax.

LEMMA ajaxSound ==
  ASSUME NEW K, NEW R, NEW x, Sound(K, R, x), NEW r \in Promises, r \in R, r \notin K
  PROVE  Sound(K \cup {r}, R, ajax(x, r))
  <1>1. PICK L : L = K \cup {r}
    OBVIOUS
  <1>2. PICK y : y = [x EXCEPT !.js = NewDeferred(@, r), !.req[r].started = TRUE, !.req[r].types = Opt(r).types]
    OBVIOUS
  <1>3. PICK e : e = [x.req[r] EXCEPT !.started = TRUE, !.types = Opt(r).types]
    OBVIOUS
  <1>4. DOMAIN x = {"js", "req", "page"} /\ DOMAIN x.req = R
    BY DEF Sound, Requested
  <1>5. /\ DOMAIN y = {"js", "req", "page"} /\ y.js = NewDeferred(x.js, r) /\ y.req = [x.req EXCEPT ![r] = e]
        /\ y.page = x.page
    BY <1>2, <1>3, <1>4
  <1>6. DOMAIN e = RequestFields /\ StartedWith(e, r \in L)
    BY <1>1, <1>3 DEF Sound, Requested, StartedWith, RequestFields, NewRequest
  <1>7. Requested(L, R, y.req)
    <2>1. \A p \in R: y.req[p] = IF p = r THEN e ELSE x.req[p]
      BY <1>4, <1>5
    <2>2. ASSUME NEW p \in R  PROVE DOMAIN y.req[p] = RequestFields /\ StartedWith(y.req[p], p \in L)
      <3>1. CASE p = r
        BY <1>6, <2>1, <3>1
      <3>2. CASE p # r
        <4>1. (p \in L) = (p \in K)
          BY <1>1, <3>2
        <4>2. DOMAIN y.req[p] = RequestFields /\ StartedWith(y.req[p], p \in K)
          BY <2>1, <3>2 DEF Sound, Requested
        <4> QED  BY <4>1, <4>2 DEF StartedWith
      <3> QED  BY <3>1, <3>2
    <2> QED  BY <1>4, <1>5, <2>2 DEF Requested
  <1>8. Sound(L, R, y)
    BY <1>1, <1>5, <1>7, NewDeferredCalm DEF Sound
  <1> DEFINE f == [i \in 1..7 |->
                      [call |-> <<"prefilter", "begin", "beforeSend", "check", "install", "ajaxSend", "send">>[i],
                       r |-> r]]
  <1>9. \A i \in 1..7: f[i] \in Tasks(L)
    <2>1. TAKE i \in 1..7
    <2>2. PICK name \in {"prefilter", "begin", "beforeSend", "check", "install", "ajaxSend", "send"}:
              name = <<"prefilter", "begin", "beforeSend", "check", "install", "ajaxSend", "send">>[i]
      OBVIOUS
    <2>3. [call |-> name, r |-> r] \in Tasks(L)
      BY <1>1, RequestTask
    <2> QED  BY <2>2, <2>3
  <1>13. f[7].call \notin Stops
    BY DEF Stops
  <1>10. f \in Jobs(L)
    <2>1. f = [i \in 1..7 |-> f[i]]
      OBVIOUS
    <2> HIDE DEF f
    <2>2. f \in [1..7 -> Tasks(L)]
      BY <1>9, <2>1
    <2>3. f \in Seq(Tasks(L))
      BY <2>2, SeqDef
    <2>4. Len(f) = 7
      BY <2>2, <2>3
    <2> QED  BY <1>13, <2>3, <2>4 DEF Jobs
  <1>11. ajax(x, r) = Calling(y, f)
    BY <1>2 DEF ajax
  <1> HIDE DEF f
  <1>12. Sound(L, R, Calling(y, f))
    BY <1>8, <1>10, CallingSound
  <1> QED  BY <1>1, <1>11, <1>12

LEMMA jsonpCallbackSound ==
  ASSUME NEW K, NEW R, NEW x, Sound(K, R, x), NEW r
  PROVE  Sound(K, R, jsonpCallback(x, r))
  <1>1. PICK y : y = jsonpCallback(x, r)
    OBVIOUS
  <1>2. DOMAIN x = {"js", "req", "page"} /\ Paged(x.page)
    BY DEF Sound
  <1>3. \E n: /\ DOMAIN y = {"js", "req", "page"} /\ y.js = x.js /\ y.req = [x.req EXCEPT ![r] = [x.req[r] EXCEPT !.name = n]]
              /\ Paged(y.page)
    <2>1. CASE Opt(r).name = "fixed"
      BY <1>1, <1>2, <2>1 DEF jsonpCallback
    <2>2. CASE Opt(r).name # "fixed" /\ x.page.free # <<>>
      <3>1. y = [x EXCEPT !.req[r].name = Last(x.page.free), !.page.free = Front(@)]
        BY <1>1, <2>2 DEF jsonpCallback
      <3>2. y.page = [x.page EXCEPT !.free = Front(@)]
        BY <1>2, <3>1
      <3>3. Paged(y.page)
        BY <1>2, <3>2 DEF Paged, PageFields
      <3> QED  BY <1>2, <3>1, <3>3
    <2>3. CASE Opt(r).name # "fixed" /\ x.page.free = <<>>
      <3>1. y = [x EXCEPT !.req[r].name = x.page.names + 1, !.page.names = @ + 1]
        BY <1>1, <2>3 DEF jsonpCallback
      <3>2. y.page = [x.page EXCEPT !.names = @ + 1]
        BY <1>2, <3>1
      <3>3. Paged(y.page)
        BY <1>2, <3>2 DEF Paged, PageFields
      <3> QED  BY <1>2, <3>1, <3>3
    <2> QED  BY <2>1, <2>2, <2>3
  <1>4. PICK n: /\ DOMAIN y = {"js", "req", "page"} /\ y.js = x.js
                /\ y.req = [x.req EXCEPT ![r] = [x.req[r] EXCEPT !.name = n]] /\ Paged(y.page)
    BY <1>3
  <1>5. PICK e : e = [x.req[r] EXCEPT !.name = n]
    OBVIOUS
  <1>6. r \in R => DOMAIN e = RequestFields /\ StartedWith(e, r \in K)
    BY <1>5 DEF Sound, Requested, StartedWith, RequestFields, NewRequest
  <1>7. Sound(K, R, y)
    BY <1>4, <1>5, <1>6, BothSound
  <1> QED  BY <1>1, <1>7

LEMMA PrefilterSound ==
  ASSUME NEW K, NEW R, NEW x, Sound(K, R, x), NEW r \in K
  PROVE  Sound(K, R, Prefilter(x, r))
  <1>1. Sound(K, R, Jsonp(x, r))
    <2>1. PICK y : y = jsonpCallback(x, r)
      OBVIOUS
    <2>2. PICK z : z = Calling(y, always(r, Does([call |-> "cleanup", r |-> r])))
      OBVIOUS
    <2>3. Sound(K, R, z)
      <3>1. PICK g \in Late(K): g = Does([call |-> "cleanup", r |-> r])
        BY ActsTyped
      <3>2. always(r, g) \in Jobs(K)
        BY AlwaysTyped
      <3> QED  BY <2>1, <2>2, <3>1, <3>2, jsonpCallbackSound, CallingSound
    <2>4. PICK w : w = [z EXCEPT !.req[r].overwritten = y.page.win[y.req[r].name], !.page.win[y.req[r].name] = r]
      OBVIOUS
    <2>5. PICK e : e = [z.req[r] EXCEPT !.overwritten = y.page.win[y.req[r].name]]
      OBVIOUS
    <2>6. PICK p : p = [z.page EXCEPT !.win = [@ EXCEPT ![y.req[r].name] = r]]
      OBVIOUS
    <2>7. DOMAIN w = {"js", "req", "page"} /\ w.js = z.js /\ w.req = [z.req EXCEPT ![r] = e] /\ w.page = p
      BY <2>3, <2>4, <2>5, <2>6 DEF Sound
    <2>8. Paged(p)
      BY <2>3, <2>6 DEF Sound, Paged, PageFields
    <2>9. r \in R => DOMAIN e = RequestFields /\ StartedWith(e, r \in K)
      BY <2>3, <2>5 DEF Sound, Requested, StartedWith, RequestFields, NewRequest
    <2>10. Sound(K, R, w)
      BY <2>3, <2>7, <2>8, <2>9, BothSound
    <2> QED  BY <2>1, <2>2, <2>4, <2>10 DEF Jsonp
  <1>2. PICK y : y = IF IsJsonp(Opt(r).types, Opt(r).question) THEN Jsonp(x, r) ELSE x
    OBVIOUS
  <1>3. Sound(K, R, y)
    BY <1>1, <1>2
  <1>4. PICK types : types = PrefilterTypes(Opt(r).types, Opt(r).question)
    OBVIOUS
  <1>5. PICK e : e = [y.req[r] EXCEPT !.types = types]
    OBVIOUS
  <1>6. r \in R => DOMAIN e = RequestFields /\ StartedWith(e, r \in K)
    BY <1>3, <1>5 DEF Sound, Requested, StartedWith, RequestFields, NewRequest
  <1>7. Sound(K, R, [y EXCEPT !.req[r] = e])
    BY <1>3, <1>6, RequestSound
  <1>8. "prefilter" \in Fns
    BY DEF Fns
  <1>9. Prefilter(x, r) = Hook([y EXCEPT !.req[r] = e], "prefilter")
    BY <1>2, <1>4, <1>5 DEF Prefilter
  <1> QED  BY <1>7, <1>8, <1>9, HookSound

LEMMA BeginSound ==
  ASSUME NEW K, NEW R, NEW x, Sound(K, R, x), NEW r, TopLoop(x.js) = {}
  PROVE  Sound(K, R, Begin(x, r))
  <1>1. PICK y : y = [x EXCEPT !.req[r].fireGlobals = TRUE, !.page.active = @ + 1]
    OBVIOUS
  <1>2. PICK e : e = [x.req[r] EXCEPT !.fireGlobals = TRUE]
    OBVIOUS
  <1>3. PICK p : p = [x.page EXCEPT !.active = @ + 1]
    OBVIOUS
  <1>4. DOMAIN y = {"js", "req", "page"} /\ y.js = x.js /\ y.req = [x.req EXCEPT ![r] = e] /\ y.page = p
    BY <1>1, <1>2, <1>3 DEF Sound
  <1>5. Paged(p)
    BY <1>3 DEF Sound, Paged, PageFields
  <1>6. r \in R => DOMAIN e = RequestFields /\ StartedWith(e, r \in K)
    BY <1>2 DEF Sound, Requested, StartedWith, RequestFields, NewRequest
  <1>7. Sound(K, R, y)
    BY <1>4, <1>5, <1>6, BothSound
  <1>8. Sound(K, R, trigger(y, "ajaxStart"))
    <2>1. "ajaxStart" \in Fns
      BY DEF Fns
    <2> QED  BY <1>7, <2>1, triggerSound
  <1>9. Begin(x, r) \in {Skip(x), x, y, trigger(y, "ajaxStart")}
    BY <1>1 DEF Begin
  <1> QED  BY <1>7, <1>8, <1>9, SkipSound

LEMMA CheckSound ==
  ASSUME NEW K, NEW R, NEW x, Sound(K, R, x), NEW r \in K, TopLoop(x.js) = {}
  PROVE  Sound(K, R, Check(x, r))
  <1>1. Sound(K, R, abort(Skip(x), r))
    BY SkipSound, AbortedSound
  <1> QED  BY <1>1 DEF Check

LEMMA InstallSound ==
  ASSUME NEW K, NEW R, NEW x, Sound(K, R, x), NEW r \in K, TopLoop(x.js) = {}
  PROVE  Sound(K, R, Install(x, r))
  <1>1. PICK t : t = TransportOf(x.req[r].types, Opt(r).crossDomain, Opt(r).cors)
    OBVIOUS
  <1>2. PICK y : y = IF t = "none" THEN Nothing(Skip(x), r, -1) ELSE x
    OBVIOUS
  <1>3. Sound(K, R, y)
    <2>1. Sound(K, R, Nothing(Skip(x), r, -1))
      BY SkipSound, doneSound DEF Nothing
    <2> QED  BY <1>2, <2>1
  <1>4. PICK e : e = [y.req[r] EXCEPT !.transport = t]
    OBVIOUS
  <1>5. r \in R => DOMAIN e = RequestFields /\ StartedWith(e, r \in K)
    BY <1>3, <1>4 DEF Sound, Requested, StartedWith, RequestFields, NewRequest
  <1>6. Sound(K, R, [y EXCEPT !.req[r] = e])
    BY <1>3, <1>5, RequestSound
  <1> DEFINE f == [i \in 1..3 |-> [call |-> "own", r |-> r, name |-> <<"done", "fail", "complete">>[i]]]
  <1>7. \A i \in 1..3: f[i] \in Tasks(K) /\ f[i].call \notin Stops
    <2>1. TAKE i \in 1..3
    <2>2. PICK name \in {"done", "fail", "complete"}: name = <<"done", "fail", "complete">>[i]
      OBVIOUS
    <2>3. /\ [call |-> "own", r |-> r, name |-> name] \in Tasks(K)
          /\ [call |-> "own", r |-> r, name |-> name].call \notin Stops
      BY DEF Tasks, Stops
    <2> QED  BY <2>2, <2>3
  <1>8. f \in Jobs(K)
    <2>1. f = [i \in 1..3 |-> f[i]]
      OBVIOUS
    <2> HIDE DEF f
    <2> QED  BY <1>7, <2>1, JobsTyped
  <1>9. Install(x, r) = Calling([y EXCEPT !.req[r] = e], f)
    BY <1>1, <1>2, <1>4 DEF Install
  <1> HIDE DEF f
  <1>10. Sound(K, R, Calling([y EXCEPT !.req[r] = e], f))
    BY <1>6, <1>8, CallingSound
  <1> QED  BY <1>9, <1>10

LEMMA CleanupSound ==
  ASSUME NEW K, NEW R, NEW x, Sound(K, R, x), NEW r
  PROVE  Sound(K, R, Cleanup(x, r))
  <1>1. PICK q : q = x.req[r]
    OBVIOUS
  <1>2. PICK y : y = [x EXCEPT !.page.win[q.name] = q.overwritten, !.req[r].answer = 0, !.req[r].overwritten = 0,
                               !.page.free = IF Opt(r).name = "fixed" THEN @ ELSE Append(@, q.name)]
    OBVIOUS
  <1>3. PICK e : e = [x.req[r] EXCEPT !.answer = 0, !.overwritten = 0]
    OBVIOUS
  <1>4. PICK p : p = [x.page EXCEPT !.win = [@ EXCEPT ![q.name] = q.overwritten],
                                    !.free = IF Opt(r).name = "fixed" THEN @ ELSE Append(@, q.name)]
    OBVIOUS
  <1>5. Paged(p)
    BY <1>4 DEF Sound, Paged, PageFields
  <1>6. DOMAIN y = {"js", "req", "page"} /\ y.js = x.js /\ y.req = [x.req EXCEPT ![r] = e] /\ Paged(y.page)
    <2>1. DOMAIN x = {"js", "req", "page"} /\ DOMAIN x.req = R /\ DOMAIN x.page = PageFields
      BY DEF Sound, Requested, Paged
    <2>2. DOMAIN y = {"js", "req", "page"} /\ y.js = x.js
      BY <1>2, <2>1
    <2>3. y.req = [x.req EXCEPT ![r] = e]
      BY <1>2, <1>3, <2>1 DEF Sound, Requested, RequestFields, NewRequest
    <2>4. y.page = p
      BY <1>2, <1>4, <2>1 DEF PageFields
    <2> QED  BY <1>5, <2>2, <2>3, <2>4
  <1>7. r \in R => DOMAIN e = RequestFields /\ StartedWith(e, r \in K)
    BY <1>3 DEF Sound, Requested, StartedWith, RequestFields, NewRequest
  <1>8. Sound(K, R, y)
    BY <1>6, <1>7, BothSound
  <1>9. PICK o : o = q.overwritten
    OBVIOUS
  <1>10. PICK g : g = [y.req[o] EXCEPT !.answer = q.answer]
    OBVIOUS
  <1>11. o \in R => DOMAIN g = RequestFields /\ StartedWith(g, o \in K)
    BY <1>8, <1>10 DEF Sound, Requested, StartedWith, RequestFields, NewRequest
  <1>12. Sound(K, R, [y EXCEPT !.req[o] = g])
    BY <1>8, <1>11, RequestSound
  <1>13. Cleanup(x, r) \in {y, [y EXCEPT !.req[o] = g]}
    BY <1>1, <1>2, <1>9, <1>10 DEF Cleanup
  <1> QED  BY <1>8, <1>12, <1>13

LEMMA FinishSound ==
  ASSUME NEW K, NEW R, NEW x, Sound(K, R, x), NEW r
  PROVE  Sound(K, R, Finish(x, r))
  <1>1. PICK p : p = [x.page EXCEPT !.active = @ - 1]
    OBVIOUS
  <1>2. Paged(p)
    BY <1>1 DEF Sound, Paged, PageFields
  <1>3. PICK y : y = [x EXCEPT !.page = p]
    OBVIOUS
  <1>4. Sound(K, R, y)
    BY <1>2, <1>3, PageSound
  <1>5. Sound(K, R, trigger(y, "ajaxStop"))
    <2>1. "ajaxStop" \in Fns
      BY DEF Fns
    <2> QED  BY <1>4, <2>1, triggerSound
  <1>6. Finish(x, r) \in {x, y, trigger(y, "ajaxStop")}
    BY <1>1, <1>3 DEF Finish
  <1> QED  BY <1>4, <1>5, <1>6

LEMMA SendSound ==
  ASSUME NEW K, NEW R, NEW x, Sound(K, R, x), NEW r \in K, NEW throws \in BOOLEAN
  PROVE  Sound(K, R, Send(x, r, throws))
  <1>1. PICK q : q = x.req[r]
    OBVIOUS
  <1>2. PICK e : e = [q EXCEPT !.state = 1, !.timer = Opt(r).timeout /\ Opt(r).net # "sync", !.twice = q.state = 2]
    OBVIOUS
  <1>3. r \in R => DOMAIN e = RequestFields /\ StartedWith(e, r \in K)
    BY <1>1, <1>2 DEF Sound, Requested, StartedWith, RequestFields, NewRequest
  <1>4. PICK y : y = [x EXCEPT !.req[r].state = 1, !.req[r].timer = Opt(r).timeout /\ Opt(r).net # "sync",
                               !.req[r].twice = q.state = 2]
    OBVIOUS
  <1>5. DOMAIN y = {"js", "req", "page"} /\ y.js = x.js /\ y.req = [x.req EXCEPT ![r] = e] /\ Paged(y.page)
    <2>1. DOMAIN x = {"js", "req", "page"} /\ DOMAIN x.req = R /\ Paged(x.page)
      BY DEF Sound, Requested
    <2>2. DOMAIN y = {"js", "req", "page"} /\ y.js = x.js /\ y.page = x.page
      BY <1>4, <2>1
    <2>3. y.req = [x.req EXCEPT ![r] = e]
      BY <1>1, <1>2, <1>4, <2>1 DEF Sound, Requested, RequestFields, NewRequest
    <2> QED  BY <2>1, <2>2, <2>3
  <1>6. Sound(K, R, y)
    BY <1>3, <1>5, BothSound
  <1>7. Sound(K, R, Nothing(y, r, -1))
    BY <1>6, doneSound DEF Nothing
  <1>8. PICK n : n = CASE q.transport = "script" -> "open" [] OTHER -> Opt(r).net
    OBVIOUS
  <1>9. PICK g : g = [y.req[r] EXCEPT !.net = n]
    OBVIOUS
  <1>10. r \in R => DOMAIN g = RequestFields /\ StartedWith(g, r \in K)
    BY <1>6, <1>9 DEF Sound, Requested, StartedWith, RequestFields, NewRequest
  <1>11. Sound(K, R, [y EXCEPT !.req[r] = g])
    BY <1>6, <1>10, RequestSound
  <1>12. Send(x, r, throws) = IF q.transport = "none" \/ throws THEN Nothing(y, r, -1) ELSE [y EXCEPT !.req[r] = g]
    BY <1>1, <1>4, <1>8, <1>9 DEF Send
  <1> QED  BY <1>7, <1>11, <1>12

LEMMA TaskKinds ==
  ASSUME NEW K, NEW c \in Tasks(K)
  PROVE  /\ c.call \in {"add", "fireWith", "chain", "prefilter", "begin", "beforeSend", "check", "install", "ajaxSend",
                        "send", "statusCode", "cleanup", "finish", "own", "global"}
         /\ c.call \notin {"add", "fireWith", "chain"} => c.r \in K
         /\ c.call = "own" => c.name \in {"done", "fail", "complete"}
         /\ c.call = "global" => c.event \in Fns
  BY DEF Tasks

LEMMA Does1Sound ==
  ASSUME NEW K, NEW R, NEW x, Sound(K, R, x), NEW c \in Tasks(K), c.call \notin {"send", "add", "fireWith", "chain"},
         c.call \in Stops => TopLoop(x.js) = {}
  PROVE  Sound(K, R, Does1(x, c))
  <1>1. c.call \notin {"add", "fireWith", "chain"} => c.r \in K
    BY TaskKinds
  <1>2. CASE c.call = "prefilter"
    BY <1>1, <1>2, PrefilterSound DEF Does1
  <1>3. CASE c.call = "begin"
    BY <1>3, BeginSound DEF Does1, Stops
  <1>4. CASE c.call = "beforeSend"
    <2>1. "beforeSend" \in Fns
      BY DEF Fns
    <2> QED  BY <1>4, <2>1, HookSound DEF Does1
  <1>5. CASE c.call = "check"
    BY <1>1, <1>5, CheckSound DEF Does1, Stops
  <1>6. CASE c.call = "install"
    BY <1>1, <1>6, InstallSound DEF Does1, Stops
  <1>7. CASE c.call = "own"
    <2>1. PICK name \in {"done", "fail", "complete"}: name = c.name
      BY <1>7, TaskKinds
    <2>2. PICK l \in ListsOf(K): l = <<c.r, name>>
      <3>1. c.r \in K /\ K \subseteq Promises
        BY <1>1, <1>7 DEF Sound, Calm, Firm, Typed
      <3> QED  BY <3>1 DEF ListsOf
    <2>3. PICK f \in Late(K): f = Calls(name)
      <3>1. name \in Fns
        BY DEF Fns
      <3> QED  BY <3>1, ActsTyped
    <2>4. PICK j : j = Add(x.js, l, f)
      OBVIOUS
    <2>5. Calm(K, j)
      BY <2>4, AddCalm DEF Sound
    <2>6. Sound(K, R, [x EXCEPT !.js = j])
      BY <2>5, ScriptsSound
    <2>7. Does1(x, c) = IF name \in scenario.hooks THEN [x EXCEPT !.js = j] ELSE x
      BY <1>7, <2>1, <2>2, <2>3, <2>4 DEF Does1
    <2> QED  BY <2>6, <2>7
  <1>8. CASE c.call = "ajaxSend"
    <2>1. "ajaxSend" \in Fns
      BY DEF Fns
    <2> QED  BY <1>8, <2>1, triggerSound DEF Does1
  <1>9. CASE c.call = "statusCode"
    <2>1. PICK f \in Late(K): f = Calls("statusCode")
      <3>1. "statusCode" \in Fns
        BY DEF Fns
      <3> QED  BY <3>1, ActsTyped
    <2>2. always(c.r, f) \in Jobs(K)
      BY <1>1, <1>9, AlwaysTyped
    <2>3. Sound(K, R, Calling(x, always(c.r, f)))
      BY <2>2, CallingSound
    <2>4. Does1(x, c) = IF "statusCode" \in scenario.hooks /\ ~x.req[c.r].twice THEN Calling(x, always(c.r, f)) ELSE x
      BY <1>9, <2>1 DEF Does1
    <2> QED  BY <2>3, <2>4
  <1>10. CASE c.call = "global"
    <2>1. c.event \in Fns
      BY <1>10, TaskKinds
    <2> QED  BY <1>10, <2>1, triggerSound DEF Does1
  <1>11. CASE c.call = "cleanup"
    BY <1>11, CleanupSound DEF Does1
  <1>12. CASE c.call = "finish"
    BY <1>12, FinishSound DEF Does1
  <1> QED  BY <1>2, <1>3, <1>4, <1>5, <1>6, <1>7, <1>8, <1>9, <1>10, <1>11, <1>12, TaskKinds

-----------------------------------------------------------------------------
\* The steps of the page.

LEMMA NowSound ==
  ASSUME Inv
  PROVE  /\ scenario \in Scenarios /\ scenario.made \subseteq Made(js) /\ Made(js) \subseteq Promises
         /\ Loose(Made(js), js) /\ Firm(Made(js), js)
         /\ Requested(Made(js), Requests, req) /\ Paged(page) /\ page.budget \in Int
         /\ \A d \in Promises: d \in Made(js) <=> js.states[d] # "none"
         /\ \A r \in Requests: /\ r \in Promises /\ (r \in Made(js) <=> req[r].started)
                               /\ req[r].net # "none" \/ req[r].timer => r \in Made(js)
         /\ scenario.spare \subseteq Promises /\ scenario.spare \cap Requests = {}
  <1>1. scenario \in Scenarios /\ scenario.made \subseteq Made(js) /\ Loose(Made(js), js)
    BY DEF Inv
  <1>2. Firm(Made(js), js) /\ Requested(Made(js), Requests, req) /\ Paged(page)
    BY DEF Inv, Loose
  <1> QED  BY <1>1, <1>2, ScenariosAssumption DEF Made, Requested, StartedWith, Paged, Requests

\* Nothing is in the window while the innermost function is one of the page, none or
\* one that waits for an answer.
LEMMA NowCalm ==
  ASSUME Inv, Sync # {} \/ TopLoop(js) = {}
  PROVE  Calm(Made(js), js) /\ Sound(Made(js), Requests, Now)
  <1>1. Calm(Made(js), js)
    <2>1. CASE TopLoop(js) = {}
      BY <2>1, NowSound, PopCalm
    <2>2. CASE Sync # {}
      BY <2>2 DEF Inv
    <2> QED  BY <2>1, <2>2
  <1>2. Requested(Made(js), Requests, req) /\ Paged(page)
    BY NowSound
  <1>3. Now.js = js /\ Now.req = req /\ Now.page = page /\ DOMAIN Now = {"js", "req", "page"}
    BY DEF Now
  <1> QED  BY <1>1, <1>2, <1>3 DEF Sound

LEMMA UserCalm ==
  ASSUME Inv, User
  PROVE  Calm(Made(js), js) /\ Sound(Made(js), Requests, Now)
  <1>1. TopLoop(js) = {}
    BY DEF User, Idle, PageRuns, TopLoop
  <1> QED  BY <1>1, NowCalm

LEMMA BecomeKeeps ==
  ASSUME Inv, NEW L, NEW x, Sound(L, Requests, x), scenario.made \subseteq L, Become(x)
  PROVE  Inv'
  <1>1. js' = x.js /\ req' = x.req /\ page' = x.page /\ scenario' = scenario
    BY DEF Become
  <1>2. Calm(L, x.js) /\ L = Made(x.js) /\ Requested(L, Requests, x.req) /\ Paged(x.page)
    BY DEF Sound, Calm, Firm, Typed
  <1>3. Loose(L, x.js)
    BY <1>2, CalmLoose
  <1>4. Made(js)' = L /\ Requests' = Requests
    BY <1>1, <1>2 DEF Requests, Made
  <1>5. Calm(Made(js), js)' /\ Loose(Made(js), js)'
    BY <1>1, <1>2, <1>3
  <1>6. Requested(Made(js), Requests, req)' /\ Paged(page)'
    BY <1>1, <1>2, <1>4
  <1>7. (scenario \in Scenarios /\ scenario.made \subseteq Made(js))'
    BY <1>1, <1>4 DEF Inv
  <1> QED  BY <1>5, <1>6, <1>7 DEF Inv

LEMMA SpendKeeps ==
  ASSUME Inv, NEW L, NEW x, Sound(L, Requests, x), scenario.made \subseteq L, Spend(x)
  PROVE  Inv'
  <1>1. PICK p : p = [x.page EXCEPT !.budget = @ - 1]
    OBVIOUS
  <1>2. Paged(p)
    BY <1>1 DEF Sound, Paged, PageFields
  <1>3. PICK y : y = [x EXCEPT !.page = p]
    OBVIOUS
  <1>4. Sound(L, Requests, y)
    BY <1>2, <1>3, PageSound
  <1>5. Become(y)
    BY <1>1, <1>3 DEF Spend
  <1> QED  BY <1>4, <1>5, BecomeKeeps

\* The scripts are changed, and only they.
LEMMA ScriptsKeep ==
  ASSUME Inv, NEW j, Calm(Made(js), j)
  PROVE  LET x == [Now EXCEPT !.js = j]
         IN  /\ Sound(Made(js), Requests, x) /\ x.req = req /\ x.page = page
             /\ Become(x) => Inv'
             /\ Spend(x) => Inv'
  <1>1. PICK x : x = [Now EXCEPT !.js = j]
    OBVIOUS
  <1>2. x.req = req /\ x.page = page /\ x.js = j /\ DOMAIN x = {"js", "req", "page"}
    BY <1>1 DEF Now
  <1>3. Sound(Made(js), Requests, x) /\ scenario.made \subseteq Made(js)
    BY <1>2, NowSound DEF Sound
  <1> QED  BY <1>1, <1>2, <1>3, BecomeKeeps, SpendKeeps

\* ... and a loop begins or goes on, when no synchronous answer is waited for.
LEMMA LooseKeep ==
  ASSUME Inv, Sync = {}, NEW j, Loose(Made(js), j),
         Become([Now EXCEPT !.js = j]) \/ Spend([Now EXCEPT !.js = j])
  PROVE  Inv'
  <1>1. PICK x : x = [Now EXCEPT !.js = j]
    OBVIOUS
  <1>2. x.js = j /\ x.req = req /\ x.page = page /\ DOMAIN x = {"js", "req", "page"}
    BY <1>1 DEF Now
  <1>3. js' = j /\ req' = req /\ scenario' = scenario /\ Paged(page')
    <2>1. CASE Become(x)
      BY <1>2, <2>1, NowSound DEF Become
    <2>2. CASE Spend(x)
      <3>1. PICK p : p = [page EXCEPT !.budget = @ - 1]
        OBVIOUS
      <3>2. Paged(p)
        BY <3>1, NowSound DEF Paged, PageFields
      <3>3. PICK y : y = [x EXCEPT !.page.budget = @ - 1] /\ Become(y)
        BY <2>2 DEF Spend
      <3>4. y.js = j /\ y.req = req /\ y.page = p
        BY <1>2, <3>1, <3>3
      <3> QED  BY <3>2, <3>3, <3>4 DEF Become
    <2> QED  BY <1>1, <2>1, <2>2
  <1>4. Made(j) = Made(js)
    BY DEF Loose, Firm, Typed
  <1>5. Made(js)' = Made(js) /\ Requests' = Requests
    BY <1>3, <1>4 DEF Made, Requests
  <1>6. Sync' = {}
    BY <1>3, <1>5 DEF Sync
  <1>7. Loose(Made(js), js)'
    BY <1>3, <1>4
  <1>8. Requested(Made(js), Requests, req)'
    BY <1>3, <1>5, NowSound
  <1>9. (scenario \in Scenarios /\ scenario.made \subseteq Made(js))'
    BY <1>3, <1>5 DEF Inv
  <1> QED  BY <1>3, <1>6, <1>7, <1>8, <1>9 DEF Inv

\* A deferred that is not a request is made.
LEMMA GrownKeep ==
  ASSUME Inv, NEW d, d \notin Requests, NEW j, Calm(Made(js) \cup {d}, j), Spend([Now EXCEPT !.js = j])
  PROVE  Inv'
  <1>1. PICK L : L = Made(js) \cup {d}
    OBVIOUS
  <1>2. PICK x : x = [Now EXCEPT !.js = j]
    OBVIOUS
  <1>3. DOMAIN x = {"js", "req", "page"} /\ x.js = j /\ x.req = req /\ x.page = page
    BY <1>2 DEF Now
  <1>4. Requested(Made(js), Requests, req) /\ Paged(page)
    BY NowSound
  <1>5. \A r \in Requests: (r \in L) = (r \in Made(js))
    BY <1>1
  <1>6. Requested(L, Requests, req)
    BY <1>4, <1>5 DEF Requested, StartedWith
  <1>7. Sound(L, Requests, x)
    BY <1>1, <1>3, <1>4, <1>6 DEF Sound
  <1>8. scenario.made \subseteq L
    BY <1>1, NowSound
  <1> QED  BY <1>2, <1>7, <1>8, SpendKeeps

LEMMA SmallestSpare ==
  ASSUME NEW S, S # {}, S \subseteq Promises
  PROVE  (CHOOSE d \in S: \A e \in S: d <= e) \in S
  <1>1. Promises \subseteq Nat
    <2>1. Cardinality(Promises) \in Nat
      BY PromisesAssumption, FS_CardinalityType
    <2>2. \A d \in 1..Cardinality(Promises): d \in Nat
      BY <2>1
    <2> QED  BY Zenon, <2>2, PromisesAssumption
  <1>2. S \in SUBSET Nat
    BY <1>1
  <1>3. PICK d \in S: \A e \in S: ~(<<e, d>> \in OpToRel(<, Nat))
    BY <1>2, NatLessThanWellFounded, WFMin
  <1>4. \A e \in S: d <= e
    <2>1. TAKE e \in S
    <2>2. d \in Nat /\ e \in Nat
      BY <1>2
    <2>3. ~(e < d)
      BY <1>3, <2>2 DEF OpToRel
    <2> QED  BY <2>2, <2>3
  <1> QED  BY <1>4

LEMMA UserAjaxKeeps ==
  ASSUME Inv, UserAjax
  PROVE  Inv'
  <1>1. PICK r \in Requests: ~req[r].started /\ Spend(ajax(Now, r))
    BY DEF UserAjax
  <1>2. r \in Promises /\ r \notin Made(js)
    BY <1>1, NowSound
  <1>3. PICK x : x = ajax(Now, r)
    OBVIOUS
  <1>4. Sound(Made(js) \cup {r}, Requests, x)
    BY <1>2, <1>3, UserCalm, ajaxSound DEF UserAjax, On
  <1>5. scenario.made \subseteq Made(js) \cup {r}
    BY NowSound
  <1> QED  BY <1>1, <1>3, <1>4, <1>5, SpendKeeps

LEMMA UserAbortsKeeps ==
  ASSUME Inv, UserAborts
  PROVE  Inv'
  <1>1. PICK r \in Requests: req[r].started /\ Spend(abort(Now, r))
    BY DEF UserAborts
  <1>2. r \in Made(js)
    BY <1>1, NowSound
  <1>3. PICK x : x = abort(Now, r)
    OBVIOUS
  <1>4. Sound(Made(js), Requests, x)
    BY <1>2, <1>3, UserCalm, AbortedSound DEF UserAborts, On
  <1> QED  BY <1>1, <1>3, <1>4, NowSound, SpendKeeps

LEMMA UserAddsKeeps ==
  ASSUME Inv, UserAdds
  PROVE  Inv'
  <1>1. PICK d \in Promises, name \in {"done", "fail"}:
            js.states[d] # "none" /\ Spend([Now EXCEPT !.js = Add(@, <<d, name>>, Calls(name))])
    BY DEF UserAdds
  <1>2. PICK l \in ListsOf(Made(js)): l = <<d, name>>
    BY <1>1, NowSound DEF ListsOf
  <1>3. PICK f \in Late(Made(js)): f = Calls(name)
    <2>1. name \in Fns
      BY DEF Fns
    <2> QED  BY <2>1, ActsTyped
  <1>4. PICK j : j = Add(js, l, f)
    OBVIOUS
  <1>5. Calm(Made(js), j)
    BY <1>4, UserCalm, AddCalm DEF UserAdds, On
  <1>6. Spend([Now EXCEPT !.js = j])
    BY <1>1, <1>2, <1>3, <1>4 DEF Now
  <1> QED  BY <1>5, <1>6, ScriptsKeep

LEMMA UserSettlesKeeps ==
  ASSUME Inv, Sync = {}, UserSettles
  PROVE  Inv'
  <1>1. PICK d \in scenario.made, name \in {"done", "fail", "progress"}:
            Spend([Now EXCEPT !.js = FireWith(@, <<d, name>>, page.budget)])
    BY DEF UserSettles
  <1>2. PICK l \in ListsOf(Made(js)): l = <<d, name>>
    BY NowSound DEF ListsOf
  <1>3. PICK n \in Nat: n = page.budget
    BY NowSound DEF UserSettles, On, User
  <1>4. PICK j : j = FireWith(js, l, n)
    OBVIOUS
  <1>5. Loose(Made(js), j)
    BY <1>4, UserCalm, FireWithLoose DEF UserSettles, On
  <1>6. Spend([Now EXCEPT !.js = j])
    BY <1>1, <1>2, <1>3, <1>4 DEF Now
  <1> QED  BY <1>5, <1>6, LooseKeep

LEMMA UserThensKeeps ==
  ASSUME Inv, UserThens
  PROVE  Inv'
  <1>1. PICK new : new = CHOOSE d \in Spare: \A e \in Spare: d <= e
    OBVIOUS
  <1>a. PICK d \in Promises:
            js.states[d] # "none" /\ \E returns \in {0, -1} \cup (scenario.made \ {d}):
                                         Spend([Now EXCEPT !.js = then(@, d, new, returns)])
    BY <1>1 DEF UserThens
  <1>2. PICK returns \in {0, -1} \cup (scenario.made \ {d}):
            js.states[d] # "none" /\ Spend([Now EXCEPT !.js = then(@, d, new, returns)])
    BY <1>a
  <1>3. new \in Promises /\ new \notin Made(js) /\ new \notin Requests
    <2>1. Spare \subseteq Promises /\ Spare # {}
      BY NowSound DEF Spare, UserThens
    <2>2. new \in Spare
      BY <1>1, <2>1, SmallestSpare
    <2> QED  BY <2>1, <2>2, NowSound DEF Spare
  <1>4. d \in Made(js) /\ returns \in {0, -1} \cup Made(js)
    BY <1>2, NowSound
  <1>5. PICK j : j = then(js, d, new, returns)
    OBVIOUS
  <1>6. Calm(Made(js) \cup {new}, j)
    BY <1>3, <1>4, <1>5, UserCalm, thenCalm DEF UserThens, On
  <1>7. Spend([Now EXCEPT !.js = j])
    BY <1>2, <1>5 DEF Now
  <1> QED  BY <1>3, <1>6, <1>7, GrownKeep

LEMMA UserWhensKeeps ==
  ASSUME Inv, UserWhens
  PROVE  Inv'
  <1>1. PICK new : new = CHOOSE d \in Spare: \A e \in Spare: d <= e
    OBVIOUS
  <1>2. Spend([Now EXCEPT !.js = when(@, new, SetToSeq(scenario.made))])
    BY <1>1 DEF UserWhens
  <1>3. new \in Promises /\ new \notin Made(js) /\ new \notin Requests
    <2>1. Spare \subseteq Promises /\ Spare # {}
      BY NowSound DEF Spare, UserWhens
    <2>2. new \in Spare
      BY <1>1, <2>1, SmallestSpare
    <2> QED  BY <2>1, <2>2, NowSound DEF Spare
  <1>4. PICK subs \in Seq(Made(js)): subs = SetToSeq(scenario.made)
    <2>1. IsFiniteSet(scenario.made)
      <3>1. scenario.made \in SUBSET Promises /\ IsFiniteSet(Promises)
        BY NowSound, PromisesAssumption
      <3> QED  BY <3>1, FS_Subset
    <2>2. SetToSeq(scenario.made) \in Seq(scenario.made)
      BY <2>1, SetToSeqTyped
    <2>3. SetToSeq(scenario.made) \in Seq(Made(js))
      BY <2>2, NowSound, SeqMonotonic
    <2> QED  BY <2>3
  <1>5. PICK j : j = when(js, new, subs)
    OBVIOUS
  <1>6. Calm(Made(js) \cup {new}, j)
    BY <1>3, <1>5, UserCalm, whenCalm DEF UserWhens, On
  <1>7. Spend([Now EXCEPT !.js = j])
    BY <1>2, <1>4, <1>5 DEF Now
  <1> QED  BY <1>3, <1>6, <1>7, GrownKeep

LEMMA UserListsKeeps ==
  ASSUME Inv, Sync = {}, UserLists
  PROVE  Inv'
  <1>1. PICK l \in Where: l = <<1, "complete">> /\ l \in ListsOf(Made(js))
    <2>1. Cardinality(Promises) \in Nat /\ Promises # {} /\ Promises = 1..Cardinality(Promises)
      BY PromisesAssumption, FS_CardinalityType
    <2>2. 1 \in Promises
      <3>1. PICK n \in Nat: n = Cardinality(Promises)
        BY <2>1
      <3>2. Promises = 1..n
        BY <2>1, <3>1
      <3> QED  BY <2>1, <3>2
    <2>3. PICK l : l = <<1, "complete">>
      OBVIOUS
    <2>4. l \in Where
      BY <2>2, <2>3 DEF Where
    <2>5. l \in ListsOf(Made(js))
      BY <2>2, <2>3 DEF ListsOf
    <2> QED  BY <2>3, <2>4, <2>5
  <1>c. Calm(Made(js), js)
    BY UserCalm DEF UserLists, On
  <1>p. Plain(Made(js), l)
    BY <1>1 DEF Plain, Named
  <1>2. ASSUME NEW fn \in {"f", "g"}, Spend([Now EXCEPT !.js = Add(@, l, Calls(fn))])  PROVE Inv'
    <2>1. PICK f \in Late(Made(js)): f = Calls(fn)
      <3>1. fn \in Fns
        BY DEF Fns
      <3> QED  BY <3>1, ActsTyped
    <2>2. PICK j : j = Add(js, l, f)
      OBVIOUS
    <2>3. Calm(Made(js), j)
      BY <1>1, <1>c, <2>2, AddCalm
    <2>4. Spend([Now EXCEPT !.js = j])
      BY <1>2, <2>1, <2>2 DEF Now
    <2> QED  BY <2>3, <2>4, ScriptsKeep
  <1>3. ASSUME Spend([Now EXCEPT !.js = FireWith(@, l, page.budget)])  PROVE Inv'
    <2>1. PICK n \in Nat: n = page.budget
      BY NowSound DEF UserLists, On, User
    <2>2. PICK j : j = FireWith(js, l, n)
      OBVIOUS
    <2>3. Loose(Made(js), j)
      BY <1>1, <1>c, <2>2, FireWithLoose
    <2>4. Spend([Now EXCEPT !.js = j])
      BY <1>3, <2>1, <2>2 DEF Now
    <2> QED  BY <2>3, <2>4, LooseKeep
  <1>4. ASSUME NEW c, Spend([Now EXCEPT !.js.lists[l] = c]), Calm(Made(js), [js EXCEPT !.lists[l] = c])  PROVE Inv'
    <2>1. PICK j : j = [js EXCEPT !.lists[l] = c]
      OBVIOUS
    <2>2. Spend([Now EXCEPT !.js = j])
      BY <1>4, <2>1 DEF Now
    <2> QED  BY <1>4, <2>1, <2>2, ScriptsKeep
  <1>5. /\ Calm(Made(js), [js EXCEPT !.lists[l] = disable(js.lists[l])])
        /\ Calm(Made(js), [js EXCEPT !.lists[l] = lock(js.lists[l])])
        /\ Calm(Made(js), [js EXCEPT !.lists[l] = empty(js.lists[l])])
        /\ \A fn: Calm(Made(js), [js EXCEPT !.lists[l] = remove(js.lists[l], fn)])
    BY <1>1, <1>c, <1>p, ChangedCalm
  <1>6. ASSUME NEW fn, Spend([Now EXCEPT !.js.lists[l] = remove(js.lists[l], fn)])  PROVE Inv'
    <2>1. PICK c : c = remove(js.lists[l], fn)
      OBVIOUS
    <2>2. Spend([Now EXCEPT !.js.lists[l] = c]) /\ Calm(Made(js), [js EXCEPT !.lists[l] = c])
      BY <1>5, <1>6, <2>1
    <2> QED  BY <1>4, <2>2
  <1>7. ASSUME Spend([Now EXCEPT !.js.lists[l] = empty(js.lists[l])])  PROVE Inv'
    <2>1. PICK c : c = empty(js.lists[l])
      OBVIOUS
    <2>2. Spend([Now EXCEPT !.js.lists[l] = c]) /\ Calm(Made(js), [js EXCEPT !.lists[l] = c])
      BY <1>5, <1>7, <2>1
    <2> QED  BY <1>4, <2>2
  <1>8. ASSUME Spend([Now EXCEPT !.js.lists[l] = disable(js.lists[l])])  PROVE Inv'
    <2>1. PICK c : c = disable(js.lists[l])
      OBVIOUS
    <2>2. Spend([Now EXCEPT !.js.lists[l] = c]) /\ Calm(Made(js), [js EXCEPT !.lists[l] = c])
      BY <1>5, <1>8, <2>1
    <2> QED  BY <1>4, <2>2
  <1>9. ASSUME Spend([Now EXCEPT !.js.lists[l] = lock(js.lists[l])])  PROVE Inv'
    <2>1. PICK c : c = lock(js.lists[l])
      OBVIOUS
    <2>2. Spend([Now EXCEPT !.js.lists[l] = c]) /\ Calm(Made(js), [js EXCEPT !.lists[l] = c])
      BY <1>5, <1>9, <2>1
    <2> QED  BY <1>4, <2>2
  <1> QED  BY <1>1, <1>2, <1>3, <1>6, <1>7, <1>8, <1>9 DEF UserLists

LEMMA PageReturnsKeeps ==
  ASSUME Inv, PageReturns
  PROVE  Inv'
  <1>1. js.stack # <<>> /\ Top(js).kind = "page"
    BY DEF PageReturns, PageRuns
  <1>2. ASSUME NEW false \in BOOLEAN  PROVE Calm(Made(js), Return(js, false))
    BY <1>1, NowSound, ReturnCalm
  <1>3. PICK j : j = Return(js, FALSE)
    OBVIOUS
  <1>4. PICK k : k = Return(js, TRUE)
    OBVIOUS
  <1>5. PICK x : x = [Now EXCEPT !.js = j]
    OBVIOUS
  <1>6. \/ Become(x)
        \/ \E r: Become([x EXCEPT !.req[r].refused = TRUE])
        \/ Become([Now EXCEPT !.js = k])
    BY <1>3, <1>4, <1>5 DEF PageReturns, Now
  <1>7. Sound(Made(js), Requests, x)
    BY <1>2, <1>3, <1>5, ScriptsKeep
  <1>8. CASE Become(x)
    BY <1>7, <1>8, NowSound, BecomeKeeps
  <1>9. CASE \E r: Become([x EXCEPT !.req[r].refused = TRUE])
    <2>1. PICK r : Become([x EXCEPT !.req[r].refused = TRUE])
      BY <1>9
    <2>2. PICK e : e = [x.req[r] EXCEPT !.refused = TRUE]
      OBVIOUS
    <2>3. r \in Requests => DOMAIN e = RequestFields /\ StartedWith(e, r \in Made(js))
      BY <1>7, <2>2 DEF Sound, Requested, StartedWith, RequestFields, NewRequest
    <2>4. PICK y : y = [x EXCEPT !.req[r] = e]
      OBVIOUS
    <2>5. Sound(Made(js), Requests, y)
      BY <1>7, <2>3, <2>4, RequestSound
    <2>6. Become(y)
      BY <2>1, <2>2, <2>4
    <2> QED  BY <2>5, <2>6, NowSound, BecomeKeeps
  <1>10. CASE Become([Now EXCEPT !.js = k])
    <2>1. Calm(Made(js), k)
      BY <1>2, <1>4
    <2> QED  BY <1>10, <2>1, ScriptsKeep
  <1> QED  BY <1>6, <1>8, <1>9, <1>10

LEMMA PageThrowsKeeps ==
  ASSUME Inv, PageThrows
  PROVE  Inv'
  <1>1. PICK j : j = Throw(js)
    OBVIOUS
  <1>a. TopLoop(js) = {}
    BY DEF PageThrows, PageRuns, TopLoop
  <1>2. Calm(Made(js), j)
    BY <1>1, <1>a, NowSound, ThrowCalm
  <1>3. PICK x : x = [Now EXCEPT !.js = j]
    OBVIOUS
  <1>4. Sound(Made(js), Requests, x) /\ x.page = page
    BY <1>2, <1>3, ScriptsKeep
  <1>5. PICK p : p = [page EXCEPT !.throws = @ - 1, !.broken = TRUE]
    OBVIOUS
  <1>6. Paged(p)
    BY <1>4, <1>5 DEF Sound, Paged, PageFields
  <1>7. PICK y : y = [x EXCEPT !.page = p]
    OBVIOUS
  <1>8. Sound(Made(js), Requests, y)
    BY <1>4, <1>6, <1>7, PageSound
  <1>9. Become(y)
    <2>1. PICK z : z = [Now EXCEPT !.js = Throw(@), !.page.throws = @ - 1, !.page.broken = TRUE]
      OBVIOUS
    <2>2. Become(z)
      BY <2>1 DEF PageThrows
    <2>3. z.js = j /\ z.req = req /\ z.page = p
      BY <1>1, <1>5, <2>1 DEF Now
    <2>4. y.js = j /\ y.req = req /\ y.page = p
      BY <1>3, <1>7 DEF Now
    <2> QED  BY <2>2, <2>3, <2>4 DEF Become
  <1> QED  BY <1>8, <1>9, NowSound, BecomeKeeps

LEMMA LoopTurnsKeeps ==
  ASSUME Inv, Sync = {}, LoopTurns
  PROVE  Inv'
  <1>1. PICK j : j = Turn(js)
    OBVIOUS
  <1>2. Loose(Made(js), j)
    BY <1>1, NowSound, TurnLoose DEF LoopTurns
  <1>3. Become([Now EXCEPT !.js = j])
    BY <1>1 DEF LoopTurns, Now
  <1> QED  BY <1>2, <1>3, LooseKeep

\* The first call of the innermost function of jQuery, and the others.
LEMMA RestedCalm ==
  ASSUME Inv, js.stack # <<>>, Top(js).kind = "rest"
  PROVE  /\ Calm(Made(js), Rested) /\ Next1 \in Tasks(Made(js))
         /\ Next1.call \in Stops => TopLoop(Rested) = {}
  <1>1. PICK calls \in Jobs(Made(js)): calls = Top(js).calls /\ calls # <<>>
    BY NowSound, PopKeeps
  <1>2. calls \in Seq(Tasks(Made(js))) /\ calls[Len(calls)].call \notin Stops
    BY <1>1 DEF Jobs
  <1>3. Next1 \in Tasks(Made(js)) /\ Next1 = calls[1]
    BY <1>1, <1>2 DEF Next1
  <1>4. PICK y : y = Pop(js)
    OBVIOUS
  <1>5. Calm(Made(js), y)
    <2>1. TopLoop(js) = {}
      BY DEF TopLoop
    <2> QED  BY <1>4, <2>1, NowSound, PopCalm
  <1>6. PICK n \in Nat: n = Len(calls) /\ n > 0
    BY <1>1, <1>2
  <1>7. PICK more : more = Tail(calls)
    OBVIOUS
  <1>8. Rested = IF n = 1 THEN y ELSE Rest(y, more)
    BY <1>1, <1>4, <1>6, <1>7 DEF Rested
  <1>9. CASE n = 1
    BY <1>2, <1>3, <1>5, <1>6, <1>8, <1>9
  <1>10. CASE n # 1
    <2>1. more \in Seq(Tasks(Made(js))) /\ Len(more) = n - 1 /\ more[n - 1] = calls[n] /\ more # <<>>
      <3>1. more \in Seq(Tasks(Made(js))) /\ Len(more) = n - 1 /\ \A i \in 1..(n - 1): more[i] = calls[i + 1]
        BY <1>1, <1>2, <1>6, <1>7, HeadTailProperties
      <3>2. n - 1 \in 1..(n - 1) /\ (n - 1) + 1 = n /\ n - 1 # 0
        BY <1>6, <1>10
      <3>3. more # <<>>
        BY <3>1, <3>2
      <3> QED  BY <3>1, <3>2, <3>3
    <2>2. more \in Jobs(Made(js))
      BY <1>2, <1>6, <2>1 DEF Jobs
    <2>3. Calm(Made(js), Rest(y, more))
      BY <1>5, <2>2, RestCalm
    <2>4. TopLoop(Rest(y, more)) = {}
      <3>1. PICK f : f = [kind |-> "rest", calls |-> more]
        OBVIOUS
      <3>2. Rest(y, more) = Push(y, f)
        BY <2>1, <3>1 DEF Rest
      <3>3. Typed(Made(js), y)
        BY <1>5 DEF Calm, Firm
      <3>4. f \in Frames(Made(js))
        BY <2>1, <2>2, <3>1 DEF Frames
      <3>5. y.stack \in Seq(Frames(Made(js))) /\ DOMAIN y = ScriptFields
        BY <3>3 DEF Typed
      <3>6. Push(y, f).stack = Append(y.stack, f)
        BY <3>5 DEF Push, ScriptFields
      <3>7. Top(Push(y, f)) = f
        <4>1. Append(y.stack, f) \in Seq(Frames(Made(js))) /\ Len(Append(y.stack, f)) = Len(y.stack) + 1
              /\ Append(y.stack, f)[Len(y.stack) + 1] = f
          BY <3>4, <3>5
        <4> QED  BY <3>6, <4>1 DEF Top, Last
      <3> QED  BY <3>1, <3>2, <3>7 DEF TopLoop
    <2> QED  BY <1>3, <1>8, <1>10, <2>3, <2>4
  <1> QED  BY <1>9, <1>10

LEMMA RestCallsKeeps ==
  ASSUME Inv, Sync = {}, RestCalls
  PROVE  Inv'
  <1>1. PICK j : j = Rested
    OBVIOUS
  <1>2. PICK c : c = Next1
    OBVIOUS
  <1>3. /\ Calm(Made(js), j) /\ c \in Tasks(Made(js)) /\ c.call # "send"
        /\ c.call \in Stops => TopLoop(j) = {}
    BY <1>1, <1>2, RestedCalm DEF RestCalls
  <1>4. PICK x : x = [Now EXCEPT !.js = j]
    OBVIOUS
  <1>5. Sound(Made(js), Requests, x) /\ x.js = j
    BY <1>3, <1>4, ScriptsKeep DEF Now
  <1>6. PICK y : y = Does1(x, c)
    OBVIOUS
  <1>7. Become(y)
    BY <1>1, <1>2, <1>4, <1>6 DEF RestCalls
  <1>8. CASE c.call \notin {"add", "fireWith", "chain"}
    <2>1. Sound(Made(js), Requests, y)
      BY <1>3, <1>5, <1>6, <1>8, Does1Sound
    <2> QED  BY <1>7, <2>1, NowSound, BecomeKeeps
  <1>9. CASE c.call \in {"add", "fireWith", "chain"}
    <2>1. PICK k : k = Call(j, c)
      OBVIOUS
    <2>2. Loose(Made(js), k)
      BY <1>3, <1>9, <2>1, CallLoose
    <2>3. y = [Now EXCEPT !.js = k]
      <3>1. y = [x EXCEPT !.js = k]
        BY <1>5, <1>6, <1>9, <2>1 DEF Does1
      <3> QED  BY <1>4, <3>1 DEF Now
    <2> QED  BY <1>7, <2>2, <2>3, LooseKeep
  <1> QED  BY <1>8, <1>9

LEMMA SendCallsKeeps ==
  ASSUME Inv, SendCalls
  PROVE  Inv'
  <1>1. PICK j : j = Rested
    OBVIOUS
  <1>2. PICK c : c = Next1
    OBVIOUS
  <1>3. Calm(Made(js), j) /\ c \in Tasks(Made(js)) /\ c.call = "send"
    BY <1>1, <1>2, RestedCalm DEF SendCalls
  <1>4. PICK x : x = [Now EXCEPT !.js = j]
    OBVIOUS
  <1>5. Sound(Made(js), Requests, x)
    BY <1>3, <1>4, ScriptsKeep
  <1>6. PICK throws \in BOOLEAN: Become(Send(x, c.r, throws))
    BY <1>1, <1>2, <1>4 DEF SendCalls
  <1>7. PICK y : y = Send(x, c.r, throws)
    OBVIOUS
  <1>8. Sound(Made(js), Requests, y)
    <2>1. c.r \in Made(js)
      BY <1>3, TaskKinds
    <2> QED  BY <1>5, <1>7, <2>1, SendSound
  <1> QED  BY <1>6, <1>7, <1>8, NowSound, BecomeKeeps

-----------------------------------------------------------------------------
\* The steps of the network, and all of them.

LEMMA QuietSound ==
  ASSUME Inv, NEW r \in Requests, r \in Made(js), Sync # {} \/ TopLoop(js) = {}
  PROVE  /\ Sound(Made(js), Requests, [Now EXCEPT !.req[r].net = "none"])
         /\ Sound(Made(js), Requests, [Now EXCEPT !.req[r].timer = FALSE])
         /\ Sound(Made(js), Requests, [Now EXCEPT !.req[r].silent = TRUE])
  <1>1. PICK e : e = [req[r] EXCEPT !.net = "none"]
    OBVIOUS
  <1>2. PICK f : f = [req[r] EXCEPT !.timer = FALSE]
    OBVIOUS
  <1>3. PICK g : g = [req[r] EXCEPT !.silent = TRUE]
    OBVIOUS
  <1>4. Sound(Made(js), Requests, Now) /\ Now.req = req
    BY NowCalm DEF Now
  <1>5. /\ DOMAIN e = RequestFields /\ StartedWith(e, r \in Made(js))
        /\ DOMAIN f = RequestFields /\ StartedWith(f, r \in Made(js))
        /\ DOMAIN g = RequestFields /\ StartedWith(g, r \in Made(js))
    BY <1>1, <1>2, <1>3, <1>4 DEF Sound, Requested, StartedWith, RequestFields, NewRequest
  <1>6. /\ Sound(Made(js), Requests, [Now EXCEPT !.req[r] = e])
        /\ Sound(Made(js), Requests, [Now EXCEPT !.req[r] = f])
        /\ Sound(Made(js), Requests, [Now EXCEPT !.req[r] = g])
    BY <1>4, <1>5, RequestSound
  <1>7. /\ [Now EXCEPT !.req[r].net = "none"] = [Now EXCEPT !.req[r] = e]
        /\ [Now EXCEPT !.req[r].timer = FALSE] = [Now EXCEPT !.req[r] = f]
        /\ [Now EXCEPT !.req[r].silent = TRUE] = [Now EXCEPT !.req[r] = g]
    BY <1>1, <1>2, <1>3 DEF Now
  <1> QED  BY <1>6, <1>7

LEMMA NetworkKeeps ==
  ASSUME Inv, Network
  PROVE  Inv'
  <1>0. Sync # {} \/ TopLoop(js) = {}
    BY DEF Network, XhrAnswers, ScriptLoads, LateScript, TimeoutFires, Idle, TopLoop
  <1>1. CASE XhrAnswers
    <2>1. PICK r \in Requests: /\ req[r].net \in {"open", "cached", "sync"}
                               /\ \E status \in scenario.statuses, ct \in scenario.types, good \in BOOLEAN:
                                      Become(done([Now EXCEPT !.req[r].net = "none"], r, status, <<"text">>, ct, good))
      BY <1>1 DEF XhrAnswers
    <2>2. r \in Made(js)
      BY <2>1, NowSound
    <2>3. PICK x : x = [Now EXCEPT !.req[r].net = "none"]
      OBVIOUS
    <2>4. PICK status, ct, good: Become(done(x, r, status, <<"text">>, ct, good))
      BY <2>1, <2>3
    <2>5. PICK y : y = done(x, r, status, <<"text">>, ct, good)
      OBVIOUS
    <2>6. Sound(Made(js), Requests, y)
      BY <1>0, <2>2, <2>3, <2>5, QuietSound, doneSound
    <2> QED  BY <2>4, <2>5, <2>6, NowSound, BecomeKeeps
  <1>2. CASE ScriptLoads
    <2>1. PICK r \in Requests:
              /\ req[r].net = "open"
              /\ \E calls \in BOOLEAN:
                    LET x == IF calls THEN Runs(Now, r) ELSE [Now EXCEPT !.req[r].silent = TRUE]
                    IN  Become(done([x EXCEPT !.req[r].net = "none"], r, 200, <<>>, "none", TRUE))
      BY <1>2 DEF ScriptLoads
    <2>2. r \in Made(js)
      BY <2>1, NowSound
    <2>3. PICK x : /\ x \in {Runs(Now, r), [Now EXCEPT !.req[r].silent = TRUE]}
                   /\ Become(done([x EXCEPT !.req[r].net = "none"], r, 200, <<>>, "none", TRUE))
      BY <2>1
    <2>4. Sound(Made(js), Requests, x)
      <3>1. CASE x = Runs(Now, r)
        <4>1. Sound(Made(js), Requests, Runs(Now, r))
          BY <1>0, NowCalm, RunsSound
        <4> QED  BY Zenon, <3>1, <4>1
      <3>2. CASE x = [Now EXCEPT !.req[r].silent = TRUE]
        <4>1. Sound(Made(js), Requests, [Now EXCEPT !.req[r].silent = TRUE])
          BY <1>0, <2>2, QuietSound
        <4> QED  BY Zenon, <3>2, <4>1
      <3> QED  BY <2>3, <3>1, <3>2
    <2>5. PICK e : e = [x.req[r] EXCEPT !.net = "none"]
      OBVIOUS
    <2>6. DOMAIN e = RequestFields /\ StartedWith(e, r \in Made(js))
      BY <2>4, <2>5 DEF Sound, Requested, StartedWith, RequestFields, NewRequest
    <2>7. PICK y : y = [x EXCEPT !.req[r] = e]
      OBVIOUS
    <2>8. Sound(Made(js), Requests, y)
      BY <2>4, <2>6, <2>7, RequestSound
    <2>9. PICK z : z = done(y, r, 200, <<>>, "none", TRUE)
      OBVIOUS
    <2>10. Sound(Made(js), Requests, z)
      BY <2>2, <2>8, <2>9, doneSound
    <2>11. Become(z)
      BY <2>3, <2>5, <2>7, <2>9
    <2> QED  BY <2>10, <2>11, NowSound, BecomeKeeps
  <1>3. CASE LateScript
    <2>1. PICK r \in Requests: req[r].net = "late" /\ Become(Runs([Now EXCEPT !.req[r].net = "none"], r))
      BY <1>3 DEF LateScript
    <2>2. r \in Made(js)
      BY <2>1, NowSound
    <2>3. PICK x : x = [Now EXCEPT !.req[r].net = "none"]
      OBVIOUS
    <2>4. PICK y : y = Runs(x, r)
      OBVIOUS
    <2>5. Sound(Made(js), Requests, y)
      BY <1>0, <2>2, <2>3, <2>4, QuietSound, RunsSound
    <2> QED  BY <2>1, <2>3, <2>4, <2>5, NowSound, BecomeKeeps
  <1>4. CASE TimeoutFires
    <2>1. PICK r \in Requests: req[r].timer /\ Become(abort([Now EXCEPT !.req[r].timer = FALSE], r))
      BY <1>4 DEF TimeoutFires
    <2>2. r \in Made(js)
      BY <2>1, NowSound
    <2>3. PICK x : x = [Now EXCEPT !.req[r].timer = FALSE]
      OBVIOUS
    <2>4. PICK y : y = abort(x, r)
      OBVIOUS
    <2>5. Sound(Made(js), Requests, y)
      BY <1>0, <2>2, <2>3, <2>4, QuietSound, AbortedSound
    <2> QED  BY <2>1, <2>3, <2>4, <2>5, NowSound, BecomeKeeps
  <1> QED  BY <1>1, <1>2, <1>3, <1>4 DEF Network

LEMMA InitSound ==
  ASSUME Init
  PROVE  Inv
  <1>1. /\ scenario \in Scenarios /\ Requests \subseteq Promises /\ scenario.made \subseteq Promises
        /\ Requests \cap scenario.made = {} /\ scenario.budget \in Nat /\ scenario.list \in SUBSET Flags
    BY ScenariosAssumption DEF Init, Requests
  <1>2. PICK K : K = scenario.made
    OBVIOUS
  <1>3. js.states = [d \in Promises |-> IF d \in K THEN "pending" ELSE "none"] /\ js.stack = <<>>
    BY <1>2 DEF Init
  <1>4. DOMAIN js = ScriptFields
    BY DEF Init, ScriptFields
  <1>5. Made(js) = K /\ js.states \in [Promises -> States]
    BY <1>1, <1>2, <1>3 DEF Made, States
  <1>6. PICK o \in SUBSET Flags: o = {"once", "memory"}
    BY DEF Flags
  <1>7. DOMAIN js.lists = Where /\ js.lists = [l \in Where |-> js.lists[l]]
    BY DEF Init, Where
  <1>a. ASSUME NEW l \in Where
        PROVE  js.lists[l] = IF l = <<1, "complete">> THEN NewCallbacks(scenario.list)
                             ELSE IF l[1] \in K /\ l[2] # "complete" THEN NewList(l[1], l[2]) ELSE NewCallbacks(o)
    BY <1>2, <1>6 DEF Init, Where
  <1>8. ASSUME NEW l \in Where  PROVE js.lists[l] \in Objects(K) /\ Ordered(js.lists[l])
    <2>1. l[2] \in {"done", "fail", "progress", "complete"}
      BY DEF Where
    <2>2. l[1] \in K /\ l[2] # "complete" => NewList(l[1], l[2]) \in Objects(K) /\ Ordered(NewList(l[1], l[2]))
      BY <2>1, NewListTyped
    <2>3. NewCallbacks(scenario.list) \in Objects(K) /\ Ordered(NewCallbacks(scenario.list))
      BY <1>1, NewTyped
    <2>4. NewCallbacks(o) \in Objects(K) /\ Ordered(NewCallbacks(o))
      BY NewTyped
    <2> QED  BY <1>a, <2>2, <2>3, <2>4
  <1>9. js.lists \in [Where -> Objects(K)]
    BY <1>7, <1>8
  <1>10. js.stack \in Seq(Frames(K)) /\ Loops(js) = {}
    BY <1>3 DEF Loops
  <1>11. Firm(K, js)
    BY <1>1, <1>2, <1>4, <1>5, <1>8, <1>9, <1>10 DEF Firm, Typed, Looping
  <1>12. Requested(K, Requests, req)
    <2>1. req = [r \in Requests |-> NewRequest]
      BY DEF Init
    <2>2. \A r \in Requests: StartedWith(NewRequest, r \in K)
      BY <1>1, <1>2 DEF StartedWith, NewRequest
    <2> QED  BY <2>1, <2>2 DEF Requested, RequestFields
  <1>13. Paged(page)
    BY <1>1 DEF Init, Paged, PageFields
  <1>14. ASSUME NEW d \in K, NEW name \in Named  PROVE Settling(K, js, {}, d, name)
    <2>1. Other(name) \in Named
      BY DEF Other, Named
    <2>2. ASSUME NEW n \in Named  PROVE js.lists[<<d, n>>] = NewList(d, n)
      <3>1. PICK l \in Where: l = <<d, n>> /\ l[1] = d /\ l[2] = n
        <4>1. PICK l : l = <<d, n>>
          OBVIOUS
        <4>2. n \in {"done", "fail", "progress", "complete"} /\ d \in Promises
          BY <1>1, <1>2 DEF Named
        <4>3. l \in Where /\ l[1] = d /\ l[2] = n
          BY <4>1, <4>2 DEF Where
        <4> QED  BY <4>1, <4>3
      <3>2. l # <<1, "complete">> /\ n # "complete"
        BY <3>1 DEF Named
      <3> QED  BY <1>a, <3>1, <3>2
    <2>3. js.lists[<<d, name>>] = NewList(d, name) /\ js.lists[<<d, Other(name)>>] = NewList(d, Other(name))
      BY <2>1, <2>2
    <2>4. /\ Outcome(K, js.lists[<<d, name>>], d, name) /\ ~js.lists[<<d, name>>].firing /\ ~js.lists[<<d, name>>].fired
          /\ ~js.lists[<<d, Other(name)>>].fired
      BY <2>1, <2>3, NewListOutcome
    <2>5. js.states[d] # Outcomes[name]
      BY <1>1, <1>2, <1>3 DEF Outcomes, Named
    <2> QED  BY <2>4, <2>5 DEF Settling
  <1>15. ASSUME NEW l \in Where, Plain(K, l)  PROVE Latecomers(K, js.lists[l])
    <2>1. PICK d, name : l = <<d, name>> /\ l[1] = d /\ l[2] = name /\ name \in {"done", "fail", "progress", "complete"}
      BY DEF Where
    <2>2. d \in K => name \notin Named
      BY <1>15, <2>1 DEF Plain
    <2>3. NewList(d, "progress").list = <<>>
      BY DEF NewList, NewCallbacks
    <2>4. NewCallbacks(scenario.list).list = <<>> /\ NewCallbacks(o).list = <<>>
      BY DEF NewCallbacks
    <2>5. js.lists[l].list = <<>>
      BY <1>a, <2>1, <2>2, <2>3, <2>4 DEF Named
    <2> QED  BY <2>5 DEF Latecomers
  <1>16. Calm(K, js)
    BY <1>11, <1>14, <1>15 DEF Calm, Steady
  <1>17. Loose(K, js)
    BY <1>16, CalmLoose
  <1> QED  BY <1>1, <1>2, <1>5, <1>12, <1>13, <1>16, <1>17 DEF Inv

LEMMA StepKeeps ==
  ASSUME Inv, [Next]_vars
  PROVE  Inv'
  <1>1. CASE Sync = {} /\ Script
    BY <1>1, LoopTurnsKeeps, RestCallsKeeps, SendCallsKeeps DEF Script
  <1>2. CASE Sync = {} /\ UserNext
    BY <1>2, UserAjaxKeeps, UserAbortsKeeps, UserAddsKeeps, UserSettlesKeeps, UserThensKeeps, UserWhensKeeps,
       UserListsKeeps DEF UserNext
  <1>3. CASE PageEnds
    BY <1>3, PageReturnsKeeps, PageThrowsKeeps DEF PageEnds
  <1>4. CASE Network
    BY <1>4, NetworkKeeps
  <1>5. CASE UNCHANGED vars
    <2>1. js' = js /\ req' = req /\ page' = page /\ scenario' = scenario
      BY <1>5 DEF vars
    <2>2. Made(js)' = Made(js) /\ Requests' = Requests /\ Sync' = Sync
      BY <2>1 DEF Made, Requests, Sync
    <2> QED  BY <2>1, <2>2 DEF Inv
  <1> QED  BY <1>1, <1>2, <1>3, <1>4, <1>5 DEF Next

\* The invariant of the proofs: the lists, the loops on the stack, the promises
\* and the requests fit together, whatever the scripts of the page call from where.
THEOREM ScriptsFit == Spec => []Inv
  <1>1. Init => Inv
    BY InitSound
  <1>2. Inv /\ [Next]_vars => Inv'
    BY StepKeeps
  <1> QED  BY <1>1, <1>2, PTL DEF Spec

\* EveryoneInTurn, for any number of promises and requests: a function of a list
\* is called in its turn and once, whatever the functions of the lists add, remove
\* and fire meanwhile (Callbacks).
THEOREM EveryoneInTurnHolds == Spec => []EveryoneInTurn
  <1>1. Inv => EveryoneInTurn
    <2>1. SUFFICES ASSUME Inv, NEW l \in DOMAIN js.lists  PROVE InTurn(js.lists[l])
      BY DEF EveryoneInTurn
    <2>2. PICK K : K = Made(js)
      OBVIOUS
    <2>3. PICK c \in Objects(K): c = js.lists[l] /\ Ordered(c)
      BY <2>1, <2>2, NowSound DEF Firm, Typed
    <2>4. IsInjective(c.called)
      BY <2>3 DEF Ordered
    <2>5. c.on /\ c.firing /\ ~c.cleared =>
              \A i \in DOMAIN c.list: c.list[i].id \in CalledIds(c) <=> i - 1 <= c.index
      <3>1. SUFFICES ASSUME c.on, c.firing, ~c.cleared, NEW i \in DOMAIN c.list
                     PROVE  c.list[i].id \in CalledIds(c) <=> i - 1 <= c.index
        OBVIOUS
      <3>2. c.index \in Int /\ i \in Int
        BY DEF Objects
      <3>3. i - 1 > c.index \/ i - 1 <= c.index
        BY <3>2
      <3>4. ~(i - 1 > c.index /\ i - 1 <= c.index)
        BY <3>2
      <3> QED  BY <2>3, <3>1, <3>3, <3>4 DEF Ordered
    <2>6. c.on /\ ~c.firing /\ c.memory # NoData /\ ~c.cleared => \A i \in DOMAIN c.list: c.list[i].id \in CalledIds(c)
      BY <2>3 DEF Ordered
    <2> QED  BY <2>3, <2>4, <2>5, <2>6 DEF InTurn
  <1> QED  BY <1>1, ScriptsFit, PTL

\* OneOutcome, for any number of promises and requests: a promise calls for one of
\* its outcomes, and when no script is running whoever was added for it has been
\* called, in the order of the additions (Deferred on top of Callbacks).
THEOREM OneOutcomeHolds == Spec => []OneOutcome
  <1>1. Inv => OneOutcome
    <2>1. SUFFICES ASSUME Inv, NEW d \in Promises, js.states[d] # "none"  PROVE PromiseKept(js, d)
      BY DEF OneOutcome
    <2>2. PICK K : K = Made(js)
      OBVIOUS
    <2>3. d \in K /\ Steady(K, js, TopLoop(js))
      BY <2>1, <2>2, NowSound DEF Loose
    <2>4. Settling(K, js, TopLoop(js), d, "done") /\ Settling(K, js, TopLoop(js), d, "fail")
      BY <2>3 DEF Steady, Named
    <2>5. PICK c, e : c = js.lists[<<d, "done">>] /\ e = js.lists[<<d, "fail">>]
      OBVIOUS
    <2>6. /\ Outcome(K, c, d, "done") /\ Outcome(K, e, d, "fail") /\ (c.fired => ~e.fired)
          /\ c.firing => <<d, "done">> \in LoopLists(js) \cup js.threw
          /\ e.firing => <<d, "fail">> \in LoopLists(js) \cup js.threw
          /\ js.states[d] = "resolved" => c.fired
          /\ js.states[d] = "rejected" => e.fired
      BY <2>4, <2>5 DEF Settling, Other, Outcomes
    <2>7. c.called = <<>> \/ e.called = <<>>
      BY <2>6 DEF Outcome
    <2>8. js.stack = <<>> => LoopLists(js) = {}
      BY DEF LoopLists, Loops
    <2>9. js.stack = <<>> /\ js.states[d] = "resolved" /\ <<d, "done">> \notin js.threw => c.called = Numbered(c.count)
      BY <2>6, <2>8 DEF Outcome
    <2>10. js.stack = <<>> /\ js.states[d] = "rejected" /\ <<d, "fail">> \notin js.threw => e.called = Numbered(e.count)
      BY <2>6, <2>8 DEF Outcome
    <2> QED  BY <2>5, <2>7, <2>9, <2>10 DEF PromiseKept, Numbered
  <1> QED  BY <1>1, ScriptsFit, PTL

\* Whoever adds a function to a list or to a promise, for any number of them, is
\* called in turn, once, and for the outcome that happened.
THEOREM EveryoneCalledHolds == Spec => []EveryoneCalled
  <1>1. EveryoneInTurn /\ OneOutcome => EveryoneCalled
    BY DEF EveryoneCalled
  <1> QED  BY <1>1, EveryoneInTurnHolds, OneOutcomeHolds, PTL
=============================================================================
