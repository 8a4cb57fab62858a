------------------------------ MODULE Elements ------------------------------
(***************************************************************************)
(* A page that uses jQuery on its elements: data, handlers and events,     *)
(* nodes that move, effects and functions that wait for the document.      *)
(*                                                                         *)
(* JavaScript runs one thing to its end: page.js is the stack of what runs,*)
(* see Effects.  The page calls jQuery (one of the calls of menu) when     *)
(* nothing runs or from a function of its own that jQuery called; between  *)
(* two of them the browser's timeouts and events come in any order.        *)
(*                                                                         *)
(* Scenarios are the pages with what they call (menu) and how often (most).*)
(***************************************************************************)
EXTENDS DomReady, Selectors

CONSTANT Scenarios

VARIABLES scenario, page, calls
vars == <<scenario, page, calls>>

Nodes == DOMAIN page.kind
Most == [s \in DOMAIN Scenarios |-> Scenarios[s].most]
Groups == {"data", "handler", "user", "event", "tree", "select", "effect", "ready"}
Menu == [s \in DOMAIN Scenarios |-> [g \in Groups |-> {o \in Scenarios[s].menu: o.group = g}]]

-----------------------------------------------------------------------------
\* A page as it is when jQuery is there: nothing was called yet.
Loading(state, ie, scrolls) ==
    [state |-> state, body |-> state # "loading", ie |-> ie, scrolls |-> scrolls, listens |-> FALSE, asks |-> FALSE,
     retries |-> 0, is |-> FALSE, wait |-> 1, fns |-> << >>, fires |-> FALSE, done |-> FALSE, held |-> 0,
     asked |-> 0, called |-> << >>, early |-> FALSE, over |-> FALSE]
ParentIn(kids, n) == LET of == {p \in DOMAIN kids: n \in ToSet(kids[p])}
                     IN  IF of = {} THEN None ELSE CHOOSE p \in of: TRUE
Page(kind, kids, loading) ==
    LET nodes == DOMAIN kind
        attached == {n \in nodes: kind[n] # "spare"}
    IN  [kind |-> kind, kids |-> kids, parent |-> [n \in nodes |-> ParentIn(kids, n)], spare |-> nodes \ attached,
         expando |-> [n \in nodes |-> 0], cache |-> << >>, deletedIds |-> << >>, guid |-> 1,
         attrs |-> [n \in nodes |-> [k \in CamelKeys |-> NoValue]],
         wrote |-> [n \in nodes |-> [k \in CamelKeys |-> NoValue]], dashed |-> {},
         match |-> [s \in {".s", "none"} |-> {}], listeners |-> {}, capturing |-> FALSE, noFocusin |-> FALSE,
         old |-> FALSE, forms |-> {},
         controls |-> [n \in nodes |-> 0], added |-> 0, unwatched |-> {},
         scripts |-> {}, ran |-> [n \in nodes |-> 0], cleaned |-> [n \in nodes |-> 0],
         names |-> [n \in nodes |-> "div"], byId |-> TRUE, byClass |-> TRUE, holder |-> [n \in nodes |-> n],
         sizzle |-> [run |-> 0, runs |-> 0, outer |-> None, slots |-> << >>], selected |-> [got |-> 0, want |-> 0],
         js |-> << >>, queues |-> << >>, hooks |-> << >>, shows |-> << >>, anims |-> << >>, timers |-> << >>,
         timerId |-> FALSE, delays |-> {}, nexts |-> {}, promises |-> << >>, display |-> [n \in nodes |-> ""],
         size |-> [n \in nodes |-> "own"], css |-> {}, has |-> {}, items |-> 0,
         started |-> [n \in nodes |-> << >>], oops |-> {},
         evs |-> << >>, triggered |-> "none", active |-> None, boxes |-> {}, checked |-> [n \in nodes |-> FALSE],
         links |-> {}, causes |-> 0, acted |-> << >>, heard |-> << >>, done |-> << >>, twice |-> {},
         ready |-> loading]

Init ==
    /\ scenario \in DOMAIN Scenarios
    /\ LET x == Scenarios[scenario].page IN page = IF x.ready.is THEN x ELSE readyPromise(x)
    /\ calls = 0

-----------------------------------------------------------------------------
\* Data.
Wrote(x, e, k, v) == IF acceptData(x, e) THEN [x EXCEPT !.wrote[e][k] = v] ELSE x
DataCall(x, o) ==
    CASE o.op = "data" -> Wrote(data(x, o.e, o.k, o.v), o.e, camelCase(o.k), o.v)
      [] o.op = "dataObject" ->
             IF o.k = camelCase(o.k) THEN Wrote(dataObject(x, o.e, o.k, o.v), o.e, o.k, o.v)
             ELSE [dataObject(x, o.e, o.k, o.v) EXCEPT !.dashed = @ \cup {o.e}]
      [] o.op = "dataAttr" -> dataAttr(x, o.e, o.k)
      [] o.op = "dataAll" -> dataAll(x, o.e)
      [] o.op = "removeData" ->
             [removeData(x, o.e, o.names, o.array) EXCEPT
                 !.wrote[o.e] = [k \in CamelKeys |-> IF o.names = {} \/ k \in {camelCase(n): n \in o.names}
                                                     THEN NoValue ELSE @[k]],
                 !.dashed = IF o.names = {} THEN @ \ {o.e} ELSE @]

\* Handlers: on and one, off, and the events of the page and of the user.
on(x, e, type, sel, ns, fn, one) ==
    add(x, e, [type |-> type, origType |-> type, sel |-> sel, ns |-> ns, fn |-> fn, one |-> one, id |-> 0])
HandlerCall(x, o) ==
    CASE o.op = "on" -> on(x, o.e, o.type, o.sel, o.ns, o.fn, o.one)
      [] o.op = "off" ->
             LET y == IF o.type \in {"click", ""} THEN [x EXCEPT !.unwatched = @ \cup {o.e}] ELSE x
             IN  remove(y, o.e, [What(o.type) EXCEPT !.fn = o.fn, !.sel = o.sel, !.ns = o.ns])
      [] o.op = "trigger" -> trigger(x, o.e, o.type, o.ns, o.only)
UserEvent(x, o) ==
    LET root == x.causes + 1
        y == [x EXCEPT !.causes = root]
    IN  IF o.type = "focus" THEN (IF x.active = o.e THEN x ELSE Focus(y, o.e, root))
        ELSE Native(y, o.type, o.e, o.related, root, TRUE)

\* What a handler may do with its event; to return false is two of them.
EventCallOf(x, o) ==
    LET n == Last(x.js).ev
    IN  CASE o.op = "prevent" -> preventDefault(x, n)
          [] o.op = "stop" -> stopPropagation(x, n)
          [] o.op = "stopNow" -> stopImmediatePropagation(x, n)
          [] o.op = "false" -> Pop(stopPropagation(preventDefault(x, n), n))

\* Nodes that move.  There have to be enough spare nodes for the clones, and a
\* node is not put into itself.
Enough(x, n, times) == Cardinality(x.spare) >= times * Len(Tree(x, n))
Apart(x, n, targets) == \A t \in ToSet(targets): t \notin ToSet(Tree(x, n)) /\ t \notin x.spare
TreeCallable(x, o) ==
    /\ o.e \notin x.spare
    /\ o.op \in {"append", "prepend", "before", "after", "appendTo"} =>
           /\ Apart(x, o.e, o.targets) /\ Enough(x, o.e, Len(o.targets) - 1)
           /\ o.op \in {"before", "after"} => \A t \in ToSet(o.targets): x.parent[t] # None
    /\ o.op = "replaceWith" => Apart(x, o.n, <<o.e>>) /\ x.parent[o.e] # None
    /\ o.op \in {"wrap", "wrapInner"} =>
           Enough(x, o.w, 1) /\ o.w \notin ToSet(Tree(x, o.e)) /\ o.e \notin ToSet(Tree(x, o.w))
    /\ o.op = "unwrap" => x.parent[o.e] \notin {None, Document}
    /\ o.op = "clone" => Enough(x, o.e, 1)
\* Removing what has a queue or an animation leaves these behind.
Busy(x, nodes) == \E n \in nodes: Entry(x, n).hooks # 0 \/ \E i \in DOMAIN x.timers: x.anims[x.timers[i]].elem = n
Removed(x, nodes) == IF Busy(x, nodes) THEN Oops(x, "removed") ELSE x
TreeCall(x, o) ==
    CASE o.op \in {"append", "prepend", "before", "after"} -> domManip(x, o.op, o.targets, o.e)
      [] o.op = "appendTo" -> appendTo(x, "append", o.e, o.targets)
      [] o.op = "replaceWith" -> replaceWith(x, o.e, o.n)
      [] o.op = "wrap" -> wrapAll(x, <<o.e>>, o.w)
      [] o.op = "wrapInner" -> wrapInner(x, o.e, o.w)
      [] o.op = "unwrap" -> unwrap(x, o.e)
      [] o.op = "remove" -> removeNode(Removed(x, ToSet(Tree(x, o.e))), o.e, FALSE)
      [] o.op = "detach" -> removeNode(x, o.e, TRUE)
      [] o.op = "empty" -> empty(x, o.e)
      [] o.op = "html" -> html(x, o.e)
      [] o.op = "clone" ->
             clone(IF o.data /\ Busy(x, ToSet(Tree(x, o.e))) THEN Oops(x, "shared") ELSE x, o.e, o.data, o.deep)

\* Queries of nodes that are made.
Selectable(x, o) == ToSet(o.from) \cap x.spare = {}

\* Queues and effects.  An animation without properties does not wait.
Item(x, o) == [kind |-> o.kind, elem |-> o.e, does |-> o.does, left |-> o.left, n |-> x.items + 1]
animate(x, o) ==
    LET y == [x EXCEPT !.items = @ + 1]
        item == Item(x, o)
    IN  IF o.does = "empty" \/ ~o.queued
        THEN Animation(IF o.does = "empty" /\ Runs(x, o.e) THEN Oops(y, "empty") ELSE y, o.e, item, o.does # "empty")
        ELSE queue(y, o.e, item)
\* A function of the page that still has to call next is not stopped.
Stepped(x, e) == IF \E d \in x.nexts: d.elem = e THEN Oops(x, "stepped") ELSE x
\* Nor is an element to be animated while it is stopped or finished, or stopped in
\* a function of an animation that still dequeues, the next one would start twice;
\* or animated there when nothing is in the queue, that would be passed over.
Under(x, names, e) ==
    \E i \in DOMAIN x.js: x.js[i].kind = "rest" /\ \E j \in DOMAIN x.js[i].calls:
        LET c == x.js[i].calls[j]
        IN  c.call \in names /\ e = IF c.call = "attach" THEN x.anims[c.a].elem ELSE c.elem
Amid(x, o) ==
    \/ Under(x, {"stopTimers", "finishTimers", "finishQueue", "finished"}, o.e)
    \/ /\ Under(x, {"dequeue", "attach"}, o.e)
       /\ o.op \in {"stop", "finish", "clearQueue", "dequeue"} \/ ~Runs(x, o.e)
EffectsCall(x0, o) ==
    LET x == IF Amid(x0, o) THEN Oops(x0, "amid") ELSE x0
    IN  CASE o.op = "animate" -> animate(x, o)
          [] o.op \in {"delay", "queue"} -> queue([x EXCEPT !.items = @ + 1], o.e, Item(x, o))
          [] o.op = "stop" -> stop(Stepped(x, o.e), o.e, o.clear, o.end)
          [] o.op = "finish" -> finish(Stepped(x, o.e), o.e)
          [] o.op = "clearQueue" -> clearQueue(x, o.e)
          [] o.op = "dequeue" -> dequeue(IF Runs(x, o.e) THEN Oops(x, "dequeued") ELSE x, o.e)
          [] o.op = "promise" -> promise(x, {o.e})
          [] o.op = "show" -> show(x, o.e)
          [] o.op = "hide" -> hide(x, o.e)

WaitCall(x, o) ==
    CASE o.op = "ready" -> fnReady(x)
      [] o.op = "holdReady" -> holdReady(x, o.hold)

-----------------------------------------------------------------------------
Idle == page.js = << >>
Top == IF Idle THEN [kind |-> "idle", ev |-> 0] ELSE Last(page.js)
InPage == Top.kind # "rest"
InHandler == Top.kind = "page" /\ Top.ev # 0

\* What was heard of a cause is forgotten when nothing runs.
Rested(x) == IF x.js # << >> THEN x ELSE [x EXCEPT !.heard = << >>, !.acted = << >>, !.causes = 0]

Asked(group) == IF InPage /\ calls < Most[scenario] THEN Menu[scenario][group] ELSE {}
Becomes(x) == /\ page' = Rested(x)
              /\ calls' = calls + 1
              /\ UNCHANGED scenario
CallsData == \E o \in Asked("data"): Becomes(DataCall(page, o))
Binds == \E o \in Asked("handler"): Becomes(HandlerCall(page, o))
UserActs == Idle /\ \E o \in Asked("user"): Becomes(UserEvent(page, o))
Answers == InHandler /\ \E o \in Asked("event"): Becomes(EventCallOf(page, o))
MovesNodes == \E o \in Asked("tree"): TreeCallable(page, o) /\ Becomes(TreeCall(page, o))
Selects == \E o \in Asked("select"): Selectable(page, o) /\ Becomes(Selected(page, o))
CallsEffects == \E o \in Asked("effect"): Becomes(EffectsCall(page, o))
Waits == \E o \in Asked("ready"): Becomes(WaitCall(page, o))

Works(x) == /\ page' = Rested(x)
            /\ UNCHANGED <<scenario, calls>>
\* A function of the page is over.
Returns == Top.kind = "page" /\ Works(Pop(page))

\* jQuery goes on with what it has to call next.
EffectCalls == {"start", "dequeue", "clearQueue", "resolve", "timer", "complete", "unqueue", "attach", "ends",
                "resolveAnimation", "stopQueue", "stopTimers", "splice", "finishTimers", "finishQueue", "finished",
                "tick", "ticked"}
ReadyCalls == {"nextReady", "triggerReady", "offReady", "load"}
GoesOn == Top.kind = "rest"
Now == Head(Top.calls)
Later == Calling(Pop(page), Tail(Top.calls))
GoesOnEffects == GoesOn /\ Now.call \in EffectCalls /\ Works(EffectCall(Later, Now))
GoesOnReady == GoesOn /\ Now.call \in ReadyCalls /\ Works(ReadyCall(Later, Now))
EventCalls == {"end", "native", "act", "capture", "focusin", "dispatch", "run", "handler", "post", "bubble", "default",
               "untrigger"}
GoesOnEvents == GoesOn /\ Now.call \in EventCalls /\ Works(EventCall(Later, Now))

\* The browser: the interval, the timeouts and the document.
Ticks == Idle /\ page.timerId /\ Works(tick(page, 1))
DelayEnds == Idle /\ \E d \in page.delays: Works(dequeue([page EXCEPT !.delays = @ \ {d}], d.elem))
CallsNext == InPage /\ \E d \in page.nexts: Works(dequeue([page EXCEPT !.nexts = @ \ {d}], d.elem))
Retries == Idle /\ page.ready.retries > 0 /\ Works(Retry(page))
AsksAgain == Idle /\ page.ready.asks /\ Works(AskAgain(page))
IsParsed == Idle /\ page.ready.state = "loading" /\ Works(Parsed(page))
IsLoaded == Idle /\ page.ready.state = "interactive" /\ Works(Loaded(page))

jQueryNext == GoesOnEffects \/ GoesOnReady \/ GoesOnEvents
BrowserNext == Ticks \/ DelayEnds \/ Retries \/ AsksAgain \/ IsParsed \/ IsLoaded
PageNext == \/ CallsData \/ Binds \/ UserActs \/ Answers \/ MovesNodes
            \/ Selects \/ CallsEffects \/ Waits \/ Returns \/ CallsNext
Next == jQueryNext \/ BrowserNext \/ PageNext

\* Nothing waits for ever: a call that jQuery began, a function of the page, and,
\* when nothing runs, what the browser has to call; and the page calls every next.
\* These are the weak fairness of jQueryNext, Returns and BrowserNext \/ CallsNext,
\* told by the states: where GoesOn holds jQueryNext can happen and nothing else
\* can; where Due holds the last can happen, and it is every step of Idle that is
\* not a call of the page.
Due == Idle /\ \/ page.timerId \/ page.delays # {} \/ page.nexts # {} \/ page.ready.retries > 0
               \/ page.ready.asks \/ page.ready.state # "complete"
Fairness ==
    /\ []<>~GoesOn \/ []<><<GoesOn>>_vars
    /\ WF_vars(Returns)
    /\ []<>~Due \/ []<><<Idle /\ UNCHANGED calls>>_vars
Spec == Init /\ [][Next]_vars /\ Fairness

-----------------------------------------------------------------------------
\* Data belongs to its node, the tree is a tree and scripts run once, whatever is
\* moved, cloned and removed.  (ElementData, Manipulation)
CacheBelongs == EntriesBelong(page, Nodes) /\ TreeHolds(page, Nodes) /\ ScriptsRunOnce(page)

\* The lists of handlers are in order, and the browser calls jQuery for what is
\* bound and nothing else.  (EventHandlers)
HandlersKept == HandlersInPlace(page, Nodes)

\* An event reaches those who were bound when it came to them, in their order, once.
\* (EventFlow)
DispatchAsBound == AsBound(page) /\ HeardOnce(page) /\ OnlyOnce(page)

\* A query gives what its selector says, each node once and in order, whatever was
\* kept from queries before and from those within it; unless a clone in an old
\* browser has the cache of its source.  (Selectors)
SelectsAsDefined == (\A e \in Nodes: page.holder[e] = e) => page.selected.got = page.selected.want

\* The functions of a queue start in the order they were given and one at a time,
\* the sentinel stands for one that runs, and a promise waits for all of them;
\* unless the page did what jQuery does not provide for.  (Effects)
Running(e) == {a \in DOMAIN page.anims: /\ page.anims[a].elem = e /\ page.anims[a].queued
                                         /\ page.anims[a].state = "pending" /\ page.anims[a].does # "empty"}
InHand(e) == Cardinality(Running(e)) + Cardinality({d \in page.delays \cup page.nexts: d.elem = e})
StartsInOrder(e) == \A i, j \in DOMAIN page.started[e]: i < j => page.started[e][i] < page.started[e][j]
SentinelStands(e) ==
    (Idle /\ queueOf(page, e) # << >>) => Head(queueOf(page, e)) = Inprogress /\ InHand(e) = 1
QueueInOrder ==
    page.oops = {} => /\ \A e \in Nodes: StartsInOrder(e) /\ InHand(e) <= 1 /\ SentinelStands(e)
                      /\ \A p \in DOMAIN page.promises: ~page.promises[p].early

\* When no animation of an element goes on and none was stopped on the way, it
\* has a size of its own again.  (Effects)
Animated(e) == \E i \in DOMAIN page.timers: page.anims[page.timers[i]].elem = e
StyleComesBack ==
    Idle /\ page.oops = {} =>
        \A e \in Nodes: Animated(e) \/ Entry(page, e).fxshow # 0 \/ page.size[e] \in {"own", "full"}

\* The functions that wait for the document.  (DomReady)
ReadyKept == ReadyInTime(page)

\* Every animation ends and with it its queue and every promise; and the functions
\* that wait for the document are called, unless it is held.
Rest ==
    /\ Idle
    /\ page.oops = {} => /\ page.timers = << >> /\ ~page.timerId
                         /\ \A e \in Nodes: queueOf(page, e) = << >>
                         /\ \A p \in DOMAIN page.promises: page.promises[p].count = 0
    /\ page.ready.held > 0 \/ Len(page.ready.called) = page.ready.asked
EverythingEnds == <>[]Rest
=============================================================================
