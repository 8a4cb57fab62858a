------------------------------ MODULE Effects ------------------------------
(***************************************************************************)
(* Queues of functions and animations.  Functions of the page are called   *)
(* from nearly everywhere, so that what jQuery still has to do is kept on  *)
(* the stack js of the page x: a frame is a function of the page (kind     *)
(* "page") or the calls jQuery makes next (kind "rest").                   *)
(*                                                                         *)
(*   queues, hooks, shows  the objects that entries of the cache refer to  *)
(*   anims    the animations; left: ticks until the end, tweens: has any   *)
(*   timers, timerId  jQuery.timers, whether the interval is set           *)
(*   delays   the timeouts of delay, nexts: functions that call next later *)
(*   promises of queues, display and size: the style of an element         *)
(*   css      the elements a style sheet hides                             *)
(*   has      what the page has a function for                             *)
(*   oops     history: what went wrong, see the places                     *)
(***************************************************************************)
EXTENDS Manipulation

Push(x, frame) == [x EXCEPT !.js = Append(@, frame)]
Pop(x) == [x EXCEPT !.js = Front(@)]
Calling(x, calls) == IF calls = << >> THEN x ELSE Push(x, [kind |-> "rest", calls |-> calls])
Hook(x, fn, e) == IF fn \in x.has THEN Push(x, [kind |-> "page", fn |-> fn, elem |-> e, ev |-> 0]) ELSE x
Oops(x, what) == [x EXCEPT !.oops = @ \cup {what}]

-----------------------------------------------------------------------------
\* The queue of an element.

Inprogress == [kind |-> "inprogress", elem |-> 0, does |-> "none", left |-> 0, n |-> 0]
queueOf(x, e) == IF Entry(x, e).queue = 0 THEN << >> ELSE x.queues[Entry(x, e).queue]
SetQueue(x, e, list) ==
    Write([x EXCEPT !.queues = Append(@, list)], e, [Entry(x, e) EXCEPT !.queue = Len(x.queues) + 1])
queueHooks(x, e) ==
    IF Entry(x, e).hooks # 0 THEN x
    ELSE Write([x EXCEPT !.hooks = Append(@, [elem |-> e, stop |-> 0, unqueued |-> -1, fired |-> FALSE,
                                              waiting |-> << >>])],
               e, [Entry(x, e) EXCEPT !.hooks = Len(x.hooks) + 1])

\* hooks.empty, a list that fires once: the queue and the hooks go, then the
\* promises hear of it.  Animations beside the queue hold it back.
Emptied(x, e) == removePrivate(x, e, [Entry(x, e) EXCEPT !.queue = 0])
Unhooked(x, e) == removePrivate(x, e, [Entry(x, e) EXCEPT !.hooks = 0])
fireEmpty(x, h) ==
    LET hook == x.hooks[h]
    IN  IF hook.fired \/ hook.unqueued > 0 THEN x
        ELSE Calling([Unhooked(Emptied(x, hook.elem), hook.elem) EXCEPT !.hooks[h].fired = TRUE],
                     [i \in DOMAIN hook.waiting |-> [call |-> "resolve", p |-> hook.waiting[i]]])

\* Mutant of Shifted: the sentinel is not put back.
ShiftedFree(x, e, list) ==
    IF Entry(x, e).queue = 0 THEN x
    ELSE [x EXCEPT !.queues[Entry(x, e).queue] = IF list = << >> THEN << >> ELSE Tail(list)]

\* dequeue: the next function is called, with the sentinel in its place.
InProgress(list) == list # << >> /\ Head(list) = Inprogress
NotYet(list) == IF InProgress(list) THEN Tail(list) ELSE list
Shifted(x, e, list) ==
    IF Entry(x, e).queue = 0 THEN x
    ELSE [x EXCEPT !.queues[Entry(x, e).queue] = IF list = << >> THEN << >> ELSE <<Inprogress>> \o Tail(list)]
StartsNext(x, e, h, list) ==
    IF list = << >> THEN fireEmpty(x, h)
    ELSE Calling([x EXCEPT !.hooks[h].stop = 0], << [call |-> "start", elem |-> e, item |-> list[1], at |-> h] >>)
Hooked(x, e, list) == StartsNext(x, e, Entry(x, e).hooks, list)
Dequeued(x, e, list) == Hooked(queueHooks(Shifted(x, e, list), e), e, list)
dequeue(x, e) == Dequeued(x, e, NotYet(queueOf(x, e)))

\* queue with a function, and with an empty array (clearQueue): the sentinel of
\* what is running goes as well.
Ensured(x, e) == IF InProgress(queueOf(x, e)) THEN x ELSE dequeue(x, e)
queue(x, e, item) ==
    Ensured(queueHooks(IF Entry(x, e).queue = 0 THEN SetQueue(x, e, <<item>>)
                       ELSE [x EXCEPT !.queues[Entry(x, e).queue] = Append(@, item)], e), e)
Runs(x, e) == queueOf(x, e) # << >>
clearQueue(x, e) ==
    Ensured(queueHooks(SetQueue(IF Runs(x, e) THEN Oops(x, "cleared") ELSE x, e, << >>), e), e)

\* promise of elements, and one that is told: it counts, and starts with one
\* more so that it does not resolve on the way.
resolve(x, p) ==
    LET y == [x EXCEPT !.promises[p].count = @ - 1]
        q == y.promises[p]
        running == {a \in 1..q.anims: x.anims[a].elem \in q.of /\ x.anims[a].state = "pending" /\ x.anims[a].counts}
    IN  IF q.count # 0 THEN y
        ELSE Hook([y EXCEPT !.promises[p].early = running # {}], "promise", 0)
promise(x, elems) ==
    LET p == Len(x.promises) + 1
        with == {e \in elems: Entry(x, e).hooks # 0}
        pending == {e \in with: ~x.hooks[Entry(x, e).hooks].fired}
        y == [x EXCEPT !.promises = Append(@, [count |-> 1 + Cardinality(pending), of |-> elems,
                                               anims |-> Len(x.anims), early |-> FALSE])]
        z == FoldSet(LAMBDA e, w: [w EXCEPT !.hooks[Entry(w, e).hooks].waiting = Append(@, p)], y, pending)
    IN  resolve(z, p)

-----------------------------------------------------------------------------
\* The style of an element, as far as show and hide change it.

isHidden(x, e) == x.display[e] = "none" \/ (x.display[e] = "" /\ e \in x.css) \/ ~Contained(x, e)
Remembers(x, e) == Write(x, e, [Entry(x, e) EXCEPT !.olddisplay = "block"])
Displayed(x, e, value) == [x EXCEPT !.display[e] = value]
ShowAs(x, e, old, inline) ==
    CASE inline = "" /\ isHidden(Displayed(x, e, ""), e) -> Displayed(Remembers(x, e), e, "block")
      [] inline = "" /\ ~isHidden(Displayed(x, e, ""), e) -> Displayed(x, e, old)
      [] inline # "" -> Displayed(x, e, IF inline = "none" THEN old ELSE inline)
show(x, e) ==
    LET old == Entry(x, e).olddisplay
    IN  ShowAs(x, e, old, IF old = "" /\ x.display[e] = "none" THEN "" ELSE x.display[e])
hide(x, e) ==
    LET keep == Entry(x, e).olddisplay = "" /\ (x.display[e] \notin {"", "none"} \/ ~isHidden(x, e))
    IN  Displayed(IF keep THEN Remembers(x, e) ELSE x, e, "none")

Current(x, e) == IF x.size[e] = "own" THEN "full" ELSE x.size[e]
NoShow == [hidden |-> "none", size |-> "none"]

\* defaultPrefilter: beside the queue it is counted; show, hide and toggle
\* remember the size they will bring back, and go on from a stopped one.
Counted(x, h) == [x EXCEPT !.hooks[h].unqueued = IF @ = -1 THEN 1 ELSE @ + 1]
CountedOf(x, e) == Counted(x, Entry(x, e).hooks)
Beside(x, e) == CountedOf(queueHooks(x, e), e)

NewShow(x, e) ==
    IF Entry(x, e).fxshow # 0 THEN x
    ELSE Write([x EXCEPT !.shows = Append(@, NoShow)], e, [Entry(x, e) EXCEPT !.fxshow = Len(x.shows) + 1])
RunsBoth(x, e) == \E b \in DOMAIN x.anims: x.anims[b].elem = e /\ x.anims[b].restores /\ x.anims[b].state = "pending"
NotBoth(x, e) == IF RunsBoth(x, e) THEN Oops(x, "both") ELSE x
Toggled(x, e, does, hidden) ==
    IF does = "toggle" THEN [x EXCEPT !.shows[Entry(x, e).fxshow].hidden = IF hidden THEN "no" ELSE "yes"] ELSE x
Restores(x, e, a, hidden, orig, to, full) ==
    [x EXCEPT !.shows[to].size = full,
              !.anims[a] = [@ EXCEPT !.tweens = TRUE, !.hides = ~hidden, !.restores = TRUE, !.orig = orig,
                                     !.end = IF hidden THEN full ELSE "zero"]]
Sized(x, e, a, hidden, orig, to) ==
    Restores(x, e, a, hidden, orig, to, IF x.shows[to].size = "none" THEN Current(x, e) ELSE x.shows[to].size)
Shows(x, e, a, hidden, orig) ==
    Sized(NotBoth(IF hidden THEN show(x, e) ELSE x, e), e, a, hidden, orig, Entry(x, e).fxshow)
ShowHide(x, e, does, a, kept, asShown) ==
    LET goesOn == does = "show" /\ ~asShown /\ kept.size # "none"
        hidden == IF kept.hidden # "none" THEN kept.hidden = "yes" ELSE asShown \/ goesOn
    IN  IF (does = "show" /\ ~asShown /\ ~goesOn) \/ (does = "hide" /\ asShown) THEN x
        ELSE Shows(Toggled(NewShow(x, e), e, does, hidden), e, a, hidden,
                   IF kept.size # "none" THEN kept.size ELSE x.size[e])
defaultPrefilter(x, e, does, a) ==
    IF does \notin {"show", "hide", "toggle"} THEN x
    ELSE ShowHide(x, e, does, a, IF Entry(x, e).fxshow = 0 THEN NoShow ELSE x.shows[Entry(x, e).fxshow], isHidden(x, e))

-----------------------------------------------------------------------------
\* One animation.

\* Mutant of PutBack: the style stays as the animation left it.
PutBackLate(x, e, n, outcome) ==
    IF outcome = "resolved" /\ n.restores THEN removePrivate(x, e, [Entry(x, e) EXCEPT !.fxshow = 0]) ELSE x

\* Its promise is settled: it is off the timers of its element, what was hidden
\* is hidden and the style put back, complete is called and then it is counted
\* off beside the queue.
PutBack(x, e, n, outcome) ==
    IF outcome = "resolved" /\ n.restores
    THEN removePrivate([x EXCEPT !.size[e] = n.orig], e, [Entry(x, e) EXCEPT !.fxshow = 0]) ELSE x
Hidden(x, e, n, outcome) == IF outcome = "resolved" /\ n.hides THEN hide(x, e) ELSE x
Told(x, a, n, outcome) ==
    Calling(x, (IF outcome = "resolved" /\ n.attached THEN << [call |-> "complete", a |-> a] >> ELSE << >>)
               \o (IF n.queued THEN << >> ELSE << [call |-> "unqueue", a |-> a] >>))
Settles(x, a, n, outcome) ==
    IF n.state # "pending" THEN x
    ELSE Told(PutBack(Hidden([x EXCEPT !.anims[a].state = outcome, !.anims[a].ticking = FALSE], n.elem, n, outcome),
                      n.elem, n, outcome), a, n, outcome)
Settled(x, a, outcome) == Settles(x, a, x.anims[a], outcome)
Complete(x, a) ==
    Hook(Calling(x, IF x.anims[a].queued THEN << [call |-> "dequeue", elem |-> x.anims[a].elem] >> ELSE << >>),
         "complete", x.anims[a].elem)
EmptyNow(x, n) == IF queueOf(x, n.elem) = << >> THEN fireEmpty(x, n.hooks) ELSE x
unqueue(x, a) == EmptyNow([x EXCEPT !.hooks[x.anims[a].hooks].unqueued = @ - 1], x.anims[a])
RunTweens(x, a, value) ==
    IF x.anims[a].restores THEN [x EXCEPT !.size[x.anims[a].elem] = value] ELSE x
Stopped(x, a, gotoEnd) ==
    Settled(IF gotoEnd THEN RunTweens(x, a, x.anims[a].end) ELSE x, a, IF gotoEnd THEN "resolved" ELSE "rejected")
stopAnimation(x, a, gotoEnd) ==
    IF x.anims[a].stopped THEN x ELSE Stopped([x EXCEPT !.anims[a].stopped = TRUE], a, gotoEnd)

\* Animation: beside is FALSE for one of the queue.  timer calls it once at once.
NewAnimation(x, e, item, beside) ==
    [elem |-> e, queued |-> ~beside, does |-> item.does, left |-> item.left, tweens |-> item.does = "move",
     hides |-> FALSE, restores |-> FALSE, orig |-> "own", end |-> "own", stopped |-> FALSE,
     state |-> "pending", ticking |-> TRUE, attached |-> FALSE, hooks |-> Entry(x, e).hooks,
     n |-> item.n, counts |-> item.does # "empty"]
Lasts(x, a, more) ==
    LET y == Calling(x, << [call |-> "timer", a |-> a, more |-> more] >>)
    IN  IF more THEN y ELSE Settled(y, a, "resolved")
FirstTick(x, a, left) ==
    Lasts(RunTweens([x EXCEPT !.timers = Append(@, a)], a, IF left > 0 THEN "part" ELSE x.anims[a].end), a,
          x.anims[a].tweens /\ left > 0)
Begins(x, e, item, new) ==
    LET a == Len(x.anims) + 1
    IN  FirstTick(defaultPrefilter([x EXCEPT !.anims = Append(@, new)], e, item.does, a), a, item.left)
BeginsAs(x, e, item, beside) == Begins(x, e, item, NewAnimation(x, e, item, beside))
Animation(x, e, item, beside) == BeginsAs(IF beside THEN Beside(x, e) ELSE x, e, item, beside)

\* The end of jQuery.fx.timer, which takes the last timer off, whosever it is;
\* then the functions of the options are attached, of which progress hears of the
\* first tick, and it ends if it is to.
Took(x, a, b) == IF a # b /\ x.anims[b].state = "pending" THEN Oops(x, "lost") ELSE x
Timer(x, a, more) ==
    LET y == IF more THEN [x EXCEPT !.timerId = TRUE]
             ELSE IF x.timers = << >> THEN x ELSE [Took(x, a, Last(x.timers)) EXCEPT !.timers = Front(@)]
    IN  Hook(Calling(y, << [call |-> "attach", a |-> a], [call |-> "ends", a |-> a] >>), "progress", x.anims[a].elem)
attach(x, a) ==
    LET y == [x EXCEPT !.anims[a].attached = TRUE]
    IN  IF x.anims[a].state = "resolved" THEN Complete(y, a) ELSE y
ends(x, a) == IF x.anims[a].does = "empty" \/ Entry(x, x.anims[a].elem).finish THEN stopAnimation(x, a, TRUE) ELSE x

-----------------------------------------------------------------------------
\* stop, finish and the interval: loops over jQuery.timers, which the functions
\* of the page may change.

stop(x, e, clear, gotoEnd) ==
    Calling(x, (IF clear THEN << [call |-> "clearQueue", elem |-> e] >> ELSE << >>)
               \o << [call |-> "stopQueue", elem |-> e, gotoEnd |-> gotoEnd] >>)
stopQueue(x, e, gotoEnd) ==
    LET y == Make(x, e)
        h == Entry(y, e).hooks
        id == IF h = 0 THEN 0 ELSE y.hooks[h].stop
        z == IF id = 0 THEN y ELSE [y EXCEPT !.hooks[h].stop = 0, !.delays = {d \in @: d.id # id}]
    IN  Calling(z, << [call |-> "stopTimers", elem |-> e, at |-> Len(z.timers), gotoEnd |-> gotoEnd,
                       dequeue |-> TRUE, delayed |-> id # 0] >>)
Throws(x) == [Oops(x, "threw") EXCEPT !.js = << >>, !.evs = << >>]
stopTimers(x, c) ==
    LET a == x.timers[c.at]
        next == [c EXCEPT !.at = @ - 1]
    IN  CASE c.at = 0 -> IF c.dequeue \/ ~c.gotoEnd THEN dequeue(x, c.elem)
                         ELSE IF c.delayed THEN Oops(x, "stuck") ELSE x
          [] c.at > Len(x.timers) -> Throws(x)
          [] c.at \in DOMAIN x.timers /\ x.anims[a].ticking /\ x.anims[a].elem = c.elem ->
                 stopAnimation(Calling(x, << [call |-> "splice", at |-> c.at, a |-> a],
                                             [next EXCEPT !.dequeue = FALSE] >>), a, c.gotoEnd)
          [] OTHER -> Calling(x, <<next>>)
splice(x, at, a) ==
    IF at > Len(x.timers) THEN x ELSE [Took(x, a, x.timers[at]) EXCEPT !.timers = RemoveAt(@, at)]

finish(x, e) ==
    LET y == Write(x, e, [Entry(x, e) EXCEPT !.finish = TRUE])
        h == Entry(y, e).hooks
        id == IF h = 0 THEN 0 ELSE y.hooks[h].stop
        z == IF id = 0 THEN y ELSE [Oops(y, "finished") EXCEPT !.delays = {d \in @: d.id # id}]
    IN  Calling(SetQueue(z, e, << >>),
                << [call |-> "finishTimers", elem |-> e, at |-> Len(x.timers)],
                   [call |-> "finishQueue", elem |-> e, items |-> queueOf(x, e)],
                   [call |-> "finished", elem |-> e] >>)
finishTimers(x, c) ==
    LET a == x.timers[c.at]
        next == [c EXCEPT !.at = @ - 1]
    IN  CASE c.at = 0 -> x
          [] c.at > Len(x.timers) -> Throws(x)
          [] c.at \in DOMAIN x.timers /\ x.anims[a].ticking /\ x.anims[a].elem = c.elem /\ x.anims[a].queued ->
                 stopAnimation(Calling(x, << [call |-> "splice", at |-> c.at, a |-> a], next >>), a, TRUE)
          [] OTHER -> Calling(x, <<next>>)
finishQueue(x, e, items) ==
    LET anims == SelectSeq(items, LAMBDA i: i.kind = "anim")
    IN  Calling(x, [i \in DOMAIN anims |-> [call |-> "start", elem |-> e, item |-> anims[i], at |-> 0]])

\* Mutant of tick: the loop goes on after one that is taken off.
tickOn(x, at) ==
    IF at > Len(x.timers) THEN [x EXCEPT !.timerId = FALSE]
    ELSE LET a == x.timers[at]
             left == x.anims[a].left - 1
             y == RunTweens([x EXCEPT !.anims[a].left = left], a, IF left > 0 THEN "part" ELSE x.anims[a].end)
         IN  IF x.anims[a].stopped THEN Calling(x, << [call |-> "ticked", at |-> at, a |-> a] >>)
             ELSE Hook(Calling(y, IF left > 0 THEN << [call |-> "tick", at |-> at + 1] >>
                                  ELSE << [call |-> "resolveAnimation", a |-> a],
                                          [call |-> "ticked", at |-> at, a |-> a] >>),
                       "progress", x.anims[a].elem)

\* jQuery.fx.tick from a timer on: its tweens run, and it ends after its last tick.
\* One that ended but was left in the list, when another was taken off, runs again.
tick(x, at) ==
    IF at > Len(x.timers) THEN [x EXCEPT !.timerId = IF x.timers = << >> THEN FALSE ELSE @]
    ELSE LET a == x.timers[at]
             left == IF x.anims[a].left = 0 \/ ~x.anims[a].tweens THEN 0 ELSE x.anims[a].left - 1
             known == IF x.anims[a].state = "resolved" /\ ~x.anims[a].stopped THEN Oops(x, "again") ELSE x
             y == RunTweens([known EXCEPT !.anims[a].left = left], a, IF left > 0 THEN "part" ELSE x.anims[a].end)
         IN  IF x.anims[a].stopped THEN Calling(x, << [call |-> "ticked", at |-> at, a |-> a] >>)
             ELSE Hook(Calling(y, IF left > 0 THEN << [call |-> "tick", at |-> at + 1] >>
                                  ELSE << [call |-> "resolveAnimation", a |-> a],
                                          [call |-> "ticked", at |-> at, a |-> a] >>),
                       "progress", x.anims[a].elem)
ticked(x, at, a) ==
    IF at <= Len(x.timers) /\ x.timers[at] = a
    THEN Calling([x EXCEPT !.timers = RemoveAt(@, at)], << [call |-> "tick", at |-> at] >>)
    ELSE Calling(x, << [call |-> "tick", at |-> at + 1] >>)

-----------------------------------------------------------------------------
\* A function of a queue is called for the element that was dequeued.
start(x, e, item, h) ==
    LET y == [IF item.elem # e THEN Oops(x, "shared") ELSE x EXCEPT !.started[e] = Append(@, item.n)]
    IN  CASE item.kind = "anim" -> Animation(y, e, item, FALSE)
          [] item.kind = "delay" -> [y EXCEPT !.delays = @ \cup {[id |-> item.n, elem |-> e]}, !.hooks[h].stop = item.n]
          [] item.kind = "fn" -> Hook([y EXCEPT !.nexts = @ \cup {[id |-> item.n, elem |-> e]}], "queue", e)

EffectCall(x, c) ==
    CASE c.call = "start" -> start(x, c.elem, c.item, c.at)
      [] c.call = "dequeue" -> dequeue(x, c.elem)
      [] c.call = "clearQueue" -> clearQueue(x, c.elem)
      [] c.call = "resolve" -> resolve(x, c.p)
      [] c.call = "timer" -> Timer(x, c.a, c.more)
      [] c.call = "complete" -> Complete(x, c.a)
      [] c.call = "unqueue" -> unqueue(x, c.a)
      [] c.call = "attach" -> attach(x, c.a)
      [] c.call = "ends" -> ends(x, c.a)
      [] c.call = "resolveAnimation" -> Settled(x, c.a, "resolved")
      [] c.call = "stopQueue" -> stopQueue(x, c.elem, c.gotoEnd)
      [] c.call = "stopTimers" -> stopTimers(x, c)
      [] c.call = "splice" -> splice(x, c.at, c.a)
      [] c.call = "finishTimers" -> finishTimers(x, c)
      [] c.call = "finishQueue" -> finishQueue(x, c.elem, c.items)
      [] c.call = "finished" ->
             IF Has(x, c.elem) THEN Write(x, c.elem, [Entry(x, c.elem) EXCEPT !.finish = FALSE]) ELSE x
      [] c.call = "tick" -> tick(x, c.at)
      [] c.call = "ticked" -> ticked(x, c.at, c.a)
=============================================================================
