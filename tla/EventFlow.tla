----------------------------- MODULE EventFlow -----------------------------
(***************************************************************************)
(* Events on their way: jQuery.event.trigger and dispatch, the browser     *)
(* that calls them, and what they make of focus, mouseenter, a click that  *)
(* is triggered and a submit that does not bubble.                         *)
(*                                                                         *)
(* x.evs holds the events that are under way, the innermost last: jQuery's *)
(* own and, with native set, those of the browser.  root tells the events  *)
(* of one cause from others.  Of the page this module reads and changes    *)
(*   triggered  jQuery.event.triggered, "none" without one                 *)
(*   active     the element that has the focus                             *)
(*   boxes, checked  the checkboxes; links: the links                      *)
(*   causes     how many events the page and the user started              *)
(*   acted      history: what the browser did in the end, by cause         *)
(*   heard      history: who was told of what, by cause                    *)
(*   done       history: the handlers bound with one that ran, and the     *)
(*   twice      ones of them that were under way when they ran again       *)
(***************************************************************************)
EXTENDS Effects

Event(type, target, root) ==
    [type |-> type, target |-> target, root |-> root, native |-> FALSE, ns |-> {}, trigger |-> 0, stopped |-> FALSE,
     immediate |-> FALSE, prevented |-> FALSE, original |-> 0, simulated |-> FALSE, related |-> None, bubble |-> FALSE,
     ran |-> << >>, wanted |-> << >>]
Begin(x, ev, calls) ==
    LET n == Len(x.evs) + 1
    IN  Calling([x EXCEPT !.evs = Append(@, ev)],
                Append([i \in DOMAIN calls |-> [calls[i] EXCEPT !.ev = n]], [call |-> "end", ev |-> n]))
-----------------------------------------------------------------------------
\* preventDefault and stopPropagation, which the browser hears of as well, but
\* not for a simulated event.  When that is over and prevented, so is its donor.
preventDefault(x, n) ==
    LET ev == x.evs[n]
        y == [x EXCEPT !.evs[n].prevented = TRUE]
    IN  IF ev.original # 0 /\ ~ev.simulated THEN [y EXCEPT !.evs[ev.original].prevented = TRUE] ELSE y
stopPropagation(x, n) ==
    LET ev == x.evs[n]
        y == [x EXCEPT !.evs[n].stopped = TRUE]
    IN  IF ev.original # 0 /\ ~ev.simulated THEN [y EXCEPT !.evs[ev.original].stopped = TRUE] ELSE y
stopImmediatePropagation(x, n) == stopPropagation([x EXCEPT !.evs[n].immediate = TRUE], n)
End(x, n) ==
    LET ev == x.evs[n]
        y == IF ev.prevented /\ ev.simulated THEN preventDefault(x, ev.original) ELSE x
    IN  [y EXCEPT !.evs = Front(@)]

\* The browser: it asks whom it has to call on the path, then acts.
Native(x, type, target, related, root, bubbles) ==
    LET path == IF bubbles THEN Upward(x, target) ELSE <<target>>
    IN  Begin(x, [Event(type, target, root) EXCEPT !.native = TRUE, !.related = related],
              << [call |-> "native", ev |-> 0, path |-> path], [call |-> "act", ev |-> 0] >>)
NativeNext(x, c) ==
    LET e == Head(c.path)
        o == x.evs[c.ev]
        calls == <<e, o.type>> \in x.listeners /\ x.triggered # o.type /\ Has(x, e)
        fixed == [Event(o.type, o.target, o.root) EXCEPT !.prevented = o.prevented, !.original = c.ev,
                                                            !.related = o.related]
        y == Calling(x, << [c EXCEPT !.path = Tail(@)] >>)
    IN  CASE c.path = << >> \/ o.stopped -> x
          [] c.path # << >> /\ ~o.stopped /\ calls -> Begin(y, fixed, << [call |-> "dispatch", ev |-> 0, elem |-> e] >>)
          [] OTHER -> y
Submits(x, form, root) == Native(x, "submit", form, None, root, ~x.old)
Act(x, n) ==
    LET o == x.evs[n]
        form == x.controls[o.target]
        y == [x EXCEPT !.acted = Append(@, <<o.root, o.type, o.target>>)]
    IN  CASE o.prevented \/ o.type \notin {"click", "submit"} -> x
          [] ~o.prevented /\ o.type = "click" /\ form # 0 -> Submits(y, form, o.root)
          [] ~o.prevented /\ o.type = "click" /\ o.target \in x.boxes -> [y EXCEPT !.checked[o.target] = ~@]
          [] OTHER -> y
\* focus(): those who watch the document hear of it first; simulate is for those
\* who want focusin of a browser without it.
simulate(x, type, elem, n, bubble) ==
    LET ev == [x.evs[n] EXCEPT !.type = type, !.native = FALSE, !.original = n, !.simulated = TRUE, !.trigger = 3]
    IN  IF bubble THEN Begin(x, ev, << [call |-> "bubble", ev |-> 0, at |-> 1, elem |-> elem,
                                        path |-> Upward(x, elem), type |-> type] >>)
        ELSE Begin(x, ev, << [call |-> "dispatch", ev |-> 0, elem |-> elem] >>)
Focus(x, e, root) ==
    LET y == [x EXCEPT !.active = e]
    IN  IF x.noFocusin THEN Begin(y, [Event("focus", e, root) EXCEPT !.native = TRUE],
                            << [call |-> "capture", ev |-> 0], [call |-> "native", ev |-> 0, path |-> <<e>>] >>)
        ELSE Begin(y, [Event("focus", e, root) EXCEPT !.native = TRUE],
                   << [call |-> "native", ev |-> 0, path |-> <<e>>], [call |-> "focusin", ev |-> 0] >>)

-----------------------------------------------------------------------------
\* dispatch at an element: the handlers that are there now, in groups.  wanted
\* says which they should be.
Wanted(x, e, n) ==
    LET list == ToSet(List(x, e, x.evs[n].type).list)
        chain == Below(x, e, x.evs[n].target)
        fits(h) == x.evs[n].ns \subseteq h.ns
        delegated == {<<i, h>> \in (DOMAIN chain) \X list:
                          h.sel # "none" /\ chain[i] \in x.match[h.sel] /\ x.kind[chain[i]] = "element" /\ fits(h)}
        direct == {<<Len(chain) + 1, h>>: h \in {k \in list: k.sel = "none" /\ fits(k)}}
        inOrder == SetToSortSeq(delegated \cup direct, LAMBDA p, q: p[1] < q[1] \/ (p[1] = q[1] /\ p[2].id < q[2].id))
    IN  [i \in DOMAIN inOrder |-> inOrder[i][2].id]
dispatch(x, n, e) ==
    LET groups == handlers(x, e, x.evs[n].target, List(x, e, x.evs[n].type))
        y == [x EXCEPT !.evs[n].wanted = Wanted(x, e, n), !.evs[n].ran = << >>,
                       !.heard = Append(@, <<x.evs[n].root, x.evs[n].type, e>>)]
    IN  Calling(y, << [call |-> "run", ev |-> n, elem |-> e, groups |-> groups] >>)

\* Mutant of run: the list of the element is read again for every handler.
runLive(x, c) ==
    LET live == handlers(x, c.elem, x.evs[c.ev].target, List(x, c.elem, x.evs[c.ev].type))
        all(g) == [j \in DOMAIN g.handlers |-> <<g.elem, g.handlers[j]>>]
        left == SelectSeq(FlattenSeq([i \in DOMAIN live |-> all(live[i])]), 
                           LAMBDA p: p[2].id \notin ToSet(x.evs[c.ev].ran))
    IN  IF left = << >> \/ x.evs[c.ev].stopped THEN Calling(x, << [call |-> "post", ev |-> c.ev, elem |-> c.elem] >>)
        ELSE Calling(x, << [call |-> "handler", ev |-> c.ev, elem |-> left[1][1], at |-> c.elem,
                           h |-> left[1][2]], c >>)

\* The next handler, unless the event was stopped between two nodes or, at once,
\* between two handlers.
run(x, c) ==
    LET g == Head(c.groups)
        later == [c EXCEPT !.groups = IF Len(g.handlers) = 1 THEN Tail(@)
                                      ELSE <<[g EXCEPT !.handlers = Tail(@), !.begun = TRUE]>> \o Tail(@)]
        over == Calling(x, << [call |-> "post", ev |-> c.ev, elem |-> c.elem] >>)
        fits == x.evs[c.ev].ns \subseteq Head(g.handlers).ns
    IN  CASE c.groups = << >> \/ x.evs[c.ev].immediate -> over
          [] c.groups # << >> /\ ~x.evs[c.ev].immediate /\ ~g.begun /\ x.evs[c.ev].stopped -> over
          [] OTHER -> Calling(x, (IF fits THEN << [call |-> "handler", ev |-> c.ev, elem |-> g.elem, at |-> c.elem,
                                                   h |-> Head(g.handlers)] >> ELSE << >>) \o <<later>>)

\* A handler.  One bound with one is taken off first, by its function; the lazy
\* handlers make a form tell that it is submitted.
InFlight(x, id) ==
    \E i \in DOMAIN x.js: /\ x.js[i].kind = "rest"
                          /\ \E j \in DOMAIN x.js[i].calls: /\ x.js[i].calls[j].call = "run"
                                /\ \E k \in DOMAIN x.js[i].calls[j].groups:
                                       \E m \in DOMAIN x.js[i].calls[j].groups[k].handlers:
                                           x.js[i].calls[j].groups[k].handlers[m].id = id
off(h) == [origType |-> h.origType, fn |-> h.fn, ns |-> h.ns, sel |-> h.sel, mapped |-> FALSE]
Outside(x, e, n) == LET r == x.evs[n].related IN r = None \/ (r # e /\ e \notin ToSet(Upward(x, r)))
Handler(x, c) ==
    LET n == c.ev
        h == c.h
        form == x.controls[x.evs[n].target]
        y == [x EXCEPT !.evs[n].ran = Append(@, h.id)]
        once == [remove(y, c.at, off(h)) EXCEPT !.done = Append(@, h.id),
                                                !.twice = IF InFlight(x, h.id) THEN @ \cup {h.id} ELSE @]
    IN  CASE h.fn = "lazySubmit" ->
                 IF form = 0 \/ Entry(x, form).lazy THEN y
                 ELSE LET z == add(y, form, Internal("submit", "markSubmit"))
                      IN  Write(z, form, [Entry(z, form) EXCEPT !.lazy = TRUE])
          [] h.fn = "markSubmit" -> [y EXCEPT !.evs[n].bubble = TRUE]
          [] h.origType = "mouseenter" /\ ~Outside(x, c.elem, n) -> y
          [] OTHER -> Push(IF h.one THEN once ELSE y, [kind |-> "page", fn |-> "handler", elem |-> c.elem, ev |-> n])

\* After a dispatch of submit: it goes on above the form.
Post(x, n, e) ==
    LET y == [x EXCEPT !.evs[n].bubble = FALSE]
    IN  IF x.old /\ x.evs[n].type = "submit" /\ x.evs[n].bubble /\ x.parent[e] # None /\ x.evs[n].trigger = 0
        THEN simulate(y, "submit", x.parent[e], n, TRUE) ELSE y

-----------------------------------------------------------------------------
\* trigger: focus and a click on a checkbox are left to the browser; the path is
\* fixed before the first handler, with the element twice for focus and focusin.
trigger(x, e, type, ns, only) ==
    LET root == x.causes + 1
        y == [x EXCEPT !.causes = root]
        up == IF only \/ type = "load" THEN << >>
              ELSE IF type = "focus" THEN Upward(x, e) ELSE Upward(x, x.parent[e])
        ev == [Event(type, e, root) EXCEPT !.ns = ns, !.trigger = IF only THEN 2 ELSE 3]
    IN  CASE x.kind[e] = "text" \/ (type = "focusin" /\ x.triggered = "focus") -> x
          [] x.kind[e] # "text" /\ ~only /\ type = "focus" /\ x.active # e -> Focus(y, e, root)
          [] x.kind[e] # "text" /\ ~only /\ type = "click" /\ e \in x.boxes -> Native(y, "click", e, None, root, TRUE)
          [] OTHER -> Begin(y, ev, << [call |-> "bubble", ev |-> 0, at |-> 1, elem |-> e, path |-> <<e>> \o up,
                                       type |-> type],
                                      [call |-> "default", ev |-> 0, elem |-> e] >>)
bubble(x, c) ==
    LET e == c.path[c.at]
        type == IF c.at = 1 THEN bindType(c.type) ELSE delegateType(c.type)
        y == Calling([x EXCEPT !.evs[c.ev].type = type], << [c EXCEPT !.at = @ + 1] >>)
    IN  IF c.at > Len(c.path) \/ x.evs[c.ev].stopped THEN [x EXCEPT !.evs[c.ev].type = c.type]
        ELSE IF type \in DOMAIN Events(x, e) /\ x.triggered # type
        THEN Calling(y, << [call |-> "dispatch", ev |-> c.ev, elem |-> e] >>) ELSE y

\* The default action of a triggered event: jQuery does not hear of the click it
\* makes the browser do.
Default(x, n, e) ==
    LET ev == x.evs[n]
    IN  IF ev.trigger = 2 \/ ev.prevented \/ ev.type # "click" \/ e \in x.links \/ ~acceptData(x, e) THEN x
        ELSE Native(Calling([x EXCEPT !.triggered = "click"], << [call |-> "untrigger"] >>),
                    "click", e, None, ev.root, TRUE)

EventCall(x, c) ==
    CASE c.call = "end" -> End(x, c.ev)
      [] c.call = "native" -> NativeNext(x, c)
      [] c.call = "act" -> Act(x, c.ev)
      [] c.call = "capture" -> IF x.capturing THEN simulate(x, "focusin", x.evs[c.ev].target, c.ev, TRUE) ELSE x
      [] c.call = "focusin" -> Native(x, "focusin", x.evs[c.ev].target, None, x.evs[c.ev].root, TRUE)
      [] c.call = "dispatch" -> dispatch(x, c.ev, c.elem)
      [] c.call = "run" -> run(x, c)
      [] c.call = "handler" -> Handler(x, c)
      [] c.call = "post" -> Post(x, c.ev, c.elem)
      [] c.call = "bubble" -> bubble(x, c)
      [] c.call = "default" -> Default(x, c.ev, c.elem)
      [] c.call = "untrigger" -> [x EXCEPT !.triggered = "none"]

-----------------------------------------------------------------------------
\* A dispatch calls the handlers that were there when it began: the delegated ones
\* from the target up, then the others, each kind in the order of the additions.
\* It leaves out the rest only when the event was stopped.
AsBound(x) ==
    /\ \A n \in DOMAIN x.evs: IsPrefix(x.evs[n].ran, x.evs[n].wanted)
    /\ \A i \in DOMAIN x.js: x.js[i].kind = "rest" =>
           \A j \in DOMAIN x.js[i].calls:
               LET c == x.js[i].calls[j]
               IN  c.call = "post" /\ ~x.evs[c.ev].stopped => x.evs[c.ev].ran = x.evs[c.ev].wanted
\* Of one cause an element hears once, and the browser acts once.  A handler bound
\* with one runs once, unless the event comes again in a handler before it.
HeardOnce(x) == IsInjective(x.heard) /\ IsInjective(x.acted)
OnlyOnce(x) == \A i, j \in DOMAIN x.done: i < j /\ x.done[i] = x.done[j] => x.done[i] \in x.twice
=============================================================================
