------------------------------ MODULE DomReady ------------------------------
(***************************************************************************)
(* jQuery(fn): functions that wait for the document, and holds that make   *)
(* them wait longer.  Of the page x this module reads and changes ready:   *)
(*   state    of the document: "loading", "interactive", "complete"        *)
(*   body     it has a body                                                *)
(*   ie       the browser has no addEventListener                          *)
(*   scrolls  and can be asked whether it would scroll                     *)
(*   listens, asks  completed is bound; doScrollCheck will run again       *)
(*   retries  the timeouts that call jQuery.ready                          *)
(*   is, wait jQuery.isReady and jQuery.readyWait                          *)
(*   fns, fires, done   readyList: what it still calls, whether it is      *)
(*            calling, whether it is resolved                              *)
(*   held     history: the holds that were not released                    *)
(*   asked, called   history: the functions that were given and those that *)
(*            were called                                                  *)
(*   early    history: the list was resolved too early                     *)
(*   over     history: more was released than held                         *)
(***************************************************************************)
EXTENDS EventFlow

\* readyList calls its functions one after the other, those included that are
\* added in the meantime; once resolved, at once.
NextReady(x) ==
    LET y == [x EXCEPT !.ready.fns = Tail(@), !.ready.called = Append(@, Head(x.ready.fns))]
    IN  IF x.ready.fns = << >> THEN [x EXCEPT !.ready.fires = FALSE]
        ELSE Push(Calling(y, << [call |-> "nextReady"] >>), [kind |-> "page", fn |-> "ready", elem |-> 0, ev |-> 0])
fireReady(x) == IF x.ready.fires THEN x
                ELSE Calling([x EXCEPT !.ready.fires = TRUE], << [call |-> "nextReady"] >>)
fnReady(x) ==
    LET f == x.ready.asked + 1
        y == [x EXCEPT !.ready.asked = f, !.ready.fns = Append(@, f)]
    IN  IF x.ready.done THEN fireReady(y) ELSE y

resolveReady(x) ==
    LET early == x.ready.state = "loading" \/ x.ready.held > 0
    IN  fireReady([Calling(x, << [call |-> "triggerReady"], [call |-> "offReady"] >>) EXCEPT
                      !.ready.done = TRUE, !.ready.early = @ \/ (early /\ ~x.ready.done)])

\* Mutant of ready: a hold does not count once the document is there.
readyUnheld(x, wait) ==
    LET left == IF wait THEN x.ready.wait - 1 ELSE x.ready.wait
        y == [x EXCEPT !.ready.wait = left]
    IN  IF (wait /\ left # 0) \/ (~wait /\ x.ready.is) THEN y
        ELSE IF ~x.ready.body THEN [y EXCEPT !.ready.retries = @ + 1]
        ELSE resolveReady([y EXCEPT !.ready.is = TRUE])

\* jQuery.ready: with wait a hold is released, without it the document is there.
\* The first of them counts as one hold more.  Without a body it tries again.
ready(x, wait) ==
    LET left == IF wait THEN x.ready.wait - 1 ELSE x.ready.wait
        y == [x EXCEPT !.ready.wait = left]
        z == [y EXCEPT !.ready.is = TRUE, !.ready.wait = IF wait THEN @ ELSE @ - 1]
    IN  IF (wait /\ left # 0) \/ (~wait /\ x.ready.is) THEN y
        ELSE IF ~x.ready.body THEN [y EXCEPT !.ready.retries = @ + 1]
        ELSE IF ~wait /\ z.ready.wait > 0 THEN z
        ELSE resolveReady(z)

holdReady(x, hold) ==
    LET y == [x EXCEPT !.ready.held = IF hold THEN @ + 1 ELSE @ - 1,
                       !.ready.over = @ \/ (~hold /\ x.ready.held = 0)]
    IN  IF hold THEN [y EXCEPT !.ready.wait = @ + 1] ELSE ready(y, TRUE)

-----------------------------------------------------------------------------
\* How jQuery hears of the document: nothing to wait for; an event; or, in old
\* browsers, by asking again and again.
detach(x) == [x EXCEPT !.ready.listens = FALSE]
completed(x, event) ==
    IF x.ready.listens /\ (~x.ready.ie \/ event = "load" \/ x.ready.state = "complete")
    THEN ready(detach(x), FALSE) ELSE x
doScrollCheck(x) ==
    CASE x.ready.is -> x
      [] ~x.ready.is /\ x.ready.state = "loading" -> [x EXCEPT !.ready.asks = TRUE]
      [] ~x.ready.is /\ x.ready.state # "loading" -> ready(detach(x), FALSE)
readyPromise(x) ==
    CASE x.ready.state = "complete" -> [x EXCEPT !.ready.retries = @ + 1]
      [] x.ready.state # "complete" /\ ~(x.ready.ie /\ x.ready.scrolls) -> [x EXCEPT !.ready.listens = TRUE]
      [] x.ready.state # "complete" /\ x.ready.ie /\ x.ready.scrolls -> doScrollCheck([x EXCEPT !.ready.listens = TRUE])

\* The timeouts of jQuery, and the document that goes on.
Retry(x) == ready([x EXCEPT !.ready.retries = @ - 1], FALSE)
AskAgain(x) == doScrollCheck([x EXCEPT !.ready.asks = FALSE])
Parsed(x) == LET y == [x EXCEPT !.ready.state = "interactive", !.ready.body = TRUE]
             IN  completed(y, IF x.ready.ie THEN "readystatechange" ELSE "DOMContentLoaded")
Loaded(x) == LET y == [x EXCEPT !.ready.state = "complete"]
                 z == Calling(y, << [call |-> "load"] >>)
             IN  IF x.ready.ie THEN completed(z, "readystatechange") ELSE z

ReadyCall(x, c) ==
    CASE c.call = "nextReady" -> NextReady(x)
      [] c.call = "triggerReady" -> trigger(x, Document, "ready", {}, FALSE)
      [] c.call = "offReady" -> remove(x, Document, What("ready"))
      [] c.call = "load" -> completed(x, "load")

-----------------------------------------------------------------------------
\* Every function is called once, in the order given, and the first of them when
\* the document is there and nothing holds it, unless the page released more than
\* it held.
ReadyInTime(x) ==
    /\ \A i \in DOMAIN x.ready.called: x.ready.called[i] = i
    /\ ~x.ready.early \/ x.ready.over
=============================================================================
