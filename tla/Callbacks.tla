------------------------------ MODULE Callbacks ------------------------------
(***************************************************************************)
(* jQuery.Callbacks: a list of functions that is fired, as one record that *)
(* the operators named after its methods change.  A function of the list   *)
(* may call any of them while the list is firing, so that the loop of fire *)
(* is not here: it is a frame on the stack of the page (module Deferred).  *)
(*                                                                         *)
(*   options  a subset of Flags                                            *)
(*   list     the functions, each with the number of its addition, id      *)
(*   on       FALSE: list is undefined, the object does nothing any more   *)
(*   repeats  FALSE: stack is undefined, it fires once at most             *)
(*   queue    stack, the firings asked for by functions of the list        *)
(*   index, length, start  as firingIndex, firingLength and firingStart    *)
(*   called   history: the additions called since the last firing          *)
(*   cleared  history: it was emptied while it was firing                  *)
(***************************************************************************)
EXTENDS Integers, Sequences, FiniteSets, SequencesExt

NoData == 0
Flags == {"once", "memory", "unique", "stopOnFalse"}

NewCallbacks(options) ==
    [options |-> options, list |-> <<>>, on |-> TRUE, repeats |-> "once" \notin options, queue |-> <<>>,
     firing |-> FALSE, fired |-> FALSE, memory |-> NoData, index |-> 0, length |-> 0, start |-> 0,
     count |-> 0, called |-> <<>>, cleared |-> FALSE]

Has(c, fn) == \E i \in DOMAIN c.list: c.list[i].fn = fn

\* The head of fire.  index is the one before the first call: the loop adds 1.
fire(c, data) ==
    [c EXCEPT !.memory = IF "memory" \in c.options THEN data ELSE NoData, !.fired = TRUE,
              !.index = c.start - 1, !.start = 0, !.length = Len(c.list), !.firing = TRUE]

\* add: to the batch that is firing, or called right away with what is
\* remembered.  The caller pushes the frame if the list starts to fire.
push(c, f) == IF "unique" \in c.options /\ Has(c, f.fn) THEN c
              ELSE [c EXCEPT !.list = Append(@, [fn |-> f.fn, does |-> f, id |-> c.count + 1]), !.count = @ + 1]
add(c, f) ==
    LET d == push(c, f)
    IN  CASE ~c.on -> c
          [] c.on /\ c.firing -> [d EXCEPT !.length = Len(d.list)]
          [] c.on /\ ~c.firing /\ c.memory # NoData -> fire([d EXCEPT !.start = Len(c.list)], c.memory)
          [] OTHER -> d

\* remove: every occurrence of fn.  In a firing the two indexes, which count from
\* 0, go down by one for each that was not behind them.
Kept(c, fn) == {i \in DOMAIN c.list: c.list[i].fn # fn}
Nth(K, n) == CHOOSE i \in K: Cardinality({k \in K: k <= i}) = n
Without(c, fn) == [n \in 1..Cardinality(Kept(c, fn)) |-> c.list[Nth(Kept(c, fn), n)]]
Down(c, fn, n) == IF c.firing THEN n - Cardinality({i \in DOMAIN c.list \ Kept(c, fn): i - 1 <= n}) ELSE n

\* Mutant of remove: the loop does not notice that a function before the one it
\* calls now is gone.
removeForgotten(c, fn) == IF c.on THEN [c EXCEPT !.list = Without(c, fn), !.length = Down(c, fn, @)] ELSE c

remove(c, fn) ==
    IF c.on THEN [c EXCEPT !.list = Without(c, fn), !.length = Down(c, fn, @), !.index = Down(c, fn, @)] ELSE c

\* empty brings a disabled object back, and leaves firingIndex where it is: what
\* is added in the same firing is not called in it.
empty(c) == [c EXCEPT !.list = <<>>, !.on = TRUE, !.length = 0, !.cleared = @ \/ c.firing]
disable(c) == [c EXCEPT !.list = <<>>, !.on = FALSE, !.repeats = FALSE, !.queue = <<>>, !.memory = NoData]
lock(c) == IF c.memory = NoData THEN disable(c) ELSE [c EXCEPT !.repeats = FALSE, !.queue = <<>>]

\* fireWith: while the list is firing the call waits for the end of the loop.
Fires(c) == c.on /\ (~c.fired \/ c.repeats)
FireAll(c, data) == [fire(c, data) EXCEPT !.called = <<>>, !.cleared = FALSE]
fireWith(c, data) == CASE ~Fires(c) -> c
                       [] Fires(c) /\ c.firing -> [c EXCEPT !.queue = Append(@, data)]
                       [] Fires(c) /\ ~c.firing -> FireAll(c, data)

\* The loop of fire: another function to call, and what follows the last one or
\* one that returned false.
More(c) == c.on /\ c.index + 1 < c.length
Finished(c) ==
    LET d == [c EXCEPT !.firing = FALSE]
    IN  CASE ~c.on -> d
          [] c.on /\ c.repeats -> IF c.queue = <<>> THEN d ELSE FireAll([d EXCEPT !.queue = Tail(@)], Head(c.queue))
          [] c.on /\ ~c.repeats /\ c.memory # NoData -> [d EXCEPT !.list = <<>>]
          [] OTHER -> disable(d)

-----------------------------------------------------------------------------
\* The functions up to the one that is called now have been called, those after
\* it have not: nobody is left out or called twice, whatever is added or removed
\* by the functions themselves.  A list with a memory has called everybody.
CalledIds(c) == {c.called[i]: i \in DOMAIN c.called}
InTurn(c) ==
    /\ IsInjective(c.called)
    /\ c.on /\ c.firing /\ ~c.cleared => \A i \in DOMAIN c.list: c.list[i].id \in CalledIds(c) <=> i - 1 <= c.index
    /\ c.on /\ ~c.firing /\ c.memory # NoData /\ ~c.cleared => \A i \in DOMAIN c.list: c.list[i].id \in CalledIds(c)
=============================================================================
