------------------------------ MODULE Deferred ------------------------------
(***************************************************************************)
(* jQuery.Deferred and jQuery.when on top of Callbacks, with the call      *)
(* stack of the page.  js is what the scripts of the page share:           *)
(*                                                                         *)
(*   lists      the Callbacks objects, by <<owner, name>>                  *)
(*   states     "none", "pending", "resolved" or "rejected"                *)
(*   remaining  of the masters that when made, and for which promises      *)
(*   waits      they were made                                             *)
(*   follows    history: <<promise, returns>> of a promise that then made  *)
(*   stack      the functions that are running, the innermost one last     *)
(*   threw      lists that an exception left in the middle of a firing     *)
(*                                                                         *)
(* A frame is the loop of a firing (kind "fire"), a function of the page   *)
(* (kind "page"), or the rest of a function of jQuery as the calls it has  *)
(* still to make (kind "rest").  Step makes one turn of the innermost      *)
(* frame; a function of the page calls what it likes and returns.          *)
(***************************************************************************)
EXTENDS Callbacks

Names == <<"done", "fail", "progress">>
Outcomes == [done |-> "resolved", fail |-> "rejected"]

Push(js, frame) == [js EXCEPT !.stack = Append(@, frame)]
Pop(js) == [js EXCEPT !.stack = Front(@)]
Top(js) == Last(js.stack)
Rest(js, calls) == IF calls = <<>> THEN js ELSE Push(js, [kind |-> "rest", calls |-> calls])

\* A call of add or fireWith may start the loop of the list.
Loop(js, l, c, data) ==
    LET y == [js EXCEPT !.lists[l] = c]
    IN  IF c.firing /\ ~js.lists[l].firing THEN Push(y, [kind |-> "fire", list |-> l, data |-> data]) ELSE y
Add(js, l, f) == Loop(js, l, add(js.lists[l], f), js.lists[l].memory)
FireWith(js, l, data) == Loop(js, l, fireWith(js.lists[l], data), data)

-----------------------------------------------------------------------------
\* The functions jQuery itself puts into the lists: fn tells them apart, does
\* what they do.

Settles(d, name) == [fn |-> "state", kind |-> "state", deferred |-> d, to |-> Outcomes[name]]
Disables(l) == [fn |-> "disable", kind |-> "disable", list |-> l]
Locks(l) == [fn |-> "lock", kind |-> "lock", list |-> l]
Forwards(l) == [fn |-> "fireWith", kind |-> "fireWith", list |-> l]
Chains(d, name, returns) == [fn |-> "then", kind |-> "then", deferred |-> d, name |-> name, returns |-> returns]
Updates(m, name) == [fn |-> "update", kind |-> "update", deferred |-> m, name |-> name]
Calls(fn) == [fn |-> fn, kind |-> "page"]
Does(what) == [fn |-> "jQuery", kind |-> "call", what |-> what]

\* Mutant of NewList: the list of the other outcome is left alone.
NewListOpen(d, name) ==
    IF name = "progress" THEN NewCallbacks({"memory"})
    ELSE add(add(NewCallbacks({"once", "memory"}), Settles(d, name)), Locks(<<d, "progress">>))

\* jQuery.Deferred: the lists of d with the functions it begins with.
Other(name) == IF name = "done" THEN "fail" ELSE "done"
NewList(d, name) ==
    IF name = "progress" THEN NewCallbacks({"memory"})
    ELSE add(add(add(NewCallbacks({"once", "memory"}), Settles(d, name)), Disables(<<d, Other(name)>>)),
             Locks(<<d, "progress">>))
NewDeferred(js, d) ==
    [js EXCEPT !.states[d] = "pending", !.lists[<<d, "done">>] = NewList(d, "done"),
               !.lists[<<d, "fail">>] = NewList(d, "fail"), !.lists[<<d, "progress">>] = NewList(d, "progress")]

\* then: returns is 0 without functions, otherwise what fnDone and fnFail return:
\* -1 for a value, or the deferred whose promise it is.
then(js, d, new, returns) ==
    Rest([NewDeferred(js, new) EXCEPT !.follows[new] = <<d, returns>>],
         [i \in 1..3 |-> [call |-> "add", list |-> <<d, Names[i]>>, 
                      f |-> Chains(new, Names[i], IF Names[i] = "progress" THEN 0 ELSE returns)]])

\* always of a promise, and when of two of them.
always(d, f) == << [call |-> "add", list |-> <<d, "done">>, f |-> f],
                   [call |-> "add", list |-> <<d, "fail">>, f |-> f] >>
Listens(m, subs) ==
    LET f(name) == IF name = "fail" THEN Forwards(<<m, "fail">>) ELSE Updates(m, name)
    IN  [i \in 1..(3 * Len(subs)) |-> LET name == Names[((i - 1) % 3) + 1]
                                      IN  [call |-> "add", list |-> <<subs[((i - 1) \div 3) + 1], name>>, f |-> f(name)]]
\* Mutant of when: the counter of the promises is one short.
whenEarly(js, m, subs) ==
    Rest([NewDeferred(js, m) EXCEPT !.remaining[m] = Len(subs) - 1, !.waits[m] = ToSet(subs)], Listens(m, subs))

when(js, m, subs) ==
    Rest([NewDeferred(js, m) EXCEPT !.remaining[m] = Len(subs), !.waits[m] = ToSet(subs)], Listens(m, subs))

\* A function of a list is called with data.
Adopt(js, p, new) ==
    Rest(js, [i \in 1..3 |-> [call |-> "add", list |-> <<p, Names[i]>>, f |-> Forwards(<<new, Names[i]>>)]])
Update(js, f, data) ==
    LET m == f.deferred
        y == [js EXCEPT !.remaining[m] = @ - 1]
    IN  CASE f.name = "progress" -> FireWith(js, <<m, "progress">>, data)
          [] f.name = "done" -> IF y.remaining[m] = 0 THEN FireWith(y, <<m, "done">>, data) ELSE y
Invoke(js, f, data) ==
    CASE f.kind = "state" -> [js EXCEPT !.states[f.deferred] = f.to]
      [] f.kind = "disable" -> [js EXCEPT !.lists[f.list] = disable(@)]
      [] f.kind = "lock" -> [js EXCEPT !.lists[f.list] = lock(@)]
      [] f.kind = "fireWith" -> FireWith(js, f.list, data)
      [] f.kind = "then" -> IF f.returns = 0 THEN FireWith(js, <<f.deferred, f.name>>, data)
                            ELSE Push(Rest(js, << [call |-> "chain", f |-> f, data |-> data] >>),
                                      [kind |-> "page", fn |-> "then"])
      [] f.kind = "update" -> Update(js, f, data)
      [] f.kind = "page" -> Push(js, [kind |-> "page", fn |-> f.fn])
      [] f.kind = "call" -> Rest(js, <<f.what>>)

\* A call that a function of jQuery still has to make.
Call(js, c) ==
    CASE c.call = "add" -> Add(js, c.list, c.f)
      [] c.call = "fireWith" -> FireWith(js, c.list, c.data)
      [] c.call = "chain" -> IF c.f.returns > 0 THEN Adopt(js, c.f.returns, c.f.deferred)
                             ELSE FireWith(js, <<c.f.deferred, c.f.name>>, c.data)

-----------------------------------------------------------------------------
\* One turn of the loop of a list, with the next data if it fires again.
Continue(js, l, c) ==
    LET y == [js EXCEPT !.lists[l] = c]
    IN  IF c.firing THEN Push(Pop(y), [kind |-> "fire", list |-> l, data |-> Head(js.lists[l].queue)]) ELSE Pop(y)
Turn(js) ==
    LET l == Top(js).list
        c == js.lists[l]
        n == c.index + 1
        f == c.list[n + 1]
    IN  IF More(c)
        THEN Invoke([js EXCEPT !.lists[l].index = n, !.lists[l].called = Append(@, f.id)], f.does, Top(js).data)
        ELSE Continue(js, l, Finished(c))

\* A function of the page returns, false or something else, or throws: an
\* exception ends everything that is running.
Return(js, false) ==
    LET y == Pop(js)
        l == Top(y).list
    IN  IF false /\ y.stack # <<>> /\ Top(y).kind = "fire" /\ "stopOnFalse" \in y.lists[l].options
        THEN Continue(y, l, Finished([y.lists[l] EXCEPT !.memory = NoData])) ELSE y
Throw(js) ==
    [js EXCEPT !.stack = <<>>,
               !.threw = @ \cup {js.stack[i].list: i \in {j \in DOMAIN js.stack: js.stack[j].kind = "fire"}}]

-----------------------------------------------------------------------------
\* Nobody is called for the outcome that did not happen, or twice.  A function
\* that was added to the list of the outcome has been called when no script is
\* running, in the order of the additions, however they came about; an exception
\* in a function leaves the others of its firing out.
PromiseKept(js, d) ==
    LET done == js.lists[<<d, "done">>]
        fail == js.lists[<<d, "fail">>]
        called(c) == c.called = [i \in 1..c.count |-> i]
    IN  /\ done.called = <<>> \/ fail.called = <<>>
        /\ js.stack = <<>> /\ js.states[d] = "resolved" /\ <<d, "done">> \notin js.threw => called(done)
        /\ js.stack = <<>> /\ js.states[d] = "rejected" /\ <<d, "fail">> \notin js.threw => called(fail)

\* The master of when is resolved when all are and rejected when one is; the
\* promise of then has the outcome of the one before, or of the one returned.
MasterAgrees(js, m) ==
    js.waits[m] # {} =>
        js.states[m] = CASE \E d \in js.waits[m]: js.states[d] = "rejected" -> "rejected"
                         [] \A d \in js.waits[m]: js.states[d] = "resolved" -> "resolved"
                         [] OTHER -> "pending"
FollowerAgrees(js, d) ==
    js.follows[d] # <<>> =>
        LET of == js.follows[d][1]
            returns == js.follows[d][2]
        IN  js.states[d] = js.states[IF js.states[of] # "pending" /\ returns > 0 THEN returns ELSE of]
=============================================================================
