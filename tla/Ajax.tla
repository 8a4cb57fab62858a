-------------------------------- MODULE Ajax --------------------------------
(***************************************************************************)
(* jQuery.ajax with its transports, its promises and the scripts of the    *)
(* page that use them, which may call anything from anywhere: from an      *)
(* event, from a callback, from a hook of a request or a global event.     *)
(*                                                                         *)
(* The page runs one script at a time: what is on the stack goes on before *)
(* anything else happens.  Request r is also the promise r of Deferred.    *)
(* Urls, headers and the data of a request are left out.                   *)
(***************************************************************************)
EXTENDS Deferred, AjaxTypes, FiniteSets

CONSTANTS Scenarios,  \* what the page has and does
          Promises    \* 1..n: the requests and the other promises

ASSUME PromisesAssumption == IsFiniteSet(Promises) /\ Promises = 1..Cardinality(Promises) /\ Promises # {}

\* The requests, the promises a scenario begins with and those it may still make.
ASSUME ScenariosAssumption ==
    \A s \in Scenarios: /\ DOMAIN s.opts \cup s.made \cup s.spare \subseteq Promises
                        /\ DOMAIN s.opts \cap (s.made \cup s.spare) = {}
                        /\ s.budget \in Nat /\ s.list \subseteq Flags

VARIABLES scenario,   \* opts: the options of the requests 1..Len(opts),
                      \* spare: promises without a request, hooks: where the
                      \* page has handlers, menu: what its scripts call,
                      \* budget and throws: how often, list: the options of a
                      \* Callbacks object, statuses, types: the answers
          js,         \* the promises and the stack, see Deferred
          req,        \* the jqXHR objects with their transports
          page        \* jQuery.active, the window, oldCallbacks and the rest

vars == <<scenario, js, req, page>>

Requests == DOMAIN scenario.opts
Opt(r) == scenario.opts[r]

\* state, fireGlobals, the transport and its net: "open" until the answer,
\* "cached" with the answer in a timer, "late" for a script that was aborted
\* and still runs.  answer: responseContainer, whose data it holds.
NewRequest == [started |-> FALSE, state |-> 0, fireGlobals |-> FALSE, refused |-> FALSE,
               transport |-> "none", net |-> "none", timer |-> FALSE, types |-> <<>>, name |-> 0,
               overwritten |-> 0, answer |-> 0, ok |-> FALSE, data |-> 0, twice |-> FALSE, silent |-> FALSE]

Init ==
    /\ scenario \in Scenarios
    /\ js = [lists |-> [l \in Promises \X {"done", "fail", "progress", "complete"} |->
                            IF l = <<1, "complete">> THEN NewCallbacks(scenario.list)
                            ELSE IF l[1] \in scenario.made /\ l[2] # "complete" THEN NewList(l[1], l[2])
                            ELSE NewCallbacks({"once", "memory"})],
             states |-> [d \in Promises |-> IF d \in scenario.made THEN "pending" ELSE "none"],
             remaining |-> [d \in Promises |-> 0], waits |-> [d \in Promises |-> {}],
             follows |-> [d \in Promises |-> <<>>], stack |-> <<>>, threw |-> {}]
    /\ req = [r \in Requests |-> NewRequest]
    /\ page = [active |-> 0, win |-> [n \in 0..Len(scenario.opts) |-> 0], free |-> <<>>, names |-> 0,
               events |-> <<>>, budget |-> scenario.budget, throws |-> scenario.throws, broken |-> FALSE]

Now == [js |-> js, req |-> req, page |-> page]
Become(x) == js' = x.js /\ req' = x.req /\ page' = x.page /\ UNCHANGED scenario
Calling(x, calls) == [x EXCEPT !.js = Rest(@, calls)]
Skip(x) == [x EXCEPT !.js = Pop(@)]

\* A handler of the page, where it has one.
Hook(x, at) == IF at \in scenario.hooks THEN [x EXCEPT !.js = Push(@, [kind |-> "page", fn |-> at])] ELSE x
trigger(x, event) ==
    Hook(IF event \in {"ajaxStart", "ajaxStop"} THEN [x EXCEPT !.page.events = Append(@, event)] ELSE x, event)

-----------------------------------------------------------------------------
\* done: the outcome is told to the promise, the handlers of the status, the
\* global events and the complete list, in this order.

\* The script of an answer calls the function of its name, if there is one.
Runs(x, r) == LET f == x.page.win[x.req[r].name]
              IN  IF x.req[r].name # 0 /\ f # 0 THEN [x EXCEPT !.req[f].answer = r] ELSE x

\* The converters of an answer: a script is run, the container of a jsonp request
\* must have been filled, and text may not parse.
Fails(x, r, results, good) ==
    \E i \in DOMAIN results: \/ results[i] = "none"
                             \/ results[i] = "container" /\ x.req[r].answer = 0
                             \/ results[i] \in {"parseJSON", "parseXML"} /\ ~good
isSuccess(status) == status \in 200..299 \/ status = 304

\* Mutant of done: it does not look whether it was called before.
doneAgain(x, r, status, responses, ct, good) ==
    Calling([x EXCEPT !.req[r].state = 2, !.req[r].timer = FALSE, !.req[r].transport = "none"],
            << [call |-> "fireWith", list |-> <<r, IF isSuccess(status) THEN "done" ELSE "fail">>, data |-> r],
               [call |-> "fireWith", list |-> <<r, "complete">>, data |-> r], [call |-> "finish", r |-> r] >>)

done(x, r, status, responses, ct, good) ==
    LET q == x.req[r]
        cs == Converters(q.name # 0)
        types == HandleResponses(q.types, ct, responses, cs)
        results == Convert(IF responses = <<>> THEN q.types ELSE types, cs)
        y == IF "globalEval" \in ToSet(results) THEN Runs(x, r) ELSE x
        ok == isSuccess(status) /\ (status \in {204, 304} \/ ~Fails(y, r, results, good))
        data == IF ~ok \/ status \in {204, 304} THEN 0
                ELSE IF "container" \in ToSet(results) THEN y.req[r].answer ELSE r
    IN  IF q.state = 2 THEN x
        ELSE Calling([y EXCEPT !.req[r] = [@ EXCEPT !.state = 2, !.timer = FALSE, !.transport = "none", !.ok = ok,
                                                    !.data = data]],
                     << [call |-> "fireWith", list |-> <<r, IF ok THEN "done" ELSE "fail">>, data |-> r],
                        [call |-> "statusCode", r |-> r],
                        [call |-> "global", r |-> r, event |-> IF ok THEN "ajaxSuccess" ELSE "ajaxError"],
                        [call |-> "fireWith", list |-> <<r, "complete">>, data |-> r],
                        [call |-> "global", r |-> r, event |-> "ajaxComplete"],
                        [call |-> "finish", r |-> r] >>)
Nothing(x, r, status) == done(x, r, status, <<>>, "none", FALSE)

\* abort of the jqXHR: first of the transport, then done.
Aborted(x, r) ==
    LET q == x.req[r]
    IN  CASE q.transport = "xhr" -> [x EXCEPT !.req[r].net = "none"]
          [] q.transport = "script" -> [x EXCEPT !.req[r].net = IF @ = "open" THEN "late" ELSE @]
          [] OTHER -> x
abort(x, r) == Nothing(Aborted(x, r), r, 0)

\* The end of done.
Finish(x, r) ==
    IF ~x.req[r].fireGlobals THEN x
    ELSE LET y == [x EXCEPT !.page.active = @ - 1]
         IN  IF y.page.active = 0 THEN trigger(y, "ajaxStop") ELSE y

-----------------------------------------------------------------------------
\* ajax, as the calls it makes one after the other.

ajax(x, r) ==
    LET made == [x EXCEPT !.js = NewDeferred(@, r), !.req[r].started = TRUE, !.req[r].types = Opt(r).types]
    IN  Calling(made, [i \in 1..7 |->
            [call |-> <<"prefilter", "begin", "beforeSend", "check", "install", "ajaxSend", "send">>[i], r |-> r]])

\* Mutant of jsonpCallback: the name stays free.
jsonpCallbackKept(x, r) ==
    CASE Opt(r).name = "fixed" -> [x EXCEPT !.req[r].name = Len(scenario.opts)]
      [] Opt(r).name # "fixed" /\ x.page.free # <<>> -> [x EXCEPT !.req[r].name = Last(x.page.free)]
      [] OTHER -> [x EXCEPT !.req[r].name = x.page.names + 1, !.page.names = @ + 1,
                            !.page.free = Append(@, x.page.names + 1)]

\* jsonpCallback: a name that is free or a new one, or the one of the caller.
jsonpCallback(x, r) ==
    CASE Opt(r).name = "fixed" -> [x EXCEPT !.req[r].name = Len(scenario.opts)]
      [] Opt(r).name # "fixed" /\ x.page.free # <<>> ->
             [x EXCEPT !.req[r].name = Last(x.page.free), !.page.free = Front(@)]
      [] OTHER -> [x EXCEPT !.req[r].name = x.page.names + 1, !.page.names = @ + 1]

\* The prefilter of jsonp puts its function into the window, and back what was
\* there before anybody else hears of the outcome.
Jsonp(x, r) ==
    LET y == jsonpCallback(x, r)
        n == y.req[r].name
    IN  [Calling(y, always(r, Does([call |-> "cleanup", r |-> r])))
         EXCEPT !.req[r].overwritten = y.page.win[n], !.page.win[n] = r]
Cleanup(x, r) ==
    LET q == x.req[r]
        y == [x EXCEPT !.page.win[q.name] = q.overwritten, !.req[r].answer = 0, !.req[r].overwritten = 0,
                       !.page.free = IF Opt(r).name = "fixed" THEN @ ELSE Append(@, q.name)]
    IN  IF q.answer # 0 /\ q.overwritten # 0 THEN [y EXCEPT !.req[q.overwritten].answer = q.answer] ELSE y

\* The prefilters; the one of script turns the global events of another domain off.
Prefilter(x, r) ==
    LET types == PrefilterTypes(Opt(r).types, Opt(r).question)
        y == IF IsJsonp(Opt(r).types, Opt(r).question) THEN Jsonp(x, r) ELSE x
    IN  Hook([y EXCEPT !.req[r].types = types], "prefilter")
global(r) == Opt(r).global /\ ~(req[r].types[1] = "script" /\ Opt(r).crossDomain)

\* A request that was aborted in a prefilter stops there.
Begin(x, r) ==
    IF x.req[r].state = 2 THEN Skip(x)
    ELSE IF ~global(r) THEN x
    ELSE LET y == [x EXCEPT !.req[r].fireGlobals = TRUE, !.page.active = @ + 1]
         IN  IF x.page.active = 0 THEN trigger(y, "ajaxStart") ELSE y

\* After beforeSend, which may have said no or aborted.  Without that hook nobody
\* asks: a request that a handler of ajaxStart aborted goes on to be sent.
Check(x, r) ==
    IF "beforeSend" \in scenario.hooks /\ (x.req[r].refused \/ x.req[r].state = 2)
    THEN abort(Skip(x), r) ELSE x

\* The callbacks of the options and the transport.
Install(x, r) ==
    LET t == TransportOf(x.req[r].types, Opt(r).crossDomain, Opt(r).cors)
        y == IF t = "none" THEN Nothing(Skip(x), r, -1) ELSE x
    IN  Calling([y EXCEPT !.req[r].transport = t],
                [i \in 1..3 |-> [call |-> "own", r |-> r, name |-> <<"done", "fail", "complete">>[i]]])

\* Mutant of Send: no timer for the transport of scripts.
SendUntimed(x, r, throws) ==
    [x EXCEPT !.req[r].state = 1, !.req[r].net = IF x.req[r].transport = "script" THEN "open" ELSE Opt(r).net]

\* The timer and send.  A transport that a handler of ajaxSend gave up is not
\* there any more: the exception is taken for one of the transport, and done
\* runs again.  So it does for a request aborted before that nobody stopped.
Send(x, r, throws) ==
    LET q == x.req[r]
        y == [x EXCEPT !.req[r].state = 1, !.req[r].timer = Opt(r).timeout /\ Opt(r).net # "sync",
                       !.req[r].twice = q.state = 2]
    IN  IF q.transport = "none" \/ throws THEN Nothing(y, r, -1)
        ELSE [y EXCEPT !.req[r].net = CASE q.transport = "script" -> "open"
                                        [] OTHER -> Opt(r).net]

-----------------------------------------------------------------------------
\* The scripts of the page.

PageRuns == js.stack # <<>> /\ Top(js).kind = "page"
Idle == js.stack = <<>>
User == (Idle \/ PageRuns) /\ page.budget > 0
Spend(x) == Become([x EXCEPT !.page.budget = @ - 1])
On(kind) == User /\ kind \in scenario.menu

UserAjax == /\ On("ajax")
            /\ \E r \in Requests: ~req[r].started /\ (\A p \in 1..(r - 1): req[p].started) /\ Spend(ajax(Now, r))
UserAborts == /\ On("abort")
              /\ \E r \in Requests: req[r].started /\ Spend(abort(Now, r))
\* success, error, done, fail and always of a promise or a jqXHR.
UserAdds == /\ On("add")
            /\ \E d \in Promises, name \in {"done", "fail"}:
                   js.states[d] # "none" /\ Spend([Now EXCEPT !.js = Add(@, <<d, name>>, Calls(name))])
UserSettles == /\ On("settle")
               /\ \E d \in scenario.made, name \in {"done", "fail", "progress"}:
                      Spend([Now EXCEPT !.js = FireWith(@, <<d, name>>, page.budget)])
Spare == {d \in scenario.spare: js.states[d] = "none"}
UserThens == /\ On("then") /\ Spare # {}
             /\ LET new == CHOOSE d \in Spare: \A e \in Spare: d <= e
                IN  \E d \in Promises: /\ js.states[d] # "none"
                                       /\ \E returns \in {0, -1} \cup (scenario.made \ {d}):
                                              Spend([Now EXCEPT !.js = then(@, d, new, returns)])
UserWhens == /\ On("when") /\ Spare # {}
             /\ LET new == CHOOSE d \in Spare: \A e \in Spare: d <= e
                IN  Spend([Now EXCEPT !.js = when(@, new, SetToSeq(scenario.made))])
\* The methods of a Callbacks object.
UserLists ==
    /\ On("list")
    /\ LET l == <<1, "complete">>
           becomes(c) == [Now EXCEPT !.js.lists[l] = c]
       IN  \/ \E fn \in {"f", "g"}: \/ Spend([Now EXCEPT !.js = Add(@, l, Calls(fn))])
                                    \/ Spend(becomes(remove(js.lists[l], fn)))
           \/ Spend([Now EXCEPT !.js = FireWith(@, l, page.budget)])
           \/ Spend(becomes(empty(js.lists[l])))
           \/ Spend(becomes(disable(js.lists[l])))
           \/ Spend(becomes(lock(js.lists[l])))

\* A function of the page ends.  The false of beforeSend is looked at by ajax.
PageReturns ==
    /\ PageRuns
    /\ LET x == [Now EXCEPT !.js = Return(@, FALSE)]
           below == Pop(js).stack
           asked == below # <<>> /\ Last(below).kind = "rest" /\ Top(js).fn = "beforeSend"
       IN  \/ Become(x)
           \/ asked /\ Become([x EXCEPT !.req[Last(below).calls[1].r].refused = TRUE])
           \/ "list" \in scenario.menu /\ Become([Now EXCEPT !.js = Return(@, TRUE)])
PageThrows ==
    /\ PageRuns /\ page.throws > 0
    /\ Become([Now EXCEPT !.js = Throw(@), !.page.throws = @ - 1, !.page.broken = TRUE])

\* One turn of a loop, and the next call of a function of jQuery.
Does1(x, c) ==
    CASE c.call = "prefilter" -> Prefilter(x, c.r)
      [] c.call = "begin" -> Begin(x, c.r)
      [] c.call = "beforeSend" -> Hook(x, "beforeSend")
      [] c.call = "check" -> Check(x, c.r)
      [] c.call = "install" -> Install(x, c.r)
      [] c.call = "own" ->
             IF c.name \in scenario.hooks THEN [x EXCEPT !.js = Add(@, <<c.r, c.name>>, Calls(c.name))] ELSE x
      [] c.call = "ajaxSend" -> IF x.req[c.r].fireGlobals THEN trigger(x, "ajaxSend") ELSE x
      [] c.call = "statusCode" ->
             IF "statusCode" \in scenario.hooks /\ ~x.req[c.r].twice THEN Calling(x, always(c.r, Calls("statusCode"))) ELSE x
      [] c.call = "global" -> IF x.req[c.r].fireGlobals THEN trigger(x, c.event) ELSE x
      [] c.call = "cleanup" -> Cleanup(x, c.r)
      [] c.call = "finish" -> Finish(x, c.r)
      [] OTHER -> [x EXCEPT !.js = Call(@, c)]
LoopTurns == /\ js.stack # <<>> /\ Top(js).kind = "fire" /\ Become([Now EXCEPT !.js = Turn(@)])
Next1 == Head(Top(js).calls)
Rested == LET y == Pop(js) IN IF Len(Top(js).calls) = 1 THEN y ELSE Rest(y, Tail(Top(js).calls))
RestCalls == /\ js.stack # <<>> /\ Top(js).kind = "rest" /\ Next1.call # "send"
             /\ Become(Does1([Now EXCEPT !.js = Rested], Next1))
SendCalls == /\ js.stack # <<>> /\ Top(js).kind = "rest" /\ Next1.call = "send"
             /\ \E throws \in BOOLEAN: Become(Send([Now EXCEPT !.js = Rested], Next1.r, throws))

-----------------------------------------------------------------------------
\* The network and the timers; a synchronous answer comes at once.

Sync == {r \in Requests: req[r].net = "sync"}
XhrAnswers ==
    /\ Idle \/ Sync # {}
    /\ \E r \in Requests:
        /\ req[r].net \in {"open", "cached", "sync"} /\ req[r].transport = "xhr"
        /\ Sync # {} => r \in Sync
        /\ \E status \in scenario.statuses, ct \in scenario.types, good \in BOOLEAN:
               Become(done([Now EXCEPT !.req[r].net = "none"], r, status, <<"text">>, ct, good))
\* A script that is loaded runs and tells so; one that was aborted only runs.
ScriptLoads == /\ Idle
               /\ \E r \in Requests:
                    /\ req[r].net = "open" /\ req[r].transport = "script"
                    /\ \E calls \in BOOLEAN:
                        LET x == IF calls THEN Runs(Now, r) ELSE [Now EXCEPT !.req[r].silent = TRUE]
                        IN  Become(done([x EXCEPT !.req[r].net = "none"], r, 200, <<>>, "none", TRUE))
LateScript == /\ Idle
              /\ \E r \in Requests: req[r].net = "late" /\ Become(Runs([Now EXCEPT !.req[r].net = "none"], r))
TimeoutFires == /\ Idle
                /\ \E r \in Requests: req[r].timer /\ Become(abort([Now EXCEPT !.req[r].timer = FALSE], r))

-----------------------------------------------------------------------------
Script == LoopTurns \/ RestCalls \/ SendCalls
UserNext == UserAjax \/ UserAborts \/ UserAdds \/ UserSettles \/ UserThens \/ UserWhens \/ UserLists
PageEnds == PageReturns \/ PageThrows
Network == XhrAnswers \/ ScriptLoads \/ LateScript \/ TimeoutFires
Next == (Sync = {} /\ (Script \/ UserNext \/ PageEnds)) \/ Network

\* The page runs what is on its stack, its functions end, and timers fire.
Running == (Sync = {} /\ (Script \/ PageReturns)) \/ (Sync # {} /\ XhrAnswers)
Fairness == WF_vars(Running) /\ WF_vars(TimeoutFires)
Spec == Init /\ [][Next]_vars /\ Fairness
-----------------------------------------------------------------------------
\* Every function of a list is called in its turn and once, whatever the others
\* add, remove and fire, also after one of them threw.
EveryoneInTurn == \A l \in DOMAIN js.lists: InTurn(js.lists[l])

\* A promise calls for one outcome, and whoever was added for it has been called.
OneOutcome == \A d \in Promises: js.states[d] # "none" => PromiseKept(js, d)

\* Both, as whoever adds a function relies on it: it is called in its turn, once,
\* for the outcome it was added for and for no other.
EveryoneCalled == EveryoneInTurn /\ OneOutcome

\* Promises made of others agree with them whenever no script is running.
PromisesAgree ==
    Idle /\ js.threw = {} => \A d \in Promises: MasterAgrees(js, d) /\ FollowerAgrees(js, d)

\* A request that is done has told so to everybody and left nothing running,
\* ajaxStart and ajaxStop come in turn, and jQuery.active is the number of requests
\* on their way, less one for each that ends twice: one that is aborted in a handler
\* of ajaxSend, or of ajaxStart where no beforeSend looks.  Nothing else can bring
\* that about.  Only an exception in a handler leaves active wrong in other ways.
OnTheNet == {r \in Requests: req[r].fireGlobals /\ req[r].state = 1}
EndingTwice == {r \in Requests: req[r].twice}
ActiveCounts ==
    Idle /\ ~page.broken =>
        /\ \A r \in Requests: req[r].state = 2 =>
               /\ ~req[r].timer /\ req[r].transport = "none" /\ req[r].net \in {"none", "late"}
               /\ js.states[r] # "pending" /\ js.lists[<<r, "complete">>].list = <<>>
        /\ page.active = Cardinality(OnTheNet) - Cardinality(EndingTwice)
        /\ \A i \in DOMAIN page.events: page.events[i] = <<"ajaxStop", "ajaxStart">>[(i % 2) + 1]
        /\ page.active > 0 <=> Len(page.events) % 2 = 1
        /\ \/ EndingTwice = {} \/ "ajaxSend" \in scenario.hooks
           \/ "ajaxStart" \in scenario.hooks /\ "beforeSend" \notin scenario.hooks

\* A request succeeds with its own data, whatever the scripts of the aborted ones
\* that had its name call.  Callers that fix the name share the function, and a
\* script that calls nothing leaves the data of another one in place.
OwnAnswer ==
    \A r \in Requests: req[r].data # 0 /\ Opt(r).name # "fixed" /\ ~req[r].silent => req[r].data = r

\* Requests with a timeout come to an end, unless a handler throws.
OnTheirWay == {r \in Requests: req[r].started /\ Opt(r).timeout /\ req[r].state # 2}
EveryRequestEnds == OnTheirWay # {} ~> (OnTheirWay = {} \/ page.broken)
=============================================================================
