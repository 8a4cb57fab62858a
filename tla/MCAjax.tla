------------------------------- MODULE MCAjax -------------------------------
(***************************************************************************)
(* What a page does with jQuery's callbacks, promises and requests: a      *)
(* Callbacks object with each set of options, promises made of promises,   *)
(* two requests at once through each transport, with handlers that abort,  *)
(* start others or throw, and jsonp with names that come free again.       *)
(***************************************************************************)
EXTENDS Ajax

Base == [opts |-> <<>>, made |-> {}, spare |-> {}, hooks |-> {}, menu |-> {}, budget |-> 0, throws |-> 0,
         list |-> {"once", "memory"}, statuses |-> {}, types |-> {}]

Lists == {[Base EXCEPT !.list = options, !.menu = {"list"}, !.budget = 5]:
              options \in {{}, {"memory"}, {"unique"}, {"stopOnFalse", "memory"}, {"once"}, {"once", "memory"}}}
Promised == {[Base EXCEPT !.made = {1, 2}, !.spare = {3}, !.menu = {"add", "settle", "then", "when"}, !.budget = 4,
                          !.throws = 1]}

Xhr == [types |-> <<"json">>, crossDomain |-> FALSE, cors |-> TRUE, net |-> "open", global |-> TRUE,
        timeout |-> TRUE, question |-> FALSE, name |-> "own"]
JsonpOpt == [Xhr EXCEPT !.types = <<"jsonp">>, !.crossDomain = TRUE]
Hooked(first, second, hooks) ==
    [Base EXCEPT !.opts = <<first, second>>, !.menu = {"ajax", "abort", "add"}, !.hooks = hooks, !.budget = 3,
                 !.throws = 1, !.statuses = {200, 304, 404}, !.types = {"json", "html"}]
Asked == {Hooked(Xhr, [Xhr EXCEPT !.net = "cached", !.global = FALSE], {"prefilter", "beforeSend", "done"}),
          Hooked(Xhr, [Xhr EXCEPT !.net = "sync", !.types = <<"*">>], {"ajaxStart", "ajaxSend", "ajaxStop", "fail"}),
          Hooked(Xhr, [Xhr EXCEPT !.crossDomain = TRUE, !.cors = FALSE], {"ajaxComplete", "complete", "statusCode"}),
          Hooked([Xhr EXCEPT !.question = TRUE], [Xhr EXCEPT !.types = <<"script">>, !.crossDomain = TRUE],
                 {"ajaxError", "ajaxSuccess"})}
\* Handlers of ajaxStart, with and without a beforeSend that looks at what they did.
AtStart == {[Hooked(Xhr, [Xhr EXCEPT !.net = "cached"], {"ajaxStart", also}) EXCEPT !.throws = 0]:
                also \in {"statusCode", "beforeSend"}}
Shared == {[Base EXCEPT !.opts = <<JsonpOpt, [JsonpOpt EXCEPT !.name = n], [JsonpOpt EXCEPT !.name = n]>>,
                        !.menu = {"ajax", "abort"}, !.hooks = {"done"}, !.budget = 5]: n \in {"own", "fixed"}}

MCScenarios == Lists \cup Promised \cup Asked \cup AtStart \cup Shared
MCPromises == 1..3
=============================================================================
