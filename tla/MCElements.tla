----------------------------- MODULE MCElements -----------------------------
(***************************************************************************)
(* Small pages and what they call.  Node 1 is the document, 2 and 3 are    *)
(* elements, 3 below 2; spare nodes are there for clones.                  *)
(***************************************************************************)
EXTENDS Elements

Done == [Loading("complete", FALSE, FALSE) EXCEPT !.is = TRUE, !.done = TRUE, !.wait = 0]
E == "element"
\* A document with a div (2) that has a span (3), a node of another kind (4) on its own, and spares.
Basic(other, spares) ==
    Page([n \in 1..(4 + spares) |-> CASE n = 1 -> "document" [] n \in {2, 3} -> E
                                      [] n = 4 -> other [] OTHER -> "spare"],
         [n \in 1..(4 + spares) |-> CASE n = 1 -> <<2>> [] n = 2 -> <<3>> [] OTHER -> << >>], Done)

Data(e) == [group: {"data"}, op: {"data"}, e: {e}, k: {"a-b", "c"}, v: {7}]
           \cup [group: {"data"}, op: {"dataObject"}, e: {e}, k: {"a-b", "aB"}, v: {8}]
           \cup [group: {"data"}, op: {"dataAttr"}, e: {e}, k: {"aB"}] \cup [group: {"data"}, op: {"dataAll"}, e: {e}]
           \cup [group: {"data"}, op: {"removeData"}, e: {e}, names: {{}, {"a-b"}, {"aB", "c"}}, array: BOOLEAN]
Tree1(op, e) == [group |-> "tree", op |-> op, e |-> e]
Clone(e, with, all) == [group |-> "tree", op |-> "clone", e |-> e, data |-> with, deep |-> all]
Attr(x, e) == [x EXCEPT !.attrs[e]["aB"] = 9]

DataPage(other) == [most |-> 4, page |-> Attr(Basic(other, 0), 2),
                    menu |-> Data(2) \cup Data(4) \cup {Tree1("remove", 3), Tree1("html", 2),
                             [group |-> "data", op |-> "data", e |-> 3, k |-> "c", v |-> 6]}]

-----------------------------------------------------------------------------
On(e, type, sel, ns, fn, once) ==
    [group |-> "handler", op |-> "on", e |-> e, type |-> type, sel |-> sel, ns |-> ns, fn |-> fn, one |-> once]
Off(e, type, sel, ns, fn) ==
    [group |-> "handler", op |-> "off", e |-> e, type |-> type, sel |-> sel, ns |-> ns, fn |-> fn]
Trig(e, type, ns, only) == [group |-> "handler", op |-> "trigger", e |-> e, type |-> type, ns |-> ns, only |-> only]
User(type, e, from) == [group |-> "user", type |-> type, e |-> e, related |-> from]
Answer == [group: {"event"}, op: {"prevent", "stop", "stopNow", "false"}]

\* Clicks on a span, with delegated handlers of the div above it.
Clicked == [Basic(E, 0) EXCEPT !.match[".s"] = {3}]
Binding == [most |-> 4, page |-> Clicked,
            menu |-> {On(2, "click", "none", {}, "f", FALSE), On(2, "click", ".s", {"n"}, "g", FALSE),
                      On(2, "click", ".s", {}, "f", TRUE), On(3, "click", "none", {"n"}, "f", TRUE),
                      Off(2, "click", "none", {}, "f"), Off(2, "click", "**", {}, "any"),
                      Off(2, "", "none", {"n"}, "any"),
                      Off(3, "", "none", {}, "any"), Trig(3, "click", {"n"}, FALSE), User("click", 3, None),
                      Tree1("remove", 3), [group |-> "event", op |-> "false"]}]
Reentrant == [most |-> 4, page |-> Clicked,
              menu |-> Answer \cup {On(2, "click", "none", {}, "f", FALSE), On(2, "click", ".s", {}, "g", TRUE),
                                    On(3, "click", "none", {}, "g", TRUE), Off(2, "click", "none", {}, "any"),
                                    Trig(3, "click", {}, FALSE), Trig(3, "click", {}, TRUE), User("click", 3, None)}]

\* The focus of the input 3 in the div 2, in a browser with focusin and one without.
Focused(noFocusin) ==
    [most |-> 4, page |-> [Basic(E, 0) EXCEPT !.match[".s"] = {3}, !.noFocusin = noFocusin],
     menu |-> Answer \cup {On(2, "focusin", "none", {}, "f", FALSE), On(2, "focus", ".s", {}, "f", FALSE),
                           On(3, "focus", "none", {}, "g", FALSE), Off(2, "focusin", "none", {}, "any"),
                           Off(2, "focus", "**", {}, "any"), Off(2, "", "none", {}, "any"), User("focus", 3, None),
                           Trig(3, "focus", {}, FALSE), Trig(3, "focusin", {}, FALSE), Tree1("remove", 2)}]

\* A form 3 in the div 2, with a button 4.
Submitted(old) ==
    [most |-> 4,
     page |-> [Page([n \in 1..4 |-> IF n = 1 THEN "document" ELSE E], << <<2>>, <<3>>, <<4>>, << >> >>, Done)
               EXCEPT !.match[".s"] = {3}, !.old = old, !.forms = {3}, !.controls[4] = 3],
     menu |-> Answer \cup {On(2, "submit", "none", {}, "f", FALSE), On(2, "submit", ".s", {}, "f", TRUE),
                           On(3, "submit", "none", {}, "f", FALSE), On(1, "click", "none", {}, "f", FALSE),
                           Off(2, "submit", "none", {}, "any"), Off(2, "click", "none", {}, "any"),
                           User("click", 4, None), Trig(4, "click", {}, FALSE), Trig(3, "submit", {}, FALSE),
                           Tree1("remove", 3)}]

\* A checkbox 3 in the div 2, over which the mouse comes from the document or the div.
Hovered == [most |-> 4, page |-> [Clicked EXCEPT !.boxes = {3}],
            menu |-> Answer \cup {On(2, "mouseenter", "none", {}, "f", FALSE),
                                  On(2, "mouseenter", ".s", {}, "g", FALSE),
                                  On(3, "mouseenter", "none", {}, "g", TRUE), On(3, "click", "none", {}, "f", FALSE),
                                  Off(2, "mouseenter", "**", {}, "any"), User("mouseover", 3, 2),
                                  User("mouseover", 3, 1), User("click", 3, None), Trig(3, "click", {}, FALSE),
                                  Trig(3, "mouseenter", {}, FALSE), Tree1("detach", 3), Clone(2, TRUE, TRUE)}]

-----------------------------------------------------------------------------
Move(op, e, targets) == [group |-> "tree", op |-> op, e |-> e, targets |-> targets]
Put1(e) == [group |-> "data", op |-> "data", e |-> e, k |-> "c", v |-> 7]

\* A script (3) in the div 2 and a div 4 on its own; with one, two and three spares.
Moved == [most |-> 4,
          page |-> [Basic(E, 3) EXCEPT !.scripts = {3}, !.kids[4] = <<5>>, !.parent[5] = 4, !.kind[5] = "text",
                                       !.spare = {6, 7}],
          menu |-> {Put1(2), Put1(3), On(2, "click", ".s", {}, "f", FALSE), On(3, "click", "none", {}, "f", FALSE),
                    On(4, "click", "none", {}, "g", FALSE),
                    Move("append", 3, <<2, 4>>), Move("prepend", 2, <<4>>), Move("before", 4, <<3>>),
                    Move("after", 3, <<2>>), Move("appendTo", 3, <<4, 1>>),
                    Move("append", 2, <<1>>), Tree1("remove", 2), Tree1("detach", 2), Tree1("empty", 2),
                    Tree1("unwrap", 3),
                    [group |-> "tree", op |-> "wrapInner", e |-> 2, w |-> 4],
                    Clone(2, TRUE, TRUE), Clone(2, TRUE, FALSE), Clone(3, FALSE, FALSE),
                    [group |-> "tree", op |-> "replaceWith", e |-> 3, n |-> 4],
                    [group |-> "tree", op |-> "wrap", e |-> 3, w |-> 4]}]

-----------------------------------------------------------------------------
Anim(e, does, left, queued) == [group |-> "effect", op |-> "animate", kind |-> "anim", e |-> e, does |-> does,
                                left |-> left, queued |-> queued]
Wait(e) == [group |-> "effect", op |-> "delay", kind |-> "delay", e |-> e, does |-> "none", left |-> 0]
Func(e) == [group |-> "effect", op |-> "queue", kind |-> "fn", e |-> e, does |-> "none", left |-> 0]
Fx(op, e) == [group |-> "effect", op |-> op, e |-> e]
Stop(e, clear, end) == [group |-> "effect", op |-> "stop", e |-> e, clear |-> clear, end |-> end]

\* Animations of one element, with functions that are called at the end.
Moving == [most |-> 3, page |-> [Basic(E, 0) EXCEPT !.has = {"complete", "promise"}],
           menu |-> {Anim(2, "move", 2, TRUE), Anim(2, "move", 1, FALSE), Anim(2, "move", 0, TRUE), Wait(2), Func(2),
                     Anim(3, "move", 1, TRUE), Fx("promise", 2), Stop(2, FALSE, FALSE), Stop(2, FALSE, TRUE),
                     Stop(2, TRUE, TRUE)}]
\* Elements that are shown and hidden; 3 is hidden by a style sheet.
Shown == [most |-> 3, page |-> [Basic(E, 0) EXCEPT !.has = {"progress"}, !.css = {3}],
          menu |-> {Anim(2, "hide", 1, TRUE), Anim(2, "toggle", 2, TRUE), Anim(2, "show", 1, FALSE),
                    Anim(3, "toggle", 1, TRUE), Fx("show", 3), Fx("hide", 2), Fx("show", 2), Stop(2, TRUE, FALSE),
                    Stop(2, FALSE, TRUE), Fx("finish", 2)}]
\* More calls of a smaller menu.
MovingLonger == [Moving EXCEPT !.most = 4, !.menu = {Anim(2, "move", 1, TRUE), Anim(2, "move", 1, FALSE), Wait(2),
                                                     Fx("promise", 2), Stop(2, FALSE, TRUE)}]
ShownLonger == [Shown EXCEPT !.most = 4, !.menu = {Anim(2, "hide", 1, TRUE), Anim(2, "toggle", 2, TRUE), Fx("show", 2),
                                                   Stop(2, FALSE, FALSE), Stop(2, FALSE, TRUE), Fx("finish", 2)}]
\* What jQuery does not provide for.
Disturbed == [most |-> 3, page |-> [Basic(E, 1) EXCEPT !.has = {"complete", "queue"}],
              menu |-> {Anim(2, "move", 1, TRUE), Anim(2, "empty", 0, TRUE), Func(2), Wait(2), Fx("promise", 2),
                        Fx("clearQueue", 2), Fx("dequeue", 2), Fx("finish", 2), Stop(2, FALSE, TRUE),
                        Anim(3, "move", 1, FALSE), Tree1("remove", 2), Clone(3, TRUE, TRUE)}]

-----------------------------------------------------------------------------
\* A document that is still to come, in three browsers, and one that is there.
Waiting(state, ie, scrolls) ==
    [most |-> 4,
     page |-> Page([n \in 1..2 |-> IF n = 1 THEN "document" ELSE E], << <<2>>, << >> >>, Loading(state, ie, scrolls)),
     menu |-> {[group |-> "ready", op |-> "ready"], [group |-> "ready", op |-> "holdReady", hold |-> TRUE],
               [group |-> "ready", op |-> "holdReady", hold |-> FALSE], On(1, "ready", "none", {}, "f", FALSE)}]

-----------------------------------------------------------------------------
T(type) == [type |-> type]
Named1(type, name) == [type |-> type, name |-> name]
div == Named1("TAG", "div")
s == Named1("CLASS", ".s")
a == Named1("CLASS", ".a")
id == Named1("ID", "#i")
Child(which, ofType, n, m) == [type |-> "CHILD", which |-> which, ofType |-> ofType, a |-> n, b |-> m]
Not(sel) == [type |-> "not", arg |-> sel]
HasSel(sel) == [type |-> "has", arg |-> sel]
Find(from, sel) == [group |-> "select", op |-> "find", from |-> from, sel |-> sel]
Of(op, from, sel) == [group |-> "select", op |-> op, from |-> from, sel |-> sel]
Nearer(from, sel, context) == [group |-> "select", op |-> "closest", from |-> from, sel |-> sel, context |-> context]
Go(from, name, until, sel) ==
    [group |-> "select", op |-> "traverse", from |-> from, name |-> name, until |-> until, sel |-> sel]

\* The document has a div (2) with a div (3) that has a p (7), a text (4), a p (5)
\* and a div (6) with a div (8); a div (9) with a p (10) is on its own.
Queried(byId, byClass, old) ==
    [Page([n \in 1..12 |-> CASE n = 1 -> "document" [] n = 4 -> "text" [] n > 10 -> "spare" [] OTHER -> E],
          << <<2>>, <<3, 4, 5, 6>>, <<7>>, << >>, << >>, <<8>>, << >>, << >>, <<10>>, << >>, << >>, << >> >>, Done)
     EXCEPT !.names = [n \in 1..12 |-> IF n \in {5, 7, 10} THEN "p" ELSE "div"], !.byId = byId, !.byClass = byClass,
            !.old = old, !.match = [i \in {".s", ".a", "#i", "none"} |->
                CASE i = ".s" -> {5, 6, 7, 10} [] i = ".a" -> {2, 8, 9} [] i = "#i" -> {3} [] OTHER -> {}]]
Simple1 == {<< <<div>> >>, << <<s>> >>, << <<id>> >>, << <<T("empty")>> >>, << <<div, a>> >>,
            << <<Not(<< <<s>> >>), div>> >>}
Complex1 == {<< <<div, T(" "), s>> >>, << <<a, T(" "), div, T(" "), s>> >>, << <<div, T(">"), s>>, <<a>> >>,
             << <<div, T("+"), s>> >>, << <<div, T("~"), div>> >>, << <<id, T(" "), s>> >>, << <<id, T("~"), s>> >>,
             << <<a, T(" "), Child("nth", FALSE, 2, 1)>> >>, << <<Child("nth-last", FALSE, 0, 2)>> >>,
             << <<s, Child("first", FALSE, 0, 0)>> >>, << <<Child("only", FALSE, 0, 0)>> >>,
             << <<div, Child("nth", TRUE, 0, 2)>> >>, << <<div, Child("last", TRUE, 0, 0)>> >>,
             << <<HasSel(<< <<a>> >>), T(" "), div>> >>,
             << <<div, HasSel(<< <<T(">"), s>> >>), T(" "), Not(<< <<a>> >>)>> >>,
             << <<Not(<< <<a, T(" "), div>> >>), T(">"), s>> >>}
Queries(tree) ==
    [most |-> 2, page |-> tree,
     menu |-> {Find(from, sel): from \in {<<1>>, <<2>>, <<6, 9>>}, sel \in Simple1 \cup Complex1}
              \cup {Find(from, sel): from \in {<<2>>, <<3, 6>>},
                                sel \in {<< <<T(">"), s>> >>, << <<T("+"), s>>, <<T("~"), div>> >>}}
              \cup {Of(op, <<10, 2, 6, 5, 3>>, sel): op \in {"filter", "not"}, sel \in Simple1 \cup Complex1}
              \cup {Of(op, from, sel): op \in {"is", "has"}, from \in {<<3>>, <<9, 2, 6>>},
                                       sel \in {<< <<div>> >>, << <<a, T(" "), s>> >>}}
              \cup {Of("is", <<2, 5>>, << <<T(">"), div>> >>)}
              \cup {Of("add", from, sel): from \in {<<10, 6>>, <<6, 2>>}, sel \in {<< <<id>> >>, << <<s>>, <<a>> >>}}
              \cup {Nearer(from, sel, c): from \in {<<7>>, <<8, 7, 10>>},
                                     sel \in {<< <<a>> >>, << <<T(">"), div>> >>}, c \in {None, 2}}
              \cup {Go(from, name, << >>, sel): from \in {<<7>>, <<6, 3>>}, sel \in {<< >>, << <<div>> >>},
                        name \in {"parent", "parents", "next", "prev", "nextAll", "prevAll",
                                  "siblings", "children", "contents"}}
              \cup {Go(from, name, until, << >>): from \in {<<8>>, <<6, 3, 10>>},
                        until \in {<< <<a>> >>, << <<div, T(" "), s>> >>},
                        name \in {"parentsUntil", "nextUntil", "prevUntil"}}]
\* Queries before and after nodes move.
QueriedAgain(tree) ==
    [most |-> 4, page |-> tree,
     menu |-> {Find(<<1>>, << <<a, T(" "), div, T(" "), s>> >>),
               Find(<<2>>, << <<div, T("~"), s>>, <<div, T(" "), a>> >>),
               Find(<<1>>, << <<Child("nth", FALSE, 2, 0), T(" "), Child("nth-last", FALSE, 0, 1)>> >>),
               Of("filter", <<5, 6, 7, 8, 10>>, << <<HasSel(<< <<div>> >>), T(" "), div>>, <<div, T(" "), s>> >>),
               Move("append", 6, <<3>>), Move("prepend", 5, <<2>>), Move("append", 10, <<3>>), Move("after", 3, <<8>>),
               Tree1("detach", 6), Tree1("remove", 5), Clone(9, FALSE, TRUE)}]

\* The same where a clone may have the cache of its source.
QueriedOld ==
    [most |-> 4, page |-> Queried(TRUE, FALSE, TRUE),
     menu |-> {Find(<<1>>, << <<s, T("~"), div, T(" "), div>> >>), Clone(6, FALSE, TRUE),
               Find(<<2>>, << <<div, T(" "), Child("nth-last", FALSE, 0, 1)>> >>), Move("prepend", 11, <<2>>),
               Move("append", 8, <<3>>)}]

MCScenarios ==
    [dataElement |-> DataPage(E), dataObject |-> DataPage("object"), dataApplet |-> DataPage("applet"),
     binding |-> Binding, reentrant |-> Reentrant, focus |-> Focused(FALSE), focusOld |-> Focused(TRUE),
     submit |-> Submitted(FALSE), submitOld |-> Submitted(TRUE), hover |-> Hovered, moved |-> Moved,
     moving |-> Moving, movingLonger |-> MovingLonger, shown |-> Shown, shownLonger |-> ShownLonger,
     disturbed |-> Disturbed,
     queries |-> Queries(Queried(TRUE, TRUE, FALSE)), queriesOld |-> Queries(Queried(FALSE, FALSE, TRUE)),
     queriedAgain |-> QueriedAgain(Queried(TRUE, FALSE, FALSE)), queriedOld |-> QueriedOld,
     loading |-> Waiting("loading", FALSE, FALSE), loadingFrame |-> Waiting("loading", TRUE, FALSE),
     loadingOld |-> Waiting("loading", TRUE, TRUE), late |-> Waiting("interactive", FALSE, FALSE),
     complete |-> Waiting("complete", TRUE, TRUE)]
=============================================================================
