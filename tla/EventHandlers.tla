--------------------------- MODULE EventHandlers ---------------------------
(***************************************************************************)
(* jQuery.event without the calls of handlers: how add, remove and         *)
(* handlers keep the lists of an element, what they tell the browser, and  *)
(* the special events.                                                     *)
(*                                                                         *)
(* A handler is a record: type and origType, sel (a selector or "none"),   *)
(* ns (its namespaces), fn (its function, which is also its guid), one,    *)
(* and id, the number of its addition.  Of the page x this module also     *)
(* reads and changes                                                       *)
(*   parent, match  of the document: the tree, the nodes of a selector     *)
(*   listeners   the pairs <<node, type>> the browser calls jQuery for     *)
(*   capturing   the browser calls the document for a focus below it       *)
(*   noFocusin   the browser has no focusin (Firefox)                      *)
(*   old         a submit does not bubble in the browser (IE 8)            *)
(*   forms, controls  the forms, and the form of a control or 0            *)
(*   added       the number of additions                                   *)
(*   unwatched   history: the nodes whose click handlers the page took off *)
(***************************************************************************)
EXTENDS ElementData

Document == 1
None == 0
delegateType(type) == CASE type = "focus" -> "focusin" [] type = "mouseenter" -> "mouseover" [] OTHER -> type
bindType(type) == IF type = "mouseenter" THEN "mouseover" ELSE type

Events(x, e) == Entry(x, e).events
NoHandlers == [list |-> << >>, delegateCount |-> 0]
List(x, e, type) == IF type \in DOMAIN Events(x, e) THEN Events(x, e)[type] ELSE NoHandlers
Put(x, e, type, handlers) == Write(x, e, [Entry(x, e) EXCEPT !.events = (type :> handlers) @@ @])

\* Mutant of Insert: a delegated handler is not counted.
InsertUncounted(handlers, h) ==
    IF h.sel = "none" THEN [handlers EXCEPT !.list = Append(@, h)]
    ELSE [handlers EXCEPT !.list = InsertAt(@, handlers.delegateCount + 1, h)]

\* Delegates in front.
Insert(handlers, h) ==
    IF h.sel = "none" THEN [handlers EXCEPT !.list = Append(@, h)]
    ELSE [list |-> InsertAt(handlers.list, handlers.delegateCount + 1, h),
          delegateCount |-> handlers.delegateCount + 1]

Added(x, e, type, h) ==
    [Put(x, e, type, Insert(List(x, e, type), [h EXCEPT !.type = type, !.id = x.added + 1])) EXCEPT !.added = @ + 1]
Bound(x, e, type) == [Put(x, e, type, NoHandlers) EXCEPT !.listeners = @ \cup {<<e, type>>}]
Handled(x, e) == Write(x, e, [Entry(x, e) EXCEPT !.handle = TRUE])

\* The handlers jQuery adds for itself have a namespace that begins with _.
Internal(type, fn) == [type |-> type, origType |-> type, sel |-> "none", ns |-> {"_submit"}, fn |-> fn,
                       one |-> FALSE, id |-> 0]
setupFocusin(x) ==
    LET attaches == Entry(x, Document).focusin
    IN  [Write(x, Document, [Entry(x, Document) EXCEPT !.focusin = attaches + 1])
         EXCEPT !.capturing = @ \/ attaches = 0]
setupSubmit(x, e) ==
    FoldLeft(LAMBDA y, t: Added(IF t \in DOMAIN Events(y, e) THEN y ELSE Bound(y, e, t), e, t,
                                Internal(t, "lazySubmit")), x, <<"keypress", "click">>)

\* add for one type: the browser is told of its first handler.  A setup that does
\* not return false does without a listener.
setup(x, e, type) ==
    CASE x.noFocusin /\ type = "focusin" -> setupFocusin(Put(x, e, type, NoHandlers))
      [] x.old /\ type = "submit" /\ e \notin x.forms -> setupSubmit(Put(x, e, type, NoHandlers), e)
      [] OTHER -> Bound(x, e, type)
add(x, e, h) ==
    LET type == IF h.sel # "none" THEN delegateType(h.origType) ELSE bindType(h.origType)
    IN  IF ~acceptData(x, e) THEN x
        ELSE Added(Handled(IF type \in DOMAIN Events(x, e) THEN x ELSE setup(x, e, type), e), e, type, h)

-----------------------------------------------------------------------------
\* What is removed: what a call of remove names.  fn is "any" without a handler,
\* sel is "none", "**" for every delegated one, or a selector; mapped: all types.
What(origType) == [origType |-> origType, fn |-> "any", ns |-> {}, sel |-> "none", mapped |-> FALSE]
Matches(h, w) ==
    /\ w.mapped \/ w.origType = h.origType
    /\ w.fn \in {"any", h.fn}
    /\ w.ns \subseteq h.ns
    /\ w.sel \in {"none", h.sel} \/ (w.sel = "**" /\ h.sel # "none")

Without(handlers, w) ==
    LET left == SelectSeq(handlers.list, LAMBDA h: ~Matches(h, w))
    IN  [list |-> left, delegateCount |-> handlers.delegateCount
             - Len(SelectSeq(handlers.list, LAMBDA h: Matches(h, w) /\ h.sel # "none"))]

Drop(x, e, type) ==
    Write(x, e, [Entry(x, e) EXCEPT !.events = [t \in DOMAIN @ \ {type} |-> @[t]]])
NoEvents(x, e) ==
    IF Has(x, e) /\ DOMAIN Events(x, e) = {}
    THEN Reap(Write(x, e, [Entry(x, e) EXCEPT !.handle = FALSE, !.events = << >>]), e) ELSE x

Unbound(x, e, type) == Drop([x EXCEPT !.listeners = @ \ {<<e, type>>}], e, type)
Reduced(x, e, type, w) == Put(x, e, type, Without(List(x, e, type), w))
HasNone(x, e, type) == List(x, e, type).list = << >>

teardownFocusin(x) ==
    LET attaches == Entry(x, Document).focusin - 1
        entry == [Entry(x, Document) EXCEPT !.focusin = attaches]
    IN  IF attaches = 0 THEN [removePrivate(x, Document, entry) EXCEPT !.capturing = FALSE]
        ELSE Write(x, Document, entry)
RECURSIVE remove(_, _, _)
teardownSubmit(x, e) == remove(x, e, [What("") EXCEPT !.ns = {"_submit"}])

\* When the last handler of a type is gone, teardown is that of the type as it was
\* called, not of the one it stands for.
teardown(x, e, type, called) ==
    CASE x.noFocusin /\ called = "focusin" -> Drop(teardownFocusin(x), e, type)
      [] x.old /\ called = "submit" /\ e \notin x.forms -> Drop(teardownSubmit(x, e), e, type)
      [] OTHER -> Unbound(x, e, type)
Left(x, e, type, called) == IF HasNone(x, e, type) THEN teardown(x, e, type, called) ELSE x
removeType(x, e, w) ==
    LET type == IF w.sel # "none" THEN delegateType(w.origType) ELSE bindType(w.origType)
    IN  IF HasNone(x, e, type) THEN x ELSE Left(Reduced(x, e, type, w), e, type, w.origType)

\* remove: of one type, or without a type of all there are.
remove(x, e, w) ==
    IF ~hasData(x, e) \/ Events(x, e) = << >> THEN x
    ELSE NoEvents(IF w.origType # "" THEN removeType(x, e, w)
                  ELSE FoldLeft(LAMBDA y, t: remove(y, e, [w EXCEPT !.origType = t, !.mapped = TRUE]),
                                x, SetToSeq(DOMAIN Events(x, e))), e)

-----------------------------------------------------------------------------
\* The nodes from one to the document, and handlers: the groups of a dispatch at
\* e, one for each node below it that a delegated handler matches, then e.
RECURSIVE Upward(_, _)
Upward(x, e) == IF e = None THEN << >> ELSE <<e>> \o Upward(x, x.parent[e])
Below(x, e, target) == LET up == Upward(x, target)
                           at == SelectInSeq(up, LAMBDA n: n = e)
                       IN  IF at = 0 THEN up ELSE SubSeq(up, 1, at - 1)

handlers(x, e, target, list) ==
    LET below == SelectSeq(Below(x, e, target), LAMBDA n: x.kind[n] = "element")
        delegates == SubSeq(list.list, 1, list.delegateCount)
        direct == SubSeq(list.list, list.delegateCount + 1, Len(list.list))
        groups == [i \in DOMAIN below |-> [elem |-> below[i], begun |-> FALSE,
                       handlers |-> SelectSeq(delegates, LAMBDA h: below[i] \in x.match[h.sel])]]
    IN  SelectSeq(Append(groups, [elem |-> e, begun |-> FALSE, handlers |-> direct]), LAMBDA g: g.handlers # << >>)

-----------------------------------------------------------------------------
\* The delegates of a list are in front and counted, both kinds in the order of
\* their additions; the browser calls jQuery for every type that has handlers, and
\* for no other.  focus below the document is watched while an element wants
\* focusin; handlers that came as a delegated focus leave it watched for ever.  The
\* click handlers that look out for a submit go with off("click") of the page.
Ordered(list) == \A i, j \in DOMAIN list: i < j => list[i].id < list[j].id
Watched(x, e, type) ==
    CASE x.noFocusin /\ type = "focusin" -> x.capturing
      [] x.old /\ type = "submit" /\ e \notin x.forms -> <<e, "click">> \in x.listeners \/ e \in x.unwatched
      [] OTHER -> <<e, type>> \in x.listeners
HandlersInPlace(x, nodes) ==
    /\ \A e \in nodes: \A type \in DOMAIN Events(x, e):
           LET l == Events(x, e)[type]
           IN  /\ Ordered(SubSeq(l.list, 1, l.delegateCount))
               /\ Ordered(SubSeq(l.list, l.delegateCount + 1, Len(l.list)))
               /\ \A i \in DOMAIN l.list: l.list[i].sel # "none" <=> i <= l.delegateCount
               /\ l.list # << >> /\ Entry(x, e).handle /\ Watched(x, e, type)
    /\ \A e \in nodes: \A type \in {l[2]: l \in {m \in x.listeners: m[1] = e}}: type \in DOMAIN Events(x, e)
=============================================================================
