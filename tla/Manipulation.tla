---------------------------- MODULE Manipulation ----------------------------
(***************************************************************************)
(* Nodes that are moved, cloned, emptied and removed, with their data,     *)
(* their handlers and their scripts.  A clone is one of the spare nodes of *)
(* the page x, of which this module also reads and changes                 *)
(*   kids, parent  the tree                                                *)
(*   spare         the nodes that are not made yet                         *)
(*   scripts       the script elements                                     *)
(*   ran, cleaned  history: how often a script ran, its data was cleaned   *)
(***************************************************************************)
EXTENDS EventHandlers

\* The tree of the browser.
RECURSIVE Tree(_, _)
Tree(x, e) == <<e>> \o FlattenSeq([i \in DOMAIN x.kids[e] |-> Tree(x, x.kids[e][i])])
Contained(x, e) == Document \in ToSet(Upward(x, e))
Unlink(x, n) ==
    IF x.parent[n] = None THEN x
    ELSE [x EXCEPT !.kids[x.parent[n]] = SelectSeq(@, LAMBDA k: k # n), !.parent[n] = None]
InsertChild(x, p, n, at) ==
    LET y == Unlink(x, n) IN [y EXCEPT !.kids[p] = InsertAt(@, at, n), !.parent[n] = p]
Position(x, e) == SelectInSeq(x.kids[x.parent[e]], LAMBDA k: k = e)

\* getAll: the elements below a node, with the node or without.
Elements(x, s) == SelectSeq(s, LAMBDA n: x.kind[n] # "text")
getAll(x, e) == Elements(x, Tree(x, e))
getBelow(x, e) == Tail(getAll(x, e))
Scripts(x, e) == SelectSeq(getAll(x, e), LAMBDA n: n \in x.scripts)

\* cleanData: the handlers of special types go by remove, which looks for the
\* type as it was bound; then all that is left.
special(x, type) == type \in {"load", "focus", "blur", "click", "mouseenter"}
                        \cup (IF x.noFocusin THEN {"focusin"} ELSE {}) \cup (IF x.old THEN {"submit"} ELSE {})
CleanEvents(x, e) ==
    FoldLeft(LAMBDA y, t: IF special(x, t) THEN remove(y, e, What(t))
                          ELSE [y EXCEPT !.listeners = @ \ {<<e, t>>}],
             x, SetToSeq(DOMAIN Events(x, e)))
CleanOne(x, e) ==
    IF ~acceptData(x, e) THEN x
    ELSE [Destroy(CleanEvents(x, e), e) EXCEPT !.wrote[e] = [k \in CamelKeys |-> NoValue],
                                               !.dashed = @ \ {e}, !.cleaned[e] = @ + 1]
cleanData(x, elems) == FoldLeft(CleanOne, x, elems)

-----------------------------------------------------------------------------
\* Scripts that have run are marked.
setGlobalEval(x, elems, marks) ==
    FoldLeft(LAMBDA y, i: IF marks[i] THEN Write(y, elems[i], [Entry(y, elems[i]) EXCEPT !.globalEval = TRUE]) ELSE y,
             x, [i \in DOMAIN elems |-> i])
Marked(x, elems) == setGlobalEval(x, elems, [i \in DOMAIN elems |-> TRUE])

\* remove and detach of an element, empty, and html, whose new content has no data.
Cleaned(x, e, keepData) == IF ~keepData /\ x.kind[e] = "element" THEN cleanData(x, getAll(x, e)) ELSE x
Detached(x, e, keepData) ==
    IF keepData /\ Contained(x, e) /\ x.parent[e] # None THEN Marked(x, Scripts(x, e)) ELSE x
removeNode(x, e, keepData) == Unlink(Detached(Cleaned(x, e, keepData), e, keepData), e)
empty(x, e) == FoldLeft(Unlink, cleanData(x, getBelow(x, e)), x.kids[e])
html(x, e) == empty(x, e)

\* cloneCopyEvent: a copy of the entry, with the handlers added one by one.  The
\* queue, its hooks and what show and hide remember are those of the source.
cloneCopyEvent(x, src, dest) ==
    IF x.kind[dest] # "element" \/ ~hasData(x, src) THEN x
    ELSE LET old == Entry(x, src)
             lists == SetToSeq({old.events[t].list: t \in DOMAIN old.events})
             y == Write(x, dest, [old EXCEPT !.events = << >>, !.handle = FALSE])
         IN  [FoldLeft(LAMBDA w, h: add(w, dest, h), y, FlattenSeq(lists))
              EXCEPT !.wrote[dest] = x.wrote[src], !.dashed = IF src \in @ THEN @ \cup {dest} ELSE @]

\* clone: the nodes of the tree get the lowest spare ones; scripts of the page
\* count as run, others as their source.
Copies(x, e) == LET n == Len(Tree(x, e)) IN SubSeq(SetToSortSeq(x.spare, <), 1, n)
cloneNode(x, e) ==
    LET src == Tree(x, e)
        dest == Copies(x, e)
        of(n) == dest[SelectInSeq(src, LAMBDA m: m = n)]
        new == ToSet(dest)
        from(m) == src[SelectInSeq(dest, LAMBDA n: n = m)]
        keeps(n) == x.old /\ \E at \in DOMAIN x.sizzle.slots: at[1] = x.holder[n]
    IN  [x EXCEPT
            !.spare = @ \ new,
            !.kind = [m \in DOMAIN @ |-> IF m \in new THEN @[from(m)] ELSE @[m]],
            !.names = [m \in DOMAIN @ |-> IF m \in new THEN @[from(m)] ELSE @[m]],
            !.holder = [m \in DOMAIN @ |-> IF m \in new /\ keeps(from(m)) THEN @[from(m)] ELSE @[m]],
            !.attrs = [m \in DOMAIN @ |-> IF m \in new THEN @[from(m)] ELSE @[m]],
            !.kids = [m \in DOMAIN @ |-> IF m \in new THEN [i \in DOMAIN @[from(m)] |-> of(@[from(m)][i])] ELSE @[m]],
            !.parent = [m \in DOMAIN @ |-> IF m \in new \ {dest[1]} THEN of(@[from(m)]) ELSE @[m]],
            !.scripts = @ \cup {of(n): n \in @ \cap ToSet(src)},
            !.match = [sel \in DOMAIN @ |-> @[sel] \cup {of(n): n \in @[sel] \cap ToSet(src)}]]
ClonePairs(x, src, dest) ==
    FoldLeft(LAMBDA y, i: cloneCopyEvent(y, src[i], dest[i]), x, [i \in DOMAIN src |-> i])
CloneData(x, e, new, deep) ==
    IF deep THEN ClonePairs(x, getAll(x, e), getAll(x, new)) ELSE ClonePairs(x, <<e>>, <<new>>)
CloneMarks(x, e, new) ==
    setGlobalEval(x, Scripts(x, new), [i \in DOMAIN Scripts(x, new) |->
                      Contained(x, e) \/ Entry(x, Scripts(x, e)[i]).globalEval])
CloneInto(x, e, new, dataAndEvents, deep) ==
    CloneMarks(IF dataAndEvents THEN CloneData(x, e, new, deep) ELSE x, e, new)
clone(x, e, dataAndEvents, deep) == CloneInto(cloneNode(x, e), e, Copies(x, e)[1], dataAndEvents, deep)

-----------------------------------------------------------------------------
\* domManip with one node: the last target gets the node, the others clones with
\* their data and handlers.  A node that is a target itself stays where it is.
\* The scripts of the node run when they come into the page for the first time.
replaced(x, target, n) == Unlink(InsertChild(x, x.parent[target], n, Position(x, target)), target)
insertBeside(x, how, target, n) ==
    InsertChild(x, x.parent[target], n, Position(Unlink(x, n), target) + (IF how = "after" THEN 1 ELSE 0))
insert(x, how, target, n) ==
    CASE how \in {"append", "prepend"} ->
             InsertChild(x, target, n, IF how = "append" THEN Len(Unlink(x, n).kids[target]) + 1 ELSE 1)
      [] how \in {"before", "after"} -> IF x.parent[target] = None THEN x ELSE insertBeside(x, how, target, n)
      [] how = "replaceWith" -> IF x.parent[target] = None THEN cleanData(x, getAll(x, target))
                                ELSE replaced(cleanData(x, getAll(x, target)), target, n)
buildFragment(x, n) == Unlink(IF Contained(x, n) THEN Marked(x, Scripts(x, n)) ELSE x, n)

evaluate(x, n) == IF ~Entry(x, n).globalEval /\ Contained(x, n) THEN [x EXCEPT !.ran[n] = @ + 1] ELSE x
Evaluated(x, n) == FoldLeft(evaluate, x, Scripts(x, n))
\* What a target gets: the page and the node in it.
Given(x, n, last) == IF last THEN [page |-> x, node |-> n]
                     ELSE [page |-> clone(x, n, TRUE, TRUE), node |-> Copies(x, n)[1]]
InsertGiven(given, how, target) == insert(given.page, how, target, given.node)
InsertAll(x, how, targets, n) ==
    FoldLeft(LAMBDA y, i: InsertGiven(Given(y, n, i = Len(targets)), how, targets[i]), x, [i \in DOMAIN targets |-> i])
domManip(x, how, targets, n) ==
    IF n \in ToSet(targets) THEN x ELSE Evaluated(InsertAll(buildFragment(x, n), how, targets, n), n)
replaceWith(x, e, n) ==
    LET stays == x.parent[e] = None
        y == domManip(x, "replaceWith", <<e>>, n)
    IN  IF stays THEN removeNode(y, e, FALSE) ELSE y

\* appendTo and the others: clones for all targets but the last, with the data.
ManipGiven(given, how, target) == domManip(given.page, how, <<target>>, given.node)
appendTo(x, how, n, targets) ==
    FoldLeft(LAMBDA y, i: ManipGiven(Given(y, n, i = Len(targets)), how, targets[i]), x, [i \in DOMAIN targets |-> i])

\* wrap elements with a clone of another, innermost, or all that is in an element;
\* and take the parent away.
RECURSIVE Innermost(_, _)
Innermost(x, e) == IF x.kids[e] # << >> /\ x.kind[x.kids[e][1]] = "element" THEN Innermost(x, x.kids[e][1]) ELSE e
AppendAll(x, target, elems) == FoldLeft(LAMBDA y, e: domManip(y, "append", <<target>>, e), x, elems)
IntoInnermost(x, new, elems) == AppendAll(x, Innermost(x, new), elems)
Before(x, e, new) == IF x.parent[e] # None THEN domManip(x, "before", <<e>>, new) ELSE x
wrapAll(x, elems, w) ==
    IntoInnermost(Before(clone(x, w, TRUE, TRUE), elems[1], Copies(x, w)[1]), Copies(x, w)[1], elems)
wrapInner(x, e, w) ==
    IF x.kids[e] = << >> THEN domManip(x, "append", <<e>>, w) ELSE wrapAll(x, x.kids[e], w)
unwrap(x, e) ==
    LET p == x.parent[e]
    IN  removeNode(FoldLeft(LAMBDA y, k: domManip(y, "before", <<p>>, k), x, x.kids[p]), p, FALSE)

-----------------------------------------------------------------------------
\* The tree is a tree, and a script runs once for each time its data was cleaned:
\* moving, detaching and cloning it does not run it again.
TreeHolds(x, nodes) ==
    /\ \A p, n \in nodes: x.parent[n] = p <=> \E i \in DOMAIN x.kids[p]: x.kids[p][i] = n
    /\ \A p \in nodes: IsInjective(x.kids[p])
ScriptsRunOnce(x) == \A s \in x.scripts: x.ran[s] <= 1 + x.cleaned[s]
=============================================================================
