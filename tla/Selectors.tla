----------------------------- MODULE Selectors -----------------------------
(***************************************************************************)
(* Sizzle, as far as jQuery does it itself, and the traversing of sets: a  *)
(* selector the browser does not know, or a set that is filtered.          *)
(*                                                                         *)
(* A selector is a sequence of groups (what is between commas), a group a  *)
(* sequence of tokens: a combinator, a TAG, CLASS or ID with its name, a   *)
(* CHILD (which: "nth", "nth-last", "first", "last" or "only", of the type *)
(* or not, a and b), "empty", or "not" and "has" with a selector arg.      *)
(* While it matches, Sizzle keeps results on the nodes; what it keeps is   *)
(* good for one run.  Of the page x this module also reads and changes     *)
(*   names     of the elements: the names of their tags                    *)
(*   byId, byClass   the browser finds elements by them reliably           *)
(*   holder    the node whose cache a node has: its own, or, in an old     *)
(*             browser, that of the node it was cloned from                *)
(*   sizzle    run, the current one (dirruns); runs, how many there were;  *)
(*             outer (outermostContext), None for none and for the document*)
(*             and slots, what is kept by node and name                    *)
(*   selected  history: what the last call gave and what it should give    *)
(* Operators return the page with an answer (is) or a set (elems).         *)
(***************************************************************************)
EXTENDS Manipulation

Combinators == {" ", ">", "+", "~"}
NoContext == -1
Hit(x, is) == [is |-> is, page |-> x]
Set(x, elems) == [elems |-> elems, page |-> x]
\* One operator for every element of a sequence, with the page handed on.
Joined(r, t) == Set(t.page, r.elems \o t.elems)
Gather(x, s, Op(_, _)) == FoldLeft(LAMBDA r, e: Joined(r, Op(r.page, e)), Set(x, << >>), s)
OnlyIf(r, e) == Set(r.page, IF r.is THEN <<e>> ELSE << >>)
IsSome(r) == Hit(r.page, r.elems # << >>)
IsNone(r) == Hit(r.page, r.elems = << >>)

isElement(x, e) == x.kind[e] = "element"
contains(x, a, b) == b # a /\ a \in ToSet(Upward(x, b))
Preceding(x, e) == IF x.parent[e] = None THEN << >> ELSE SubSeq(x.kids[x.parent[e]], 1, Position(x, e) - 1)
After(x, e) == IF x.parent[e] = None THEN << >>
               ELSE SubSeq(x.kids[x.parent[e]], Position(x, e) + 1, Len(x.kids[x.parent[e]]))
Way(x, e, dir) == CASE dir = "parentNode" -> Tail(Upward(x, e))
                    [] dir = "previousSibling" -> Reverse(Preceding(x, e))
                    [] dir = "nextSibling" -> After(x, e)

Slot(x, n, name) == LET at == <<x.holder[n], name>>
                    IN  IF at \in DOMAIN x.sizzle.slots THEN x.sizzle.slots[at] ELSE [run |-> 0]
SetSlot(x, n, name, value) == [x EXCEPT !.sizzle.slots = (<<x.holder[n], name>> :> value) @@ @]

-----------------------------------------------------------------------------
\* The filters of one element.  A place among the children is kept on the parent,
\* from which the next one is counted on; one from the end on every child.
Is(x, e, t) == isElement(x, e) /\ IF t.type = "TAG" THEN x.names[e] = t.name ELSE e \in x.match[t.name]
Alike(x, e, ofType) == SelectSeq(x.kids[x.parent[e]], LAMBDA n: isElement(x, n) /\ (ofType => x.names[n] = x.names[e]))
IndexIn(s, e) == SelectInSeq(s, LAMBDA n: n = e)
CountOf(x, s) == Len(SelectSeq(s, LAMBDA n: isElement(x, n)))

nthChild(x, e) ==
    LET p == x.parent[e]
        at == Position(x, e)
        kept == Slot(x, p, "nth")
        diff == IF kept.run = x.sizzle.run /\ kept.at < at
                THEN kept.diff + CountOf(x, SubSeq(x.kids[p], kept.at + 1, at))
                ELSE CountOf(x, SubSeq(x.kids[p], 1, at))
    IN  [page |-> SetSlot(x, p, "nth", [run |-> x.sizzle.run, at |-> at, diff |-> diff]), diff |-> diff]
nthLastChild(x, e) ==
    LET kept == Slot(x, e, "nth-last")
        seen == Reverse(SelectSeq(<<e>> \o After(x, e), LAMBDA n: isElement(x, n)))
        y == FoldLeft(LAMBDA w, i: SetSlot(w, seen[i], "nth-last", [run |-> x.sizzle.run, diff |-> i]),
                      x, [i \in DOMAIN seen |-> i])
    IN  IF kept.run = x.sizzle.run THEN [page |-> x, diff |-> kept.diff] ELSE [page |-> y, diff |-> Len(seen)]
nthOf(x, e, t) ==
    CASE ~t.ofType /\ t.which = "nth" -> nthChild(x, e)
      [] ~t.ofType /\ t.which = "nth-last" -> nthLastChild(x, e)
      [] t.ofType -> LET like == Alike(x, e, TRUE)
                     IN  [page |-> x, diff |-> IF t.which = "nth" THEN IndexIn(like, e) ELSE IndexIn(Reverse(like), e)]
Cycle(diff, a) == \/ diff = a
                  \/ a > 0 /\ diff >= 0 /\ diff % a = 0
                  \/ a < 0 /\ diff <= 0 /\ (0 - diff) % (0 - a) = 0
Fitting(r, t) == Hit(r.page, Cycle(r.diff - t.b, t.a))
CHILD(x, e, t) ==
    LET like == Alike(x, e, t.ofType)
    IN  CASE x.parent[e] = None -> Hit(x, FALSE)
          [] x.parent[e] # None /\ t.which = "first" -> Hit(x, IndexIn(like, e) = 1)
          [] x.parent[e] # None /\ t.which = "last" -> Hit(x, IndexIn(like, e) = Len(like))
          [] x.parent[e] # None /\ t.which = "only" -> Hit(x, Len(like) = 1)
          [] x.parent[e] # None /\ t.which \in {"nth", "nth-last"} ->
                 IF t.a = 1 /\ t.b = 0 THEN Hit(x, TRUE) ELSE Fitting(nthOf(x, e, t), t)
isEmptyElement(x, e) == x.kids[e] = << >>

-----------------------------------------------------------------------------
\* What the browser finds, in the order of the document.
getElementById(x, t) ==
    LET all == SelectSeq(Tree(x, Document), LAMBDA n: Is(x, n, t)) IN IF all = << >> THEN None ELSE all[1]
getElementsBy(x, context, t) == SelectSeq(Tail(Tree(x, context)), LAMBDA n: Is(x, n, t))
getElements(x, context) == SelectSeq(Tail(Tree(x, context)), LAMBDA n: isElement(x, n))

\* A compiled selector: its tokens know each other by where they stand in it.  c is
\* the selector, the group g of it with its tokens, and the context of the query.
doneName(c, n) == <<c.sel, c.g, n>>
relative(c, n) == IF n = 0 THEN " " ELSE c.tokens[n].type
dirOf(rel) == IF rel \in {" ", ">"} THEN "parentNode" ELSE "previousSibling"
Leads(c, n) == n = 0 \/ (n = 1 /\ c.tokens[1].type \in Combinators)

RECURSIVE matcher(_, _, _, _), superMatcher(_, _, _, _, _), Sizzle(_, _, _), Walk(_, _, _, _, _, _)
RECURSIVE Passed(_, _, _, _), Walked(_, _, _, _, _, _), Unmatched(_, _, _, _, _)

\* What a combinator is to reach: the context, when it is the first, or an element
\* that matches all before it.
Reached(x, e, c, n) == IF Leads(c, n) THEN Hit(x, e = c.context) ELSE matcher(x, e, c, n - 1)

\* One array is kept for all the nodes of a walk, so that its result is theirs.
Backwards(x, c, n, run, seen, is) ==
    LET dir == dirOf(relative(c, n))
        mine(p) == LET s == Slot(x, p, dir) IN s.run = run /\ s.done = doneName(c, n)
    IN  Hit(FoldLeft(LAMBDA w, p: IF ~mine(p) THEN w
                              ELSE SetSlot(w, p, dir, [run |-> run, done |-> doneName(c, n), is |-> is]),
                     x, seen), is)
Walk(x, c, n, run, path, seen) ==
    LET dir == dirOf(relative(c, n))
        p == Head(path)
        kept == Slot(x, p, dir)
        trying == SetSlot(x, p, dir, [run |-> run, done |-> doneName(c, n), is |-> FALSE])
    IN  CASE path = << >> -> Backwards(x, c, n, run, seen, FALSE)
          [] path # << >> /\ kept.run = x.sizzle.run /\ kept.done = doneName(c, n) ->
                 Backwards(x, c, n, run, seen, kept.is)
          [] OTHER -> Walked(Reached(trying, p, c, n), c, n, run, path, seen)
Walked(r, c, n, run, path, seen) ==
    IF r.is THEN Backwards(r.page, c, n, run, Append(seen, Head(path)), TRUE)
    ELSE Walk(r.page, c, n, run, Tail(path), Append(seen, Head(path)))
addCombinator(x, e, c, n) ==
    LET rel == relative(c, n)
        path == SelectSeq(Way(x, e, dirOf(rel)),
                          LAMBDA p: isElement(x, p) \/ (Leads(c, n) /\ dirOf(rel) = "parentNode"))
    IN  CASE rel \in {">", "+"} /\ path = << >> -> Hit(x, FALSE)
          [] rel \in {">", "+"} /\ path # << >> -> Reached(x, path[1], c, n)
          [] rel \in {" ", "~"} -> Walk(x, c, n, x.sizzle.run, path, << >>)

\* matcherFromTokens: from the last token to the first; the first combinator, or an
\* implied one, has to reach the context, if that is the one of the whole query.
Filter(x, e, t) ==
    CASE t.type \in {"TAG", "CLASS", "ID"} -> Hit(x, Is(x, e, t))
      [] t.type = "CHILD" -> CHILD(x, e, t)
      [] t.type = "empty" -> Hit(x, isEmptyElement(x, e))
      [] t.type = "not" -> IsNone(superMatcher(x, t.arg, <<e>>, NoContext, FALSE))
      [] t.type = "has" -> IsSome(Sizzle(x, t.arg, e))
Passed(r, e, c, n) == IF r.is THEN matcher(r.page, e, c, n - 1) ELSE r
matcher(x, e, c, n) ==
    CASE n = 0 /\ c.context # x.sizzle.outer -> Hit(x, TRUE)
      [] n > 0 /\ c.tokens[n].type \notin Combinators -> Passed(Filter(x, e, c.tokens[n]), e, c, n)
      [] OTHER -> addCombinator(x, e, c, n)

\* Mutant of NewRun: what was kept stays good.
NewRunKept(x) == [x EXCEPT !.sizzle.runs = 1, !.sizzle.run = 1]

\* A query has a run of its own; one within a query too, after which the outer one
\* goes on with its own for the next element.
NewRun(x) == [x EXCEPT !.sizzle.runs = @ + 1, !.sizzle.run = x.sizzle.runs + 1]
RECURSIVE AnyGroup(_, _, _, _, _)
Unmatched(r, e, sel, context, g) == IF r.is \/ g = 1 THEN r ELSE AnyGroup(r.page, e, sel, context, g - 1)
AnyGroup(x, e, sel, context, g) ==
    Unmatched(matcher(x, e, [sel |-> sel, g |-> g, tokens |-> sel[g], context |-> context], Len(sel[g])),
              e, sel, context, g)
superMatcher(x, sel, elems, context, outermost) ==
    LET y == NewRun(x)
        begun == IF outermost THEN [y EXCEPT !.sizzle.outer = IF context = Document THEN None ELSE context] ELSE y
        Back(r) == IF outermost THEN [r EXCEPT !.page.sizzle.run = y.sizzle.run] ELSE r
        Over(r) == IF outermost THEN [Back(r) EXCEPT !.page.sizzle.outer = x.sizzle.outer] ELSE r
    IN  Over(Gather(begun, elems, LAMBDA w, e: OnlyIf(Back(AnyGroup(w, e, sel, context, Len(sel))), e)))

\* select: an ID in front becomes the context; of a single group the elements of the
\* last compound come from the browser, by the last token it knows.
needsContext(sel) == sel[1][1].type \in Combinators \ {" "}
RECURSIVE HasSibling(_)
HasSibling(sel) ==
    \E g \in DOMAIN sel: \E n \in DOMAIN sel[g]:
        LET t == sel[g][n]
        IN  \/ t.type \in {"+", "~"} \/ (t.type = "CHILD" /\ t.a # 0 /\ t.b > 0)
            \/ t.type \in {"not", "has"} /\ HasSibling(t.arg)
Outermost(x, sel, context) == IF HasSibling(sel) /\ x.parent[context] # None THEN x.parent[context] ELSE context
Whole(x, sel, context) == [sel |-> sel, context |-> context, seed |-> getElements(x, Outermost(x, sel, context))]

Finds(x, t, context) == \/ t.type = "TAG" \/ (t.type = "CLASS" /\ x.byClass)
                        \/ t.type = "ID" /\ x.byId /\ context = Document
findToken(x, t, context) ==
    IF t.type = "ID" THEN (IF getElementById(x, t) = None THEN << >> ELSE <<getElementById(x, t)>>)
    ELSE getElementsBy(x, context, t)
\* Nothing is left of the selector when nothing is found or there was one token.
Seeded(x, tokens, i, context) ==
    LET seed == findToken(x, tokens[i], context)
    IN  [sel |-> IF seed = << >> \/ Len(tokens) = 1 THEN << >> ELSE <<RemoveAt(tokens, i)>>,
         context |-> context, seed |-> seed]
SelectIn(x, tokens, context) ==
    LET last == {i \in DOMAIN tokens: \A j \in i..Len(tokens): tokens[j].type \notin Combinators}
        finds == {i \in last: Finds(x, tokens[i], context)}
    IN  IF needsContext(<<tokens>>) \/ finds = {} THEN Whole(x, <<tokens>>, context)
        ELSE Seeded(x, tokens, CHOOSE i \in finds: \A j \in finds: j <= i, context)
SelectFrom(x, sel, context) ==
    LET tokens == sel[1]
        byId == /\ Len(tokens) > 2 /\ tokens[1].type = "ID" /\ tokens[2].type \in Combinators
                /\ x.byId /\ context = Document
        root == getElementById(x, tokens[1])
    IN  CASE Len(sel) > 1 -> Whole(x, sel, context)
          [] Len(sel) = 1 /\ ~byId -> SelectIn(x, tokens, context)
          [] Len(sel) = 1 /\ byId /\ root = None -> [sel |-> << >>, context |-> context, seed |-> << >>]
          [] Len(sel) = 1 /\ byId /\ root # None -> SelectIn(x, Tail(tokens), root)
Compiled(x, q) == IF q.sel = << >> THEN Set(x, q.seed) ELSE superMatcher(x, q.sel, q.seed, q.context, TRUE)
select(x, sel, context) == Compiled(x, SelectFrom(x, sel, context))

\* Sizzle without a seed: an ID, a TAG or a CLASS alone needs no matching.
Shortcut(x, t, context) ==
    \/ t.type = "TAG" \/ (t.type = "CLASS" /\ x.byClass)
    \/ t.type = "ID" /\ (context = Document \/ LET e == getElementById(x, t) IN e # None /\ contains(x, context, e))
Sizzle(x, sel, context) ==
    CASE x.kind[context] \notin {"element", "document"} -> Set(x, << >>)
      [] /\ x.kind[context] \in {"element", "document"}
         /\ Len(sel) = 1 /\ Len(sel[1]) = 1 /\ Shortcut(x, sel[1][1], context) ->
             Set(x, findToken(x, sel[1][1], context))
      [] OTHER -> select(x, sel, context)

-----------------------------------------------------------------------------
\* Sets in the order of the document, each node once.  Browsers without
\* compareDocumentPosition compare the ways from the root; what has no parent is last.
\* Nodes that have nothing in common stay as they came.
Path(x, e) == Reverse(Upward(x, e))
siblingCheck(x, a, b) == IF Position(x, a) < Position(x, b) THEN -1 ELSE 1
comparePaths(x, ap, bp) ==
    LET same == {i \in 1..Len(ap): i <= Len(bp) /\ \A j \in 1..i: ap[j] = bp[j]}
        i == Cardinality(same) + 1
    IN  CASE same = {} -> IF ap[1] = Document THEN -1 ELSE IF bp[1] = Document THEN 1 ELSE 0
          [] same # {} /\ i > Len(ap) -> -1
          [] same # {} /\ i <= Len(ap) /\ i > Len(bp) -> 1
          [] OTHER -> siblingCheck(x, ap[i], bp[i])
sortOrder(x, a, b) ==
    CASE a = b -> 0
      [] a # b /\ x.old /\ (x.parent[a] = None \/ x.parent[b] = None) ->
             IF a = Document THEN -1 ELSE IF b = Document THEN 1
             ELSE IF x.parent[a] # None THEN -1 ELSE IF x.parent[b] # None THEN 1 ELSE 0
      [] OTHER -> comparePaths(x, Path(x, a), Path(x, b))
SortedIn(x, s, e) ==
    LET after == {i \in DOMAIN s: \A j \in i..Len(s): sortOrder(x, s[j], e) > 0}
    IN  InsertAt(s, Len(s) - Cardinality(after) + 1, e)
uniqueSort(x, s) ==
    FoldLeft(LAMBDA r, e: IF r # << >> /\ Last(r) = e THEN r ELSE Append(r, e), << >>,
             FoldLeft(LAMBDA r, e: SortedIn(x, r, e), << >>, s))

-----------------------------------------------------------------------------
\* jQuery: find, filter, not and is.  A filter is a query of the document whose
\* elements are given; not with a simple selector is one with :not.
Unique(x, r, n) == IF n > 1 THEN Set(r.page, uniqueSort(x, r.elems)) ELSE r
find(x, s, sel) == Unique(x, Gather(x, s, LAMBDA w, e: Sizzle(w, sel, e)), Len(s))
jQuery(x, sel) ==
    IF Len(sel) = 1 /\ Len(sel[1]) = 1 /\ sel[1][1].type = "ID" THEN Set(x, findToken(x, sel[1][1], Document))
    ELSE find(x, <<Document>>, sel)
jQueryFilter(x, sel, s, not) ==
    superMatcher(x, IF not THEN << << [type |-> "not", arg |-> sel] >> >> ELSE sel,
                 SelectSeq(s, LAMBDA e: isElement(x, e)), Document, TRUE)
matchesSelector(x, e, sel) == IsSome(jQueryFilter(x, sel, <<e>>, FALSE))

RECURSIVE isSimple(_)
isSimple(sel) ==
    LET rest(tokens) == \A n \in DOMAIN tokens: tokens[n].type \in Combinators \cup {"TAG"}
        t == sel[1][1]
    IN  Len(sel) = 1 /\ rest(Tail(sel[1])) /\ (t.type \in {"not", "has"} => isSimple(t.arg) /\ t.arg[1][1].type = "TAG")
Sifted(r, s, not) == Set(r.page, SelectSeq(s, LAMBDA e: (e \in ToSet(r.elems)) # not))
Filtered(r, s, sel, not) == IF isSimple(sel) THEN r ELSE Sifted(r, s, not)
winnow(x, s, sel, not) == Filtered(jQueryFilter(x, sel, s, not /\ isSimple(sel)), s, sel, not)
is(x, s, sel) == IsSome(IF needsContext(sel) THEN Sifted(jQuery(x, sel), s, FALSE) ELSE winnow(x, s, sel, FALSE))

\* has, closest and add.
Having(x, r, s) == Set(r.page, SelectSeq(s, LAMBDA e: \E n \in ToSet(r.elems): contains(x, e, n)))
has(x, s, sel) == Having(x, find(x, s, sel), s)
IsClosest(x, cur, sel, pos) ==
    CASE needsContext(sel) -> Hit(x, cur \in ToSet(pos))
      [] ~needsContext(sel) /\ isElement(x, cur) -> matchesSelector(x, cur, sel)
      [] OTHER -> Hit(x, FALSE)
RECURSIVE Closest(_, _, _, _, _), CloserThan(_, _, _, _, _)
CloserThan(r, cur, sel, context, pos) ==
    IF r.is THEN Set(r.page, <<cur>>) ELSE Closest(r.page, r.page.parent[cur], sel, context, pos)
Closest(x, cur, sel, context, pos) ==
    IF cur \in {None, context} THEN Set(x, << >>)
    ELSE CloserThan(IsClosest(x, cur, sel, pos), cur, sel, context, pos)
UniqueAll(x, r) == Unique(x, r, Len(r.elems))
ClosestIn(x, s, sel, context, pos) ==
    UniqueAll(x, Gather(pos.page, s, LAMBDA w, e: Closest(w, e, sel, context, pos.elems)))
closest(x, s, sel, context) ==
    ClosestIn(x, s, sel, context, IF ~needsContext(sel) THEN Set(x, << >>)
                                  ELSE find(x, <<IF context = None THEN Document ELSE context>>, sel))
AddedTo(x, s, r) == Set(r.page, uniqueSort(x, s \o r.elems))
addTo(x, s, sel) == AddedTo(x, s, jQuery(x, sel))

\* The way from an element until the document, or one that is until ("none": all).
RECURSIVE Until(_, _, _), UntilOr(_, _, _)
UntilOr(r, path, until) ==
    IF r.is THEN Set(r.page, << >>)
    ELSE Joined(OnlyIf(Hit(r.page, isElement(r.page, path[1])), path[1]), Until(r.page, Tail(path), until))
Until(x, path, until) ==
    IF path = << >> THEN Set(x, << >>)
    ELSE UntilOr(IF isElement(x, path[1]) THEN is(x, <<path[1]>>, until) ELSE Hit(x, FALSE), path, until)
dir(x, e, way, until) ==
    LET path == SelectSeq(Way(x, e, way), LAMBDA n: n # Document)
    IN  IF until = << >> THEN Set(x, SelectSeq(path, LAMBDA n: isElement(x, n))) ELSE Until(x, path, until)
Directions == [parents |-> "parentNode", parentsUntil |-> "parentNode",
               nextAll |-> "nextSibling", nextUntil |-> "nextSibling",
               prevAll |-> "previousSibling", prevUntil |-> "previousSibling"]
FirstOf(s) == IF s = << >> THEN s ELSE <<s[1]>>
sibling(x, e, way) == FirstOf(SelectSeq(Way(x, e, way), LAMBDA n: isElement(x, n)))
siblings(x, e) == SelectSeq(Preceding(x, e) \o After(x, e), LAMBDA n: isElement(x, n))
Step(x, e, name, until) ==
    CASE name = "parent" -> Set(x, FirstOf(Way(x, e, "parentNode")))
      [] name \in DOMAIN Directions -> dir(x, e, Directions[name], until)
      [] name = "next" -> Set(x, sibling(x, e, "nextSibling"))
      [] name = "prev" -> Set(x, sibling(x, e, "previousSibling"))
      [] name = "siblings" -> Set(x, siblings(x, e))
      [] name = "children" -> Set(x, SelectSeq(x.kids[e], LAMBDA n: isElement(x, n)))
      [] name = "contents" -> Set(x, x.kids[e])
guaranteedUnique == {"children", "contents", "next", "prev"}
Backward == {"parents", "parentsUntil", "prevAll", "prevUntil"}
Arranged(x, r, name) ==
    LET once == IF name \in guaranteedUnique THEN r.elems ELSE uniqueSort(x, r.elems)
    IN  Set(r.page, IF name \in Backward THEN Reverse(once) ELSE once)
Selecting(r, sel) == IF sel = << >> THEN r ELSE jQueryFilter(r.page, sel, r.elems, FALSE)
Traversed(x, r, n, name) == IF n = 1 THEN r ELSE Arranged(x, r, name)
traverse(x, s, name, until, sel) ==
    Traversed(x, Selecting(Gather(x, s, LAMBDA w, e: Step(w, e, name, until)), sel), Len(s), name)

-----------------------------------------------------------------------------
\* What a selector says of an element: nothing is kept, no order, no shortcut.  The
\* scope is the element a query starts from, None if elements are given.
Related(x, e, rel) ==
    CASE rel = " " -> ToSet(Way(x, e, "parentNode"))
      [] rel = ">" -> {x.parent[e]}
      [] rel = "+" -> ToSet(FirstOf(SelectSeq(Way(x, e, "previousSibling"), LAMBDA n: isElement(x, n))))
      [] rel = "~" -> ToSet(SelectSeq(Preceding(x, e), LAMBDA n: isElement(x, n)))
RECURSIVE Fits(_, _, _, _, _)
Described(x, e, sel, scope) == \E g \in DOMAIN sel: Fits(x, e, sel[g], Len(sel[g]), scope)
Elsewhere(x) == {n \in DOMAIN x.kind: isElement(x, n)}
Place(x, e, t) ==
    LET before == {n \in ToSet(Preceding(x, e)): isElement(x, n) /\ (t.ofType => x.names[n] = x.names[e])}
        behind == {n \in ToSet(After(x, e)): isElement(x, n) /\ (t.ofType => x.names[n] = x.names[e])}
        nth(others) == \E n \in 0..Cardinality(others) + 2: Cardinality(others) + 1 = t.a * n + t.b
    IN  /\ x.parent[e] # None
        /\ CASE t.which = "first" -> before = {}
             [] t.which = "last" -> behind = {}
             [] t.which = "only" -> before \cup behind = {}
             [] t.which = "nth" -> nth(before)
             [] t.which = "nth-last" -> nth(behind)
Fulfils(x, e, t) ==
    CASE t.type \in {"TAG", "CLASS", "ID"} -> Is(x, e, t)
      [] t.type = "CHILD" -> Place(x, e, t)
      [] t.type = "empty" -> x.kids[e] = << >>
      [] t.type = "not" -> ~Described(x, e, t.arg, None)
      [] t.type = "has" -> \E n \in Elsewhere(x): Described(x, n, t.arg, e)
Fits(x, e, tokens, n, scope) ==
    CASE n = 0 -> scope = None \/ contains(x, scope, e)
      [] n = 1 /\ tokens[1].type \in Combinators -> scope \in Related(x, e, tokens[1].type)
      [] n > 1 /\ tokens[n].type \in Combinators ->
             \E p \in Related(x, e, tokens[n].type) \ {None}: isElement(x, p) /\ Fits(x, p, tokens, n - 1, scope)
      [] OTHER -> Fulfils(x, e, tokens[n]) /\ Fits(x, e, tokens, n - 1, scope)

\* What a call should give: in the order of the document, of the elements that were
\* given, or backwards.  Of nodes that are not in the document no order is promised.
InOrder(x, nodes) == LET known == SelectSeq(Tree(x, Document), LAMBDA n: n \in nodes)
                     IN  known \o SetToSeq(nodes \ ToSet(known))
Found(x, s, sel) == {n \in Elsewhere(x): \E i \in DOMAIN s: Described(x, n, sel, s[i])}
ScopeOf(sel, context) == IF ~needsContext(sel) THEN None ELSE IF context = None THEN Document ELSE context
Nearest(x, e, sel, context) ==
    LET up == SelectSeq(Upward(x, e), LAMBDA n: isElement(x, n) /\ (contains(x, context, e) => contains(x, context, n)))
    IN  ToSet(FirstOf(SelectSeq(up, LAMBDA n: Described(x, n, sel, ScopeOf(sel, context)))))
Ways == Directions @@ [parent |-> "parentNode", next |-> "nextSibling", prev |-> "previousSibling"]
Along(x, e, name, until) ==
    LET way == SelectSeq(Way(x, e, Ways[name]), LAMBDA n: isElement(x, n))
        ends == {i \in DOMAIN way: until # << >> /\ Described(x, way[i], until, None)}
    IN  CASE name = "siblings" -> {n \in Elsewhere(x): n # e /\ x.parent[n] = x.parent[e] /\ x.parent[e] # None}
          [] name \in {"children", "contents"} ->
                 {n \in DOMAIN x.kind: x.parent[n] = e /\ (isElement(x, n) \/ name = "contents")}
          [] name = "parent" -> ToSet(FirstOf(Way(x, e, "parentNode")))
          [] name \in {"next", "prev"} -> ToSet(FirstOf(way))
          [] OTHER -> {way[i]: i \in {j \in DOMAIN way: \A k \in ends: j < k}}
Expected(x, o) ==
    CASE o.op = "find" -> InOrder(x, Found(x, o.from, o.sel))
      [] o.op = "filter" -> SelectSeq(o.from, LAMBDA e: Described(x, e, o.sel, None))
      [] o.op = "not" -> SelectSeq(o.from, LAMBDA e: ~Described(x, e, o.sel, None))
      [] o.op = "is" ->
             IF \E i \in DOMAIN o.from: Described(x, o.from[i], o.sel, ScopeOf(o.sel, None)) THEN o.from ELSE << >>
      [] o.op = "has" ->
             SelectSeq(o.from, LAMBDA e: \E n \in Found(x, o.from, o.sel): contains(x, e, n))
      [] o.op = "closest" -> InOrder(x, UNION {Nearest(x, e, o.sel, o.context): e \in ToSet(o.from)})
      [] o.op = "add" -> InOrder(x, ToSet(o.from) \cup Found(x, <<Document>>, o.sel))
      [] o.op = "traverse" ->
             LET some(e) == {n \in Along(x, e, o.name, o.until):
                                 o.sel = << >> \/ (isElement(x, n) /\ Described(x, n, o.sel, None))}
                 all == InOrder(x, UNION {some(e): e \in ToSet(o.from)})
             IN  CASE o.name \in Backward -> Reverse(all)
                   [] o.name \in guaranteedUnique -> FlattenSeq([i \in DOMAIN o.from |-> InOrder(x, some(o.from[i]))])
                   [] OTHER -> all
Answered(x, s) == [inDocument |-> SelectSeq(s, LAMBDA n: Contained(x, n)), all |-> ToSet(s), size |-> Len(s)]

AllOrNone(r, s) == Set(r.page, IF r.is THEN s ELSE << >>)
SelectCall(x, o) ==
    CASE o.op = "find" -> find(x, o.from, o.sel)
      [] o.op \in {"filter", "not"} -> winnow(x, o.from, o.sel, o.op = "not")
      [] o.op = "is" -> AllOrNone(is(x, o.from, o.sel), o.from)
      [] o.op = "has" -> has(x, o.from, o.sel)
      [] o.op = "closest" -> closest(x, o.from, o.sel, o.context)
      [] o.op = "add" -> addTo(x, o.from, o.sel)
      [] o.op = "traverse" -> traverse(x, o.from, o.name, o.until, o.sel)
Noted(x, r, want) == [r.page EXCEPT !.selected = [got |-> Answered(x, r.elems), want |-> Answered(x, want)]]
Selected(x, o) == Noted(x, SelectCall(x, o), Expected(x, o))
=============================================================================
