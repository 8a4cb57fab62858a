---------------------------- MODULE ElementData ----------------------------
(***************************************************************************)
(* jQuery.cache: what jQuery and the page keep for the nodes of a          *)
(* document, found by a number that is written on the node.  Numbers are   *)
(* used again when the data of a node is cleaned.                          *)
(*                                                                         *)
(* x is the page; this module reads and changes                            *)
(*   kind     of a node: "element", "document", "text", "object" (a plain  *)
(*            JavaScript object) or "applet" (an element without data)     *)
(*   expando  the number of a node, 0 without one                          *)
(*   cache    the entries, by number                                       *)
(*   deletedIds, guid  the numbers to use again and the next new one       *)
(*   attrs    the data-* attributes of a node, by camelCased name          *)
(*   wrote, dashed  history: the values the page should read, and the      *)
(*            nodes that got a name with a dash through an object          *)
(***************************************************************************)
EXTENDS Integers, Sequences, SequencesExt, FiniteSets

NoValue == 0
Keys == {"a-b", "aB", "c"}
camelCase(k) == IF k = "a-b" THEN "aB" ELSE k
CamelKeys == {camelCase(k): k \in Keys}

\* The private data by its name, and the public data, which is an object of its
\* own once it was needed (has).  The queue, its hooks and what is remembered for
\* show and hide are objects that two entries may share: references, 0 without one.
NoPublic == [has |-> FALSE, keys |-> [k \in Keys |-> NoValue]]
EmptyEntry == [data |-> NoPublic, events |-> << >>, handle |-> FALSE, queue |-> 0, hooks |-> 0,
               fxshow |-> 0, finish |-> FALSE, parsedAttrs |-> FALSE, focusin |-> 0, lazy |-> FALSE,
               globalEval |-> FALSE, olddisplay |-> ""]

acceptData(x, e) == x.kind[e] \in {"element", "document", "object"}
isNode(x, e) == x.kind[e] # "object"

Has(x, e) == x.expando[e] \in DOMAIN x.cache
Entry(x, e) == IF Has(x, e) THEN x.cache[x.expando[e]] ELSE EmptyEntry
isEmptyObject(public) == \A k \in Keys: public.keys[k] = NoValue
isEmptyDataObject(entry) == isEmptyObject(entry.data) /\ [entry EXCEPT !.data = NoPublic] = EmptyEntry
hasData(x, e) == Has(x, e) /\ ~isEmptyDataObject(Entry(x, e))

\* Mutant of NewId: the number to use again is not taken off the list.
NewIdKept(x, e) ==
    CASE ~isNode(x, e) -> [x EXCEPT !.expando[e] = 0 - e]
      [] isNode(x, e) /\ x.deletedIds # << >> -> [x EXCEPT !.expando[e] = Last(x.deletedIds)]
      [] OTHER -> [x EXCEPT !.expando[e] = x.guid, !.guid = @ + 1]

\* The number of a node that has none; an object carries its entry itself.
NewId(x, e) ==
    CASE ~isNode(x, e) -> [x EXCEPT !.expando[e] = 0 - e]
      [] isNode(x, e) /\ x.deletedIds # << >> ->
             [x EXCEPT !.expando[e] = Last(x.deletedIds), !.deletedIds = Front(@)]
      [] OTHER -> [x EXCEPT !.expando[e] = x.guid, !.guid = @ + 1]

\* internalData when it has something to write, or nothing to look up: the entry
\* is made.  A look-up of a name makes none, see Entry.
Make(x, e) ==
    IF ~acceptData(x, e) \/ Has(x, e) THEN x
    ELSE LET y == IF x.expando[e] = 0 THEN NewId(x, e) ELSE x
         IN  [y EXCEPT !.cache = (y.expando[e] :> EmptyEntry) @@ @]
Kept(x, e, entry) == [x EXCEPT !.cache[x.expando[e]] = entry]
Write(x, e, entry) == IF acceptData(x, e) THEN Kept(Make(x, e), e, entry) ELSE x
Public(x, e, name, value) ==
    Write(x, e, [Entry(x, e) EXCEPT !.data.has = TRUE, !.data.keys[name] = value])

\* jQuery.data with a name and a value, with an object, and with a name: it is
\* written camelCased, or as the object has it, and read as it is first.
data(x, e, name, value) == Public(x, e, camelCase(name), value)
dataObject(x, e, name, value) == Public(x, e, name, value)
dataOf(x, e, name) == LET keys == Entry(x, e).data.keys
                      IN  IF keys[name] # NoValue THEN keys[name] ELSE keys[camelCase(name)]

\* An entry that holds nothing any more: the end of cleanData for one node.
Destroy(x, e) ==
    IF ~Has(x, e) THEN x
    ELSE LET id == x.expando[e]
             y == [x EXCEPT !.cache = [i \in DOMAIN @ \ {id} |-> @[i]], !.expando[e] = 0]
         IN  IF isNode(x, e) THEN [y EXCEPT !.deletedIds = Append(@, id)] ELSE y
Reap(x, e) == IF isEmptyDataObject(Entry(x, e)) THEN Destroy(x, e) ELSE x

\* _removeData: a private name is gone, and so is the entry if it was the last.
removePrivate(x, e, entry) == IF Has(x, e) THEN Reap(Write(x, e, entry), e) ELSE x

\* removeData of a name: as it is, camelCased, or several between spaces; names
\* in an array go both ways.  Without names all of it goes.
Named(x, e, names, array) ==
    LET keys == Entry(x, e).data.keys
    IN  IF array THEN names \cup {camelCase(k): k \in names}
        ELSE UNION {IF keys[k] # NoValue /\ Cardinality(names) = 1 THEN {k} ELSE {camelCase(k)}: k \in names}
removeData(x, e, names, array) ==
    IF ~acceptData(x, e) \/ ~Has(x, e) THEN x
    ELSE LET gone == Named(x, e, names, array)
             left == [k \in Keys |-> IF k \in gone THEN NoValue ELSE Entry(x, e).data.keys[k]]
             y == [x EXCEPT !.cache[x.expando[e]].data.keys = left]
         IN  IF names # {} /\ Entry(x, e).data.has /\ ~isEmptyObject(Entry(y, e).data) THEN y
             ELSE Reap([x EXCEPT !.cache[x.expando[e]].data = NoPublic], e)

-----------------------------------------------------------------------------
\* $(e).data(name): what is there, or else the attribute, which is then kept.
dataAttr(x, e, name) ==
    LET k == camelCase(name)
    IN  IF dataOf(x, e, name) = NoValue /\ x.kind[e] = "element" /\ x.attrs[e][k] # NoValue
        THEN [data(x, e, name, x.attrs[e][k]) EXCEPT !.wrote[e][k] = x.attrs[e][k]] ELSE x
\* $(e).data(): all of it, with the attributes once.
dataAll(x, e) ==
    LET y == IF acceptData(x, e) THEN Write(x, e, [Entry(x, e) EXCEPT !.data.has = TRUE]) ELSE x
        z == FoldLeft(LAMBDA w, k: dataAttr(w, e, k), y, SetToSeq(CamelKeys))
    IN  IF x.kind[e] # "element" \/ Entry(y, e).parsedAttrs THEN y
        ELSE Write(z, e, [Entry(z, e) EXCEPT !.parsedAttrs = TRUE])

-----------------------------------------------------------------------------
\* Every entry has one node, a number that may be used again has none, and the
\* page reads what it wrote to a node last, whoever had its number before.  A
\* name with a dash that came in an object hides what is written later.
EntriesBelong(x, nodes) ==
    /\ \A e, f \in nodes: e # f => x.expando[e] = 0 \/ x.expando[e] # x.expando[f]
    /\ DOMAIN x.cache \subseteq {x.expando[e]: e \in nodes}
    /\ IsInjective(x.deletedIds)
    /\ ToSet(x.deletedIds) \cap {x.expando[e]: e \in nodes} = {}
    /\ \A e \in nodes \ x.dashed, k \in Keys: dataOf(x, e, k) = x.wrote[e][camelCase(k)]
=============================================================================
