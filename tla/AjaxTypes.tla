------------------------------ MODULE AjaxTypes ------------------------------
(***************************************************************************)
(* The data types of jQuery.ajax: which prefilters and which transport the *)
(* types of a request select, and which converters its answer goes through *)
(* (inspectPrefiltersOrTransports, ajaxHandleResponses, ajaxConvert).      *)
(* "*" stands for a type that is to be found out.                          *)
(***************************************************************************)
EXTENDS Sequences, SequencesExt

\* ajaxPrefilter and ajaxTransport as jQuery itself calls them.
prefilters == [json |-> <<"jsonp">>, jsonp |-> <<"jsonp">>, script |-> <<"script">>]
transports == [script |-> <<"script">>]
Under(structure, type) == IF type \in DOMAIN structure THEN structure[type] ELSE <<>>

\* The prefilter of json and jsonp is for jsonp alone, or where the url has a =?.
IsJsonp(types, question) == types[1] = "jsonp" \/ (types[1] = "json" /\ question)

\* inspectPrefiltersOrTransports of the prefilters: the jsonp one delegates to
\* script, which goes to the front of the types.
PrefilterTypes(types, question) ==
    IF IsJsonp(types, question) THEN <<"script", "json">> \o Tail(types) ELSE types

\* ... and of the transports: the type first, then "*".
TransportOf(types, crossDomain, cors) ==
    CASE Under(transports, types[1]) # <<>> /\ crossDomain -> "script"
      [] Under(transports, types[1]) = <<>> /\ crossDomain -> IF cors THEN "xhr" ELSE "none"
      [] OTHER -> "xhr"

\* contents, in the order of the object, and the converters with their results:
\* "same" is true, a conversion that changes nothing.
Contents == {"xml", "html", "json", "script"}
Converters(jsonp) ==
    << <<"*", "text", "String">>, <<"text", "html", "same">>, <<"text", "json", "parseJSON">>,
       <<"text", "xml", "parseXML">>, <<"text", "script", "globalEval">> >>
    \o (IF jsonp THEN << <<"script", "json", "container">> >> ELSE <<>>)
Known(cs, from, to) == \E i \in DOMAIN cs: cs[i][1] = from /\ cs[i][2] = to
Result(cs, from, to) == (CHOOSE c \in ToSet(cs): c[1] = from /\ c[2] = to)[3]

\* ajaxHandleResponses: the types from the one that answered on.
HandleResponses(types, ct, responses, cs) ==
    LET isAuto(t) == t = "*"
        known == SelectInSeq(types, LAMBDA t: ~isAuto(t))
        rest == IF known = 0 THEN <<>> ELSE SubSeq(types, known, Len(types))
        typed == IF types # <<>> /\ isAuto(types[1]) /\ ct \in Contents THEN <<ct>> \o rest ELSE rest
        fits == SelectSeq(responses, LAMBDA t: typed = <<>> \/ Known(cs, t, typed[1]))
        final == IF fits # <<>> THEN fits[1] ELSE responses[1]
    IN  CASE responses = <<>> -> typed
          [] responses # <<>> /\ typed # <<>> /\ typed[1] \in ToSet(responses) -> typed
          [] OTHER -> <<final>> \o typed

\* A converter from a type to another: one for it or one for every type.
Direct(cs, from, to) == Known(cs, from, to) \/ Known(cs, "*", to)
DirectResult(cs, from, to) == IF Known(cs, from, to) THEN Result(cs, from, to) ELSE Result(cs, "*", to)

\* ajaxConvert: the results on the way from prev to another type.  Without a
\* converter a pair of them is sought; "none" is where it does not go on.
Applied(result) == IF result = "same" THEN <<>> ELSE <<result>>
Conversion(prev, to, cs) ==
    LET pair == SelectSeq(cs, LAMBDA c: c[2] = to /\ Direct(cs, prev, c[1]))
    IN  CASE prev \in {"*", to} -> <<>>
          [] prev \notin {"*", to} /\ Direct(cs, prev, to) -> Applied(DirectResult(cs, prev, to))
          [] prev \notin {"*", to} /\ ~Direct(cs, prev, to) /\ pair = <<>> -> <<"none">>
          [] OTHER -> Applied(DirectResult(cs, prev, pair[1][1])) \o Applied(pair[1][3])

\* From each type to the next that is not "*", up to the first that fails.
Convert(types, cs) ==
    LET next(s, to) == IF to = "*" \/ "none" \in ToSet(s.results) THEN s
                       ELSE [prev |-> to, results |-> s.results \o Conversion(s.prev, to, cs)]
    IN  IF types = <<>> THEN <<>>
        ELSE FoldLeft(next, [prev |-> Head(types), results |-> <<>>], Tail(types)).results
=============================================================================
