--------------------------- MODULE SockTransports ---------------------------
(***************************************************************************)
(* The transports SockJS can use and when: the list of transport-list, the *)
(* enabled predicates of the transports, the choice of filterToEnabled and *)
(* of InfoReceiver._getReceiver.  A browser is the set of the features the *)
(* code tests, a place says how the url of the socket relates to the page  *)
(* and info is what the server answers to /info.                           *)
(***************************************************************************)
EXTENDS Naturals, Sequences

Features == {"document", "WebSocket", "XMLHttpRequest", "withCredentials", "EventSource",
             "XDomainRequest", "domain", "postMessage", "htmlfile", "opera", "konqueror"}

Streaming == <<"websocket", "xhr-streaming", "xdr-streaming", "eventsource", "iframe-eventsource">>
Polling == <<"htmlfile", "iframe-htmlfile", "xhr-polling", "xdr-polling", "iframe-xhr-polling",
             "jsonp-polling">>
TransportList == Streaming \o Polling
TransportNames == {TransportList[i]: i \in DOMAIN TransportList}

\* iframe-wrap: the transport inside the iframe of an iframe transport.
FacadeTransport == [t \in {"iframe-eventsource", "iframe-htmlfile", "iframe-xhr-polling"} |->
    CASE t = "iframe-eventsource" -> "eventsource"
      [] t = "iframe-htmlfile"    -> "htmlfile"
      [] t = "iframe-xhr-polling" -> "xhr-polling"]
Framed(t) == t \in DOMAIN FacadeTransport
Engine(t) == IF Framed(t) THEN FacadeTransport[t] ELSE t

-----------------------------------------------------------------------------
\* The drivers: XHRLocal, XHRCors, XDR, the htmlfile receiver and the iframe.
\* window.postMessage is hopeless in Konqueror.

LocalEnabled(b) == "XMLHttpRequest" \in b
CorsEnabled(b) == {"XMLHttpRequest", "withCredentials"} \subseteq b
HasDomain(b) == "document" \notin b \/ "domain" \in b
XdrEnabled(b) == "XDomainRequest" \in b /\ HasDomain(b)
IframeEnabled(b) == {"document", "postMessage"} \subseteq b /\ "konqueror" \notin b
HtmlfileEnabled(b) == "htmlfile" \in b \/ IframeEnabled(b)

-----------------------------------------------------------------------------
\* The enabled predicates.  i holds the flags of info and of the place that
\* are true: "cookie_needed", "nullOrigin", "sameOrigin", "sameScheme".

WebSocketOn(b) == "WebSocket" \in b
XhrStreamingOn(b, i) == "nullOrigin" \notin i /\ "opera" \notin b /\ CorsEnabled(b)
XdrStreamingOn(b, i) == /\ i \cap {"cookie_needed", "nullOrigin"} = {}
                        /\ XdrEnabled(b) /\ "sameScheme" \in i
EventSourceOn(b) == "EventSource" \in b
HtmlFileOn(b, i) == HtmlfileEnabled(b) /\ "sameOrigin" \in i
XhrPollingOn(b, i) == /\ "nullOrigin" \notin i
                      /\ (LocalEnabled(b) /\ "sameOrigin" \in i) \/ CorsEnabled(b)
JsonpOn(b) == "document" \in b

EngineOn(t, b, i) ==
    CASE t = "websocket"     -> WebSocketOn(b)
      [] t = "xhr-streaming" -> XhrStreamingOn(b, i)
      [] t \in {"xdr-streaming", "xdr-polling"} -> XdrStreamingOn(b, i)
      [] t = "eventsource"   -> EventSourceOn(b)
      [] t = "htmlfile"      -> HtmlFileOn(b, i)
      [] t = "xhr-polling"   -> XhrPollingOn(b, i)
      [] t = "jsonp-polling" -> JsonpOn(b)

\* IframeWrapTransport.enabled(url, info): filterToEnabled passes one argument,
\* so that info is undefined in it and only sameOrigin is set.
FrameOn(t, b) == /\ "document" \in b
                 /\ EngineOn(FacadeTransport[t], b, {"sameOrigin"})
                 /\ IframeEnabled(b)

Enabled(t, b, i) == IF Framed(t) THEN FrameOn(t, b) ELSE EngineOn(t, b, i)

\* filterToEnabled: the answer of the server can rule out only the websocket.
filterToEnabled(whitelist, b, i, websocket) ==
    LET takes(t) == /\ t = "websocket" => websocket
                    /\ whitelist = {} \/ t \in whitelist
                    /\ Enabled(t, b, i)
        main[n \in 0..Len(TransportList)] ==
            IF n = 0 THEN <<>>
            ELSE IF takes(TransportList[n]) THEN Append(main[n - 1], TransportList[n]) ELSE main[n - 1]
    IN  main[Len(TransportList)]

\* The tests of the constructors, which throw 'Transport created when disabled'.
EngineCreatable(t, b) ==
    CASE t = "websocket"   -> WebSocketOn(b)
      [] t = "eventsource" -> EventSourceOn(b)
      [] t = "htmlfile"    -> HtmlfileEnabled(b)
      [] t \in {"xhr-streaming", "xhr-polling"} -> LocalEnabled(b) \/ CorsEnabled(b)
      [] t \in {"xdr-streaming", "xdr-polling"} -> XdrEnabled(b)
      [] t = "jsonp-polling" -> JsonpOn(b)
Creatable(t, b) == EngineCreatable(Engine(t), b) /\ (Framed(t) => IframeEnabled(b))

\* InfoReceiver._getReceiver.
InfoMethod(b, i) ==
    CASE "sameOrigin" \in i -> "local"
      [] "sameOrigin" \notin i /\ CorsEnabled(b) -> "cors"
      [] "sameOrigin" \notin i /\ ~CorsEnabled(b) /\ XdrEnabled(b) /\ "sameScheme" \in i -> "xdr"
      [] OTHER -> IF IframeEnabled(b) THEN "iframe" ELSE "fake"

-----------------------------------------------------------------------------
\* What a transport is made of.

\* The receiver: "ws", or one of those Polling schedules again and again.
Receiver(t) == LET e == Engine(t) IN
    CASE e = "websocket"   -> "ws"
      [] e \in {"xhr-streaming", "xdr-streaming"} -> "stream"
      [] e = "eventsource" -> "es"
      [] e = "htmlfile"    -> "html"
      [] e \in {"xhr-polling", "xdr-polling"} -> "poll"
      [] e = "jsonp-polling" -> "jsonp"

\* An XHR or XDR object starts its request in a timer of its own.
StartsLater(t) == Receiver(t) \in {"stream", "poll"}

\* One frame ends the answer to a poll, the others go on.
OneFrame(t) == Receiver(t) \in {"poll", "jsonp"}

\* createAjaxSender, the form of the jsonp sender, or the web-socket itself.
Sender(t) == CASE Receiver(t) = "ws" -> "ws" [] Receiver(t) = "jsonp" -> "form" [] OTHER -> "ajax"

\* A broken answer ends in reason 'network', so that the next receiver goes on
\* after frames that nobody received.
MayLoseFrames(t) == Receiver(t) \in {"es", "html"}
=============================================================================
