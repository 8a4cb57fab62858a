------------------------------ MODULE MCSockJS ------------------------------
(***************************************************************************)
(* SockJS in six places: a new browser, where the web-socket fails or the  *)
(* server rules it out, another origin, where iframes come in, Internet    *)
(* Explorer 8 and a page from a file.  The option transports keeps the     *)
(* lists short; transports of every kind are used.                         *)
(***************************************************************************)
EXTENDS SockJS

Modern == {"document", "domain", "postMessage", "XMLHttpRequest", "withCredentials", "EventSource", "WebSocket"}
IE8 == {"document", "domain", "postMessage", "XMLHttpRequest", "XDomainRequest", "htmlfile"}
FilePage == {"document", "XMLHttpRequest", "opera"}
Same == {"sameOrigin", "sameScheme"}

At(browser, info, websocket, whitelist, wire) ==
    [browser |-> browser, info |-> info, websocket |-> websocket, whitelist |-> whitelist, wire |-> wire]

MCPlaces ==
    {At(Modern, Same, TRUE, {"websocket", "xhr-polling"}, 2),
     At(Modern, Same, FALSE, {"websocket", "eventsource", "jsonp-polling"}, 2),
     At(Modern, {"sameScheme"}, TRUE, {"iframe-eventsource"}, 1),
     At(IE8, Same, TRUE, {"htmlfile"}, 1),
     At(IE8, {"sameScheme"}, TRUE, {"xdr-streaming", "iframe-xhr-polling"}, 1),
     At(FilePage, {"nullOrigin"}, TRUE, {}, 2)}
=============================================================================
