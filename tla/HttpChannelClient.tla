------------------------- MODULE HttpChannelClient -------------------------
(***************************************************************************)
(* HttpChannelClient.execute, reached through DefApiCommonActuator and     *)
(* DefChannelClientDispatcher, with the one pooled HTTP client that        *)
(* HttpClientFactory makes on first use.  Several threads call it, each    *)
(* call is one element of Calls.                                           *)
(*                                                                         *)
(* The channels themselves (converters, request wrappers) are no part of   *)
(* the repository: each use of them succeeds or throws.  The pool is that  *)
(* of Apache HttpClient: it leases at most PoolMax connections per route,  *)
(* a caller waits for one at most ConnectionRequestTimeout, and it takes   *)
(* the connection back when a request fails, when the body has been read   *)
(* or when the response is closed.                                         *)
(***************************************************************************)
EXTENDS Integers, FiniteSets

CONSTANTS Calls,
          Dispatched,  \* the calls whose channelCode has a client
          PoolMax,     \* DefaultMaxPerRoute, 20
          NoClient         \* null

ASSUME CallsAssumption == IsFiniteSet(Calls) /\ Dispatched \subseteq Calls
ASSUME PoolAssumption == PoolMax \in Nat \ {0}
ASSUME NoClientAssumption == NoClient \notin Calls

VARIABLES
    pc,          \* where each call is
    httpClient,  \* HttpClientFactory.httpClient, named by the call that made it
    monitor,     \* the call inside synchronized (HttpClientFactory.class), or None
    client,      \* what getHttpClient returned to each call
    leased,      \* the calls that hold a connection
    sent,        \* the calls whose request is on its way (history of the network)
    served,      \* the calls whose request the platform has handled
    status,      \* of the response: "ok" (200), "bad", or "none" yet
    result       \* of execute: "resp", or "fail" in any of its forms

channelVars == <<pc, httpClient, monitor, client, leased, sent, served, status, result>>
factory == <<httpClient, monitor, client>>
wire == <<leased, sent, served, status>>

PCs == {"idle", "convert", "first", "second", "lease", "wait", "check", "read",
        "respond", "finally", "done"}
Results == {"none", "resp", "fail"}

ChannelInit ==
    /\ pc = [c \in Calls |-> "idle"]
    /\ httpClient = NoClient
    /\ monitor = NoClient
    /\ client = [c \in Calls |-> NoClient]
    /\ leased = {}
    /\ sent = {}
    /\ served = {}
    /\ status = [c \in Calls |-> "none"]
    /\ result = [c \in Calls |-> "none"]

GoTo(c, l) == pc' = [pc EXCEPT ![c] = l]

\* The catch block and the way to finally.  The failure is what buildFail makes, or
\* null when the response class has no constructor, or an exception when the
\* request cannot be printed.
Catch(c) ==
    /\ result' = [result EXCEPT ![c] = "fail"]
    /\ GoTo(c, "finally")

\* HttpClient takes the connection of c back.
Release(c) == leased' = leased \ {c}

-----------------------------------------------------------------------------

\* No request, no channelCode, or one without a client: an assertion throws.
Refuse(c) ==
    /\ pc[c] = "idle" /\ c \notin Dispatched
    /\ result' = [result EXCEPT ![c] = "fail"]
    /\ GoTo(c, "done")
    /\ UNCHANGED <<factory, wire>>

\* The client for the channelCode is found and its execute called.
Dispatch(c) ==
    /\ pc[c] = "idle" /\ c \in Dispatched
    /\ GoTo(c, "convert")
    /\ UNCHANGED <<factory, wire, result>>

\* Up to the request headers: converter, URL, method, entity.
Convert(c) ==
    /\ pc[c] = "convert"
    /\ \/ GoTo(c, "first") /\ UNCHANGED result
       \/ Catch(c)
    /\ UNCHANGED <<factory, wire>>

\* getHttpClient, first test.
FirstTest(c) ==
    /\ pc[c] = "first"
    /\ client' = [client EXCEPT ![c] = httpClient]
    /\ GoTo(c, IF httpClient = NoClient THEN "second" ELSE "lease")
    /\ UNCHANGED <<httpClient, monitor, wire, result>>

\* The monitor is entered.
Enter(c) ==
    /\ pc[c] = "second"
    /\ monitor = NoClient
    /\ monitor' = c
    /\ UNCHANGED <<pc, httpClient, client, wire, result>>

\* Second test, the client built and published, the monitor left.
Build(c) ==
    /\ pc[c] = "second"
    /\ monitor = c
    /\ httpClient' = IF httpClient = NoClient THEN c ELSE httpClient
    /\ client' = [client EXCEPT ![c] = httpClient']
    /\ monitor' = NoClient
    /\ GoTo(c, "lease")
    /\ UNCHANGED <<wire, result>>

\* No SSLContext: its socket factory refuses null, and the exception leaves the
\* monitor.
BuildFails(c) ==
    /\ pc[c] = "second"
    /\ monitor = c
    /\ httpClient = NoClient
    /\ monitor' = NoClient
    /\ Catch(c)
    /\ UNCHANGED <<httpClient, client, wire>>

\* execute leases a connection of the client's pool and sends the request.
Lease(c) ==
    /\ pc[c] = "lease"
    /\ Cardinality({d \in leased : client[d] = client[c]}) < PoolMax
    /\ leased' = leased \cup {c}
    /\ sent' = sent \cup {c}
    /\ GoTo(c, "wait")
    /\ UNCHANGED <<factory, served, status, result>>

\* The platform handles a request that has reached it, also when nobody waits any
\* more.
Handle(c) ==
    /\ c \in sent
    /\ sent' = sent \ {c}
    /\ served' = served \cup {c}
    /\ UNCHANGED <<pc, factory, leased, status, result>>

\* A response: 200 of the platform, or anything else, also of somebody before it.
Respond(c) ==
    /\ pc[c] = "wait"
    /\ \E s \in {"ok", "bad"} :
          /\ s = "ok" => c \in served
          /\ status' = [status EXCEPT ![c] = s]
    /\ GoTo(c, "check")
    /\ UNCHANGED <<factory, leased, sent, served, result>>

\* An exception of execute: no connection within the time, none to the server, no
\* answer in time.  HttpClient keeps no connection for it.
ExecuteThrows(c) ==
    /\ pc[c] \in {"lease", "wait"}
    /\ Release(c)
    /\ Catch(c)
    /\ UNCHANGED <<factory, sent, served, status>>

\* Mutant of CheckStatus: the status is not looked at.
CheckNothing(c) ==
    /\ pc[c] = "check"
    /\ GoTo(c, "read")
    /\ UNCHANGED <<factory, wire, result>>

\* TipAssert.isTrue(SC_OK == ...)
CheckStatus(c) ==
    /\ pc[c] = "check"
    /\ \/ status[c] = "ok" /\ GoTo(c, "read") /\ UNCHANGED result
       \/ status[c] = "bad" /\ Catch(c)
    /\ UNCHANGED <<factory, wire>>

\* EntityUtils.toString reads the body to its end, or throws having closed it.
Read(c) ==
    /\ pc[c] = "read"
    /\ Release(c)
    /\ \/ GoTo(c, "respond") /\ UNCHANGED result
       \/ Catch(c)
    /\ UNCHANGED <<factory, sent, served, status>>

\* buildResponse, responseConvert and the log line; then resp is returned.
Return(c) ==
    /\ pc[c] = "respond"
    /\ \/ result' = [result EXCEPT ![c] = "resp"] /\ GoTo(c, "finally")
       \/ Catch(c)
    /\ UNCHANGED <<factory, wire>>

\* closeableHttpResponse.close(), if there is one.
Finally(c) ==
    /\ pc[c] = "finally"
    /\ Release(c)
    /\ GoTo(c, "done")
    /\ UNCHANGED <<factory, sent, served, status, result>>

Step(c) ==
    \/ Convert(c) \/ FirstTest(c) \/ Enter(c) \/ Build(c) \/ BuildFails(c)
    \/ Lease(c) \/ Respond(c) \/ ExecuteThrows(c) \/ CheckStatus(c) \/ Read(c)
    \/ Return(c) \/ Finally(c)

ChannelNext == \E c \in Calls : Refuse(c) \/ Dispatch(c) \/ Handle(c) \/ Step(c)

ChannelSpec == ChannelInit /\ [][ChannelNext]_channelVars

-----------------------------------------------------------------------------
(* Properties *)

\* Every variable keeps its type.
ChannelTypeOK ==
    /\ pc \in [Calls -> PCs]
    /\ httpClient \in Calls \cup {NoClient}
    /\ monitor \in Calls \cup {NoClient}
    /\ client \in [Calls -> Calls \cup {NoClient}]
    /\ leased \in SUBSET Calls /\ sent \in SUBSET Calls /\ served \in SUBSET Calls
    /\ status \in [Calls -> {"none", "ok", "bad"}]
    /\ result \in [Calls -> Results]

\* However many threads make the first call, all share one pool: there are never
\* more connections than it allows.
PoolBound == Cardinality(leased) <= PoolMax

\* Whatever went wrong, a call that is over holds neither a connection of the pool
\* nor the monitor: nobody else is left waiting for it.
NothingHeld == \A c \in Calls : pc[c] = "done" => c \notin leased /\ monitor # c

\* What the caller of execute sees of a call.
outcome ==
    [c \in Calls |->
        CASE pc[c] = "idle"                                               -> "none"
          [] pc[c] # "idle" /\ c \notin Dispatched                        -> "refused"
          [] pc[c] \notin {"idle", "done"} /\ c \in Dispatched            -> "open"
          [] pc[c] = "done" /\ c \in Dispatched /\ result[c] = "resp"     -> "success"
          [] pc[c] = "done" /\ c \in Dispatched /\ result[c] # "resp"     -> "failure"]

Call == INSTANCE ClientCall WITH handled <- served

\* One outcome per call, a success only for a request the platform has handled.
ImplementsCall == Call!Spec
=============================================================================
