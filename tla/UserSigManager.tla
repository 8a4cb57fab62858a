--------------------------- MODULE UserSigManager ---------------------------
(***************************************************************************)
(* The user signature of an IM request: the constructor of ApiBaseRequest  *)
(* asks DefUserSigManager.getOrGenAvailable, which looks into              *)
(* MemoryUserSigRepository and, if nothing usable is there, signs anew     *)
(* (KeyFileUserSigGenerator, TlsSignatureUtils.GenTLSSignatureEx);         *)
(* ImApiClient.execute sends the request later, and the IM server checks   *)
(* the signature the way TlsSignatureUtils.CheckTLSSignatureEx does.       *)
(*                                                                         *)
(* "synchronized (new String(...).trim())" locks a fresh object and the    *)
(* test inside repeats the one outside on the same local variable: neither *)
(* keeps two threads from signing for the same identifier.                 *)
(* Time is in whole units, and IntMax is the last one that fits an int     *)
(* (Integer.parseInt of the seconds in GenTLSSignatureEx).                 *)
(***************************************************************************)
EXTENDS Integers

CONSTANTS Threads,
          Apps,         \* sdkAppIds
          Identifiers,
          Requests,     \* the pairs of app and identifier that are asked for
          Lifetime,     \* expire, 180 days
          Margin,       \* EXPIRE_TIME, 3 days
          IntMax,
          MaxTime,      \* bound: the clock stops here
          Null          \* null

ASSUME TimeAssumption ==
    {Lifetime, Margin, IntMax, MaxTime} \subseteq Nat /\ Margin < Lifetime
ASSUME RequestsAssumption == Requests \subseteq [app : Apps, id : Identifiers]
ASSUME NullAssumption == Null \notin Apps \cup Identifiers

VARIABLES
    now,      \* the clock of the process and of the server
    map,      \* MemoryUserSigRepository
    pc,       \* where each thread is
    request,  \* the sdkAppId and the identifier its request is for
    found,    \* what getBy returned to it (history)
    exist,    \* the local exist: finally the signature of the request
    asked     \* when it called getBy (history)

sigVars == <<now, map, pc, request, found, exist, asked>>
locals == <<request, found, exist, asked>>

PCs == {"idle", "get", "generate", "add", "built"}
Times == 0 .. MaxTime

\* UserSigItem; userSig is empty when signing failed.
Items == [app : Apps, id : Identifiers, userSig : {"signed", "empty"},
          init : Times, expire : Nat]

SigInit ==
    /\ now = 0
    /\ map = [i \in Identifiers |-> Null]
    /\ pc = [t \in Threads |-> "idle"]
    /\ request = [t \in Threads |-> Null]
    /\ found = [t \in Threads |-> Null]
    /\ exist = [t \in Threads |-> Null]
    /\ asked = [t \in Threads |-> 0]

\* Mutant of isExpired: the three days are left out.
isExpiredAtEnd(item) == now >= item.expire

\* Three days early.
isExpired(item) == now + Margin >= item.expire

\* What the server says of a request with this item, in the order of
\* CheckTLSSignatureEx: an empty ticket cannot be read, then app, time, owner.
Verdict(r, item) ==
    CASE item.userSig = "empty"           -> "unreadable"
      [] item.app # r.app                 -> "sdkappid"
      [] now - item.init > Lifetime       -> "out of date"
      [] item.id # r.id                   -> "not verified"
      [] OTHER                            -> "ok"

-----------------------------------------------------------------------------

\* The request and all locals of t are gone.
Forget(t) ==
    /\ pc' = [pc EXCEPT ![t] = "idle"]
    /\ request' = [request EXCEPT ![t] = Null]
    /\ found' = [found EXCEPT ![t] = Null]
    /\ exist' = [exist EXCEPT ![t] = Null]
    /\ asked' = [asked EXCEPT ![t] = 0]

\* new ApiBaseRequest(config, data)
Begin(t) ==
    /\ pc[t] = "idle"
    /\ \E r \in Requests : request' = [request EXCEPT ![t] = r]
    /\ pc' = [pc EXCEPT ![t] = "get"]
    /\ UNCHANGED <<now, map, found, exist, asked>>

\* exist = getBy(identifier), and both tests of it.
Get(t) ==
    /\ pc[t] = "get"
    /\ LET item == map[request[t].id] IN
          /\ found' = [found EXCEPT ![t] = item]
          /\ exist' = [exist EXCEPT ![t] = item]
          /\ pc' = [pc EXCEPT ![t] =
                       IF item = Null \/ isExpired(item) THEN "generate" ELSE "built"]
    /\ asked' = [asked EXCEPT ![t] = now]
    /\ UNCHANGED <<now, map, request>>

\* generate: the item of now; a failure to sign is swallowed and leaves an empty one.
Generate(t) ==
    /\ pc[t] = "generate"
    /\ now <= IntMax
    /\ \E s \in {"signed", "empty"} :
          exist' = [exist EXCEPT ![t] =
                       [app |-> request[t].app, id |-> request[t].id, userSig |-> s,
                        init |-> now, expire |-> now + Lifetime]]
    /\ pc' = [pc EXCEPT ![t] = "add"]
    /\ UNCHANGED <<now, map, request, found, asked>>

\* generate throws (the key cannot be parsed, the seconds no longer fit an int):
\* wrapped in a RuntimeException, no request, nothing stored.
GenerateThrows(t) ==
    /\ pc[t] = "generate"
    /\ Forget(t)
    /\ UNCHANGED <<now, map>>

\* add: put, whatever is there by now.
Add(t) ==
    /\ pc[t] = "add"
    /\ map' = [map EXCEPT ![request[t].id] = exist[t]]
    /\ pc' = [pc EXCEPT ![t] = "built"]
    /\ UNCHANGED <<now, locals>>

\* execute: the request goes out, answered or not, and is gone.
Execute(t) ==
    /\ pc[t] = "built"
    /\ Forget(t)
    /\ UNCHANGED <<now, map>>

Tick ==
    /\ now < MaxTime
    /\ now' = now + 1
    /\ UNCHANGED <<map, pc, locals>>

Step(t) ==
    Begin(t) \/ Get(t) \/ Generate(t) \/ GenerateThrows(t) \/ Add(t) \/ Execute(t)

SigNext == Tick \/ \E t \in Threads : Step(t)

SigSpec == SigInit /\ [][SigNext]_sigVars

-----------------------------------------------------------------------------
(* Properties *)

\* Every variable keeps its type.
SigTypeOK ==
    /\ now \in Times
    /\ map \in [Identifiers -> Items \cup {Null}]
    /\ pc \in [Threads -> PCs]
    /\ request \in [Threads -> Requests \cup {Null}]
    /\ found \in [Threads -> Items \cup {Null}]
    /\ exist \in [Threads -> Items \cup {Null}]
    /\ asked \in [Threads -> Times]
    /\ \A t \in Threads : pc[t] \in {"add", "built"} => exist[t] \in Items

\* A request sent within three days of being built is never refused for its age
\* and never for its user, whichever thread signed and whichever put won.  What
\* remains is a ticket that could not be signed and one signed for another app
\* under the same identifier (the repository's key leaves out sdkAppId).
RefusedForTwoReasonsOnly ==
    \A t \in Threads :
        pc[t] = "built" /\ now - asked[t] <= Margin
          => Verdict(request[t], exist[t]) \in {"ok", "unreadable", "sdkappid"}

\* A signature is replaced by one signed later, except by a thread that had asked
\* before it was signed and so never saw it: nothing keeps threads that ask at once
\* from signing both, and of these the last put wins, be its signature the older one.
ReplacedByNewer ==
    [][\A i \in Identifiers :
          map[i] # Null /\ map'[i] # map[i] =>
             \/ map'[i].init > map[i].init
             \/ \E t \in Threads :
                   /\ pc[t] = "add" /\ pc'[t] = "built" /\ request[t].id = i
                   /\ asked[t] <= map[i].init /\ found[t] # map[i]]_sigVars
=============================================================================
