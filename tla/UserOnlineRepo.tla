--------------------------- MODULE UserOnlineRepo ---------------------------
(***************************************************************************)
(* UserOnlineRepoImpl with its callers: the listeners of                   *)
(* StompUserConnectEventHandle (a subscribe and a disconnect event of a    *)
(* web-socket session) and UserNotifyController.sendSingle.                *)
(*                                                                         *)
(* The two maps and the sets are concurrent, so one call on them is one    *)
(* step.  "synchronized (userId + "")" locks a String made on the spot: it *)
(* excludes nobody, and no step below waits for it.  A set object is named *)
(* by the session whose put created it (a session creates at most one).    *)
(* remove(Long), which nothing calls, is left out.                         *)
(***************************************************************************)
EXTENDS FiniteSets

CONSTANTS Users,
          Sessions,    \* web-socket sessions; their ids are never reused
          UserOf,      \* the userId header each session sends (app.js keeps one)
          Senders,     \* threads that may be inside sendSingle
          None         \* null

ASSUME UserOfAssumption == UserOf \in [Sessions -> Users]
ASSUME NoneAssumption == None \notin Sessions /\ None \notin Users

VARIABLES
    conn,            \* the connection of each session
    userSessionMap,  \* the set object of each user, or None
    sessionUserMap,  \* the user of each session, or None
    members,         \* the contents of each set object
    putPc, putSet,   \* where the session's put is, and its sessionSets
    remPc, remSet,   \* where the session's remove is, and its sessionSets
    overwritten,     \* users whose set object was ever replaced (history)
    overlapped,      \* sessions whose disconnect was handled during a put of
                     \* theirs (history)
    send             \* what each sendSingle in progress has in hand

repoVars == <<userSessionMap, sessionUserMap, members, overwritten>>
putVars  == <<putPc, putSet>>
remVars  == <<remPc, remSet>>
vars == <<conn, repoVars, putVars, remVars, overlapped, send>>

Conns  == {"new", "open", "closed"}
PutPcs == {"idle", "get", "install", "add", "index"}
RemPcs == {"idle", "set", "drop", "unindex", "done"}

\* sendSingle: its sessionIds, those already visited, the one just read, and
\* (history) the sessions already gone for good when it started.
Idle == [set |-> None, seen |-> {}, next |-> None, gone |-> {}]
SendStates == [set : Sessions \cup {None}, seen : SUBSET Sessions,
               next : Sessions \cup {None}, gone : SUBSET Sessions]

Init ==
    /\ conn = [s \in Sessions |-> "new"]
    /\ userSessionMap = [u \in Users |-> None]
    /\ sessionUserMap = [s \in Sessions |-> None]
    /\ members = [s \in Sessions |-> {}]
    /\ putPc = [s \in Sessions |-> "idle"]
    /\ putSet = [s \in Sessions |-> None]
    /\ remPc = [s \in Sessions |-> "idle"]
    /\ remSet = [s \in Sessions |-> None]
    /\ overwritten = {}
    /\ overlapped = {}
    /\ send = [d \in Senders |-> Idle]

\* What get(userId) hands out at this moment.
SessionsOf(u) ==
    IF userSessionMap[u] = None THEN {} ELSE members[userSessionMap[u]]

-----------------------------------------------------------------------------
(* The connection *)

\* CONNECTED: connectedEvent only reads and logs.
Connect(s) ==
    /\ conn[s] = "new"
    /\ conn' = [conn EXCEPT ![s] = "open"]
    /\ UNCHANGED <<repoVars, putVars, remVars, overlapped, send>>

\* A SUBSCRIBE to /user/single/notify reaches subscribeEvent, and put begins
\* (other destinations change nothing).
Subscribe(s) ==
    /\ conn[s] = "open"
    /\ putPc[s] = "idle"
    /\ putPc' = [putPc EXCEPT ![s] = "get"]
    /\ UNCHANGED <<conn, repoVars, putSet, remVars, overlapped, send>>

\* The browser leaves or the transport fails, at any moment.
Close(s) ==
    /\ conn[s] = "open"
    /\ conn' = [conn EXCEPT ![s] = "closed"]
    /\ UNCHANGED <<repoVars, putVars, remVars, overlapped, send>>

-----------------------------------------------------------------------------
(* put(userId, sessionId) *)

\* sessionSets = userSessionMap.get(userId); a new set if there is none.
PutGet(s) ==
    /\ putPc[s] = "get"
    /\ \/ /\ userSessionMap[UserOf[s]] # None
          /\ putSet' = [putSet EXCEPT ![s] = userSessionMap[UserOf[s]]]
          /\ putPc' = [putPc EXCEPT ![s] = "add"]
       \/ /\ userSessionMap[UserOf[s]] = None
          /\ putSet' = [putSet EXCEPT ![s] = s]
          /\ putPc' = [putPc EXCEPT ![s] = "install"]
    /\ UNCHANGED <<conn, repoVars, remVars, overlapped, send>>

\* userSessionMap.put(userId, sessionSets), whatever is there by now.
PutInstall(s) ==
    /\ putPc[s] = "install"
    /\ userSessionMap' = [userSessionMap EXCEPT ![UserOf[s]] = putSet[s]]
    /\ overwritten' = IF userSessionMap[UserOf[s]] = None
                      THEN overwritten ELSE overwritten \cup {UserOf[s]}
    /\ putPc' = [putPc EXCEPT ![s] = "add"]
    /\ UNCHANGED <<conn, sessionUserMap, members, putSet, remVars, overlapped, send>>

\* sessionSets.add(sessionId)
PutAdd(s) ==
    /\ putPc[s] = "add"
    /\ members' = [members EXCEPT ![putSet[s]] = @ \cup {s}]
    /\ putPc' = [putPc EXCEPT ![s] = "index"]
    /\ UNCHANGED <<conn, userSessionMap, sessionUserMap, overwritten, putSet,
                   remVars, overlapped, send>>

\* sessionUserMap.put(sessionId, userId)
PutIndex(s) ==
    /\ putPc[s] = "index"
    /\ sessionUserMap' = [sessionUserMap EXCEPT ![s] = UserOf[s]]
    /\ putPc' = [putPc EXCEPT ![s] = "idle"]
    /\ putSet' = [putSet EXCEPT ![s] = None]
    /\ UNCHANGED <<conn, userSessionMap, members, overwritten,
                   remVars, overlapped, send>>

-----------------------------------------------------------------------------
(* disConnectedEvent, remove(sessionId) *)

\* merchantId = sessionUserMap.get(sessionId); nothing to do when null.  No lock
\* makes it wait for a put of the same session.
RemLookup(s) ==
    /\ conn[s] = "closed"
    /\ remPc[s] = "idle"
    /\ remPc' = [remPc EXCEPT ![s] =
                    IF sessionUserMap[s] = None THEN "done" ELSE "set"]
    /\ overlapped' = IF putPc[s] = "idle" THEN overlapped ELSE overlapped \cup {s}
    /\ UNCHANGED <<conn, repoVars, putVars, remSet, send>>

\* sessionSets = userSessionMap.get(merchantId)
RemGet(s) ==
    /\ remPc[s] = "set"
    /\ remSet' = [remSet EXCEPT ![s] = userSessionMap[sessionUserMap[s]]]
    /\ remPc' = [remPc EXCEPT ![s] = "drop"]
    /\ UNCHANGED <<conn, repoVars, putVars, overlapped, send>>

\* Mutant of RemDrop: only sessionUserMap is cleaned.
RemDropNothing(s) ==
    /\ remPc[s] = "drop"
    /\ remPc' = [remPc EXCEPT ![s] = "unindex"]
    /\ remSet' = [remSet EXCEPT ![s] = None]
    /\ UNCHANGED <<conn, repoVars, putVars, overlapped, send>>

\* Mutant of RemDrop: the user's entry goes with its last session.
RemDropTidy(s) ==
    /\ remPc[s] = "drop"
    /\ members' = [members EXCEPT ![remSet[s]] = @ \ {s}]
    /\ userSessionMap' =
          [userSessionMap EXCEPT ![UserOf[s]] =
              IF members[remSet[s]] \subseteq {s} THEN None ELSE @]
    /\ remPc' = [remPc EXCEPT ![s] = "unindex"]
    /\ remSet' = [remSet EXCEPT ![s] = None]
    /\ UNCHANGED <<conn, sessionUserMap, overwritten,
                   putVars, overlapped, send>>

\* sessionSets.remove(sessionId), without a null test (RemoveFindsASet).
RemDrop(s) ==
    /\ remPc[s] = "drop"
    /\ members' = [members EXCEPT ![remSet[s]] = @ \ {s}]
    /\ remPc' = [remPc EXCEPT ![s] = "unindex"]
    /\ remSet' = [remSet EXCEPT ![s] = None]
    /\ UNCHANGED <<conn, userSessionMap, sessionUserMap, overwritten,
                   putVars, overlapped, send>>

\* Mutant of RemUnindex: only the set is cleaned.
RemUnindexForgets(s) ==
    /\ remPc[s] = "unindex"
    /\ remPc' = [remPc EXCEPT ![s] = "done"]
    /\ UNCHANGED <<conn, repoVars, putVars, remSet, overlapped, send>>

\* sessionUserMap.remove(sessionId)
RemUnindex(s) ==
    /\ remPc[s] = "unindex"
    /\ sessionUserMap' = [sessionUserMap EXCEPT ![s] = None]
    /\ remPc' = [remPc EXCEPT ![s] = "done"]
    /\ UNCHANGED <<conn, userSessionMap, members, overwritten,
                   putVars, remSet, overlapped, send>>

-----------------------------------------------------------------------------
(* sendSingle(userId) *)

\* get(userId); a user that was never online is a NullPointerException here,
\* and nothing has happened.
SendBegin(d, u) ==
    /\ send[d].set = None
    /\ userSessionMap[u] # None
    /\ send' = [send EXCEPT ![d] =
                   [Idle EXCEPT !.set = userSessionMap[u],
                                !.gone = {s \in Sessions : remPc[s] = "done"}
                                            \ overlapped]]
    /\ UNCHANGED <<conn, repoVars, putVars, remVars, overlapped>>

\* forEach reads its next element from the live set ...
SendPick(d, s) ==
    /\ send[d].set # None
    /\ send[d].next = None
    /\ s \in members[send[d].set] \ send[d].seen
    /\ send' = [send EXCEPT ![d].next = s, ![d].seen = @ \cup {s}]
    /\ UNCHANGED <<conn, repoVars, putVars, remVars, overlapped>>

\* ... and convertAndSendToUser runs later, when s may have been removed.
SendDeliver(d) ==
    /\ send[d].next # None
    /\ send' = [send EXCEPT ![d].next = None]
    /\ UNCHANGED <<conn, repoVars, putVars, remVars, overlapped>>

\* No element left: sendSingle returns.
SendEnd(d) ==
    /\ send[d].set # None
    /\ send[d].next = None
    /\ members[send[d].set] \subseteq send[d].seen
    /\ send' = [send EXCEPT ![d] = Idle]
    /\ UNCHANGED <<conn, repoVars, putVars, remVars, overlapped>>

-----------------------------------------------------------------------------

PutStep(s) == PutGet(s) \/ PutInstall(s) \/ PutAdd(s) \/ PutIndex(s)
RemStep(s) == RemLookup(s) \/ RemGet(s) \/ RemDrop(s) \/ RemUnindex(s)
SendStep(d) ==
    \/ \E u \in Users : SendBegin(d, u)
    \/ \E s \in Sessions : SendPick(d, s)
    \/ SendDeliver(d)
    \/ SendEnd(d)

Next ==
    \/ \E s \in Sessions :
          Connect(s) \/ Subscribe(s) \/ Close(s) \/ PutStep(s) \/ RemStep(s)
    \/ \E d \in Senders : SendStep(d)

Spec == Init /\ [][Next]_vars

\* Started handlers run to their end and the container reports every closed
\* connection; nobody has to connect, subscribe, close or send.
Fairness == \A s \in Sessions : WF_vars(PutStep(s)) /\ WF_vars(RemStep(s))

FairSpec == Spec /\ Fairness

-----------------------------------------------------------------------------
(* Properties *)

\* Every variable keeps its type; no sender is stuck on a set that is not there.
TypeOK ==
    /\ conn \in [Sessions -> Conns]
    /\ userSessionMap \in [Users -> Sessions \cup {None}]
    /\ sessionUserMap \in [Sessions -> Users \cup {None}]
    /\ members \in [Sessions -> SUBSET Sessions]
    /\ putPc \in [Sessions -> PutPcs]
    /\ putSet \in [Sessions -> Sessions \cup {None}]
    /\ remPc \in [Sessions -> RemPcs]
    /\ remSet \in [Sessions -> Sessions \cup {None}]
    /\ overwritten \subseteq Users
    /\ overlapped \subseteq Sessions
    /\ send \in [Senders -> SendStates]

\* The repository of online users holds online users: once the disconnect of a
\* session has been handled, get returns it for no user, although no lock
\* protects the maps and sets replace each other under way.  The one exception
\* is a disconnect handled while the session's own subscribe was in put.
NoGhost ==
    \A s \in Sessions \ overlapped, u \in Users :
        remPc[s] = "done" => s \notin SessionsOf(u)

\* remove(sessionId) never dereferences a null set: whoever is in
\* sessionUserMap has a set in userSessionMap.
RemoveFindsASet == \A s \in Sessions : remPc[s] = "drop" => remSet[s] # None

\* The missing exclusion has one effect only: a session that is indexed and not
\* yet being removed is found through its user unless two first subscriptions
\* of that user overlapped and one set replaced the other.
LostOnlyByOverwrite ==
    \A s \in Sessions :
        sessionUserMap[s] # None /\ remPc[s] \in {"idle", "set", "drop"}
          => s \in SessionsOf(UserOf[s]) \/ UserOf[s] \in overwritten

\* sendSingle sends to no session that was already gone when it started (with
\* NoGhost's exception), and to no other user's session.
SendsOnlyToLive ==
    \A d \in Senders, s \in Sessions :
        send[d].next = s => s \notin send[d].gone /\ UserOf[s] = UserOf[send[d].set]

\* A session that closes leaves both maps for good, and nobody finds it again,
\* unless its disconnect overtook its subscribe.
DisconnectCleansUp ==
    \A s \in Sessions :
        conn[s] = "closed"
          ~> \/ s \in overlapped
             \/ [](sessionUserMap[s] = None /\ s \notin SessionsOf(UserOf[s]))
=============================================================================
