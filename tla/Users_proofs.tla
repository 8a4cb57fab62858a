---------------------------- MODULE Users_proofs ----------------------------
(***************************************************************************)
(* Proofs about the users of the repository: UserOnlineRepo, who is online *)
(* (for any users, sessions and senders), and UserSigManager, the user     *)
(* signatures of IM requests (for any threads, apps, identifiers and       *)
(* durations with Margin < Lifetime).                                      *)
(***************************************************************************)
EXTENDS UserOnlineRepo, UserSigManager, TLAPS

-----------------------------------------------------------------------------
(* UserOnlineRepo. *)

\* A session being removed has closed, and nothing puts it any more unless its
\* disconnect overtook its subscribe.
Closing ==
    /\ \A s \in Sessions :
          remPc[s] # "idle" =>
              conn[s] = "closed" /\ (putPc[s] = "idle" \/ s \in overlapped)
    /\ \A s \in overlapped : remPc[s] # "idle"

\* Sets, maps and locals never mix users.
OwnUser ==
    /\ \A s \in Sessions : sessionUserMap[s] \in {None, UserOf[s]}
    /\ \A u \in Users : userSessionMap[u] # None => UserOf[userSessionMap[u]] = u
    /\ \A s, t \in Sessions : s \in members[t] => UserOf[t] = UserOf[s]
    /\ \A s \in Sessions : putSet[s] # None => UserOf[putSet[s]] = UserOf[s]

\* A user with a member, an indexed session or a put past its first line has a
\* set in userSessionMap.
HasSet ==
    /\ \A s, t \in Sessions :
          s \in members[t] => userSessionMap[UserOf[t]] # None
    /\ \A s \in Sessions :
          sessionUserMap[s] # None \/ putPc[s] \in {"add", "index"}
            => userSessionMap[UserOf[s]] # None

\* The local of a put: a set not yet installed is empty and known to nobody.
PutLocal ==
    \A s \in Sessions :
        /\ putSet[s] # None <=> putPc[s] \in {"install", "add", "index"}
        /\ putPc[s] = "install" =>
              /\ putSet[s] = s
              /\ members[s] = {}
              /\ \A u \in Users : userSessionMap[u] # s
              /\ \A x \in Sessions : putSet[x] = s => x = s

\* Where a session that is being removed can still be.
RemLocal ==
    /\ \A s \in Sessions :
          /\ remPc[s] \in {"set", "drop", "unindex"} => sessionUserMap[s] # None
          /\ remPc[s] = "drop" => remSet[s] # None
    /\ \A s \in Sessions \ overlapped :
          /\ remPc[s] = "drop" /\ s \in SessionsOf(UserOf[s])
               => remSet[s] = userSessionMap[UserOf[s]]
          /\ remPc[s] \in {"unindex", "done"}
               => s \notin SessionsOf(UserOf[s])

\* A session in any set is indexed, about to be, or gone.
Indexed ==
    \A s, t \in Sessions :
        s \in members[t] =>
            sessionUserMap[s] # None \/ putPc[s] = "index" \/ remPc[s] = "done"

Ghostless ==
    /\ TypeOK
    /\ Closing
    /\ OwnUser
    /\ HasSet
    /\ PutLocal
    /\ RemLocal
    /\ Indexed

-----------------------------------------------------------------------------

LEMMA InitGhostless == Init => Ghostless
  BY UserOfAssumption, NoneAssumption
  DEF Init, Ghostless, TypeOK, Conns, PutPcs, RemPcs, Idle, SendStates, Closing,
      OwnUser, HasSet, PutLocal, RemLocal, SessionsOf, Indexed

\* Steps of the connection.
LEMMA ConnSteps ==
  ASSUME Ghostless, NEW s \in Sessions, Connect(s) \/ Subscribe(s) \/ Close(s)
  PROVE  Ghostless'
  <1> USE UserOfAssumption, NoneAssumption
  <1>1. TypeOK'
    BY DEF Ghostless, TypeOK, Connect, Subscribe, Close, Conns, PutPcs, repoVars,
           putVars, remVars
  <1>2. Closing' /\ OwnUser' /\ HasSet' /\ PutLocal' /\ RemLocal' /\ Indexed'
    BY DEF Ghostless, TypeOK, Connect, Subscribe, Close, Conns, PutPcs, repoVars,
           putVars, remVars, Closing, OwnUser, HasSet, PutLocal, RemLocal, SessionsOf, Indexed
  <1> QED  BY <1>1, <1>2 DEF Ghostless

LEMMA PutGetStep ==
  ASSUME Ghostless, NEW s \in Sessions, PutGet(s)
  PROVE  Ghostless'
  <1> USE UserOfAssumption, NoneAssumption
  <1>1. TypeOK'
    BY DEF Ghostless, TypeOK, PutGet, PutPcs, repoVars, remVars
  <1>2. Closing' /\ OwnUser' /\ HasSet' /\ RemLocal' /\ Indexed'
    BY DEF Ghostless, TypeOK, PutGet, PutPcs, repoVars,
           remVars, Closing, OwnUser, HasSet, PutLocal, RemLocal, SessionsOf, Indexed
  <1>3. PutLocal'
    BY DEF Ghostless, TypeOK, PutGet, PutPcs, repoVars,
           remVars, OwnUser, HasSet, PutLocal
  <1> QED  BY <1>1, <1>2, <1>3 DEF Ghostless

LEMMA PutInstallStep ==
  ASSUME Ghostless, NEW s \in Sessions, PutInstall(s)
  PROVE  Ghostless'
  <1> USE UserOfAssumption, NoneAssumption
  <1>1. TypeOK'
    BY DEF Ghostless, TypeOK, PutInstall, PutPcs, remVars
  <1>2. Closing' /\ Indexed'
    BY DEF Ghostless, TypeOK, PutInstall, PutPcs, remVars, Closing, Indexed
  <1>3. putSet[s] = s /\ UserOf[s] \in Users /\ s # None
    BY DEF Ghostless, TypeOK, PutInstall, PutLocal
  <1>4. OwnUser'
    BY <1>3 DEF Ghostless, TypeOK, PutInstall, PutPcs, remVars, OwnUser
  <1>5. HasSet'
    BY <1>3 DEF Ghostless, TypeOK, PutInstall, PutPcs, remVars, HasSet
  <1>6. PutLocal'
    BY DEF Ghostless, TypeOK, PutInstall, PutPcs, remVars, OwnUser, HasSet, PutLocal
  <1>7. RemLocal'
    BY DEF Ghostless, TypeOK, PutInstall, PutPcs, remVars, OwnUser, HasSet, PutLocal,
           RemLocal, SessionsOf, Closing
  <1> QED  BY <1>1, <1>2, <1>4, <1>5, <1>6, <1>7 DEF Ghostless

LEMMA PutAddStep ==
  ASSUME Ghostless, NEW s \in Sessions, PutAdd(s)
  PROVE  Ghostless'
  <1> USE UserOfAssumption, NoneAssumption
  <1>1. TypeOK'
    BY DEF Ghostless, TypeOK, PutAdd, PutPcs, remVars
  <1>2. Closing' /\ OwnUser' /\ HasSet' /\ Indexed'
    BY DEF Ghostless, TypeOK, PutAdd, PutPcs,
           remVars, Closing, OwnUser, HasSet, PutLocal, Indexed
  <1>3. PutLocal'
    BY DEF Ghostless, TypeOK, PutAdd, PutPcs, remVars, OwnUser, HasSet, PutLocal
  <1>4. RemLocal'
    BY DEF Ghostless, TypeOK, PutAdd, PutPcs, remVars, OwnUser, HasSet, PutLocal,
           RemLocal, SessionsOf, Closing
  <1> QED  BY <1>1, <1>2, <1>3, <1>4 DEF Ghostless

LEMMA PutIndexStep ==
  ASSUME Ghostless, NEW s \in Sessions, PutIndex(s)
  PROVE  Ghostless'
  <1> USE UserOfAssumption, NoneAssumption
  <1>1. TypeOK'
    BY DEF Ghostless, TypeOK, PutIndex, PutPcs, remVars
  <1>2. Closing' /\ OwnUser' /\ HasSet'
    BY DEF Ghostless, TypeOK, PutIndex, PutPcs, remVars, Closing, OwnUser, HasSet
  <1>3. PutLocal'
    BY DEF Ghostless, TypeOK, PutIndex, PutPcs, remVars, PutLocal
  <1>4. Indexed'
    BY DEF Ghostless, TypeOK, PutIndex, PutPcs, remVars, Indexed
  <1>5. RemLocal'
    <2>1. \A u \in Users : SessionsOf(u)' = SessionsOf(u)
      BY DEF PutIndex, SessionsOf
    <2>2. \A x \in Sessions : sessionUserMap[x] # None => sessionUserMap'[x] # None
      BY DEF Ghostless, TypeOK, PutIndex
    <2>3. UNCHANGED <<remPc, remSet, userSessionMap, overlapped>>
      BY DEF PutIndex, remVars
    <2> QED
      BY <2>1, <2>2, <2>3 DEF Ghostless, RemLocal
  <1> QED  BY <1>1, <1>2, <1>3, <1>4, <1>5 DEF Ghostless

LEMMA RemLookupStep ==
  ASSUME Ghostless, NEW s \in Sessions, RemLookup(s)
  PROVE  Ghostless'
  <1> USE UserOfAssumption, NoneAssumption
  <1>1. TypeOK'
    BY DEF Ghostless, TypeOK, RemLookup, RemPcs, repoVars, putVars
  <1>2. Closing' /\ OwnUser' /\ HasSet' /\ PutLocal' /\ Indexed'
    BY DEF Ghostless, TypeOK, RemLookup, RemPcs, repoVars, putVars,
           Closing, OwnUser, HasSet, PutLocal, Indexed
  <1>3. RemLocal'
    <2>1. \A u \in Users : SessionsOf(u)' = SessionsOf(u)
      BY DEF RemLookup, SessionsOf, repoVars
    <2>2. s \notin overlapped' /\ remPc'[s] = "done" => s \notin SessionsOf(UserOf[s])
      BY DEF Ghostless, TypeOK, RemLookup, RemPcs, SessionsOf, Indexed
    <2>3. \A x \in Sessions : x # s => remPc'[x] = remPc[x]
      BY DEF Ghostless, TypeOK, RemLookup
    <2>4. overlapped \subseteq overlapped' /\ remPc'[s] \in {"set", "done"}
      BY DEF Ghostless, TypeOK, RemLookup
    <2>5. remPc'[s] = "set" => sessionUserMap[s] # None
      BY DEF Ghostless, TypeOK, RemLookup
    <2> QED
      BY <2>1, <2>2, <2>3, <2>4, <2>5
      DEF Ghostless, RemLookup, repoVars, putVars, RemLocal
  <1> QED  BY <1>1, <1>2, <1>3 DEF Ghostless

LEMMA RemGetStep ==
  ASSUME Ghostless, NEW s \in Sessions, RemGet(s)
  PROVE  Ghostless'
  <1> USE UserOfAssumption, NoneAssumption
  <1>1. sessionUserMap[s] = UserOf[s] /\ UserOf[s] \in Users
    BY DEF Ghostless, TypeOK, RemGet, OwnUser, RemLocal
  <1>2. TypeOK'
    BY <1>1 DEF Ghostless, TypeOK, RemGet, RemPcs, repoVars, putVars
  <1>3. Closing' /\ OwnUser' /\ HasSet' /\ PutLocal' /\ RemLocal' /\ Indexed'
    BY <1>1 DEF Ghostless, TypeOK, RemGet, RemPcs, repoVars, putVars,
           Closing, OwnUser, HasSet, PutLocal, RemLocal, SessionsOf, Indexed
  <1> QED  BY <1>2, <1>3 DEF Ghostless

LEMMA RemDropStep ==
  ASSUME Ghostless, NEW s \in Sessions, RemDrop(s)
  PROVE  Ghostless'
  <1> USE UserOfAssumption, NoneAssumption
  <1>1. TypeOK'
    BY DEF Ghostless, TypeOK, RemDrop, RemPcs, putVars
  <1>2. Closing' /\ OwnUser' /\ HasSet' /\ PutLocal' /\ Indexed'
    BY DEF Ghostless, TypeOK, RemDrop, RemPcs, putVars,
           Closing, OwnUser, HasSet, PutLocal, Indexed
  <1>3. RemLocal'
    BY DEF Ghostless, TypeOK, RemDrop, RemPcs, putVars, HasSet, RemLocal, SessionsOf
  <1> QED  BY <1>1, <1>2, <1>3 DEF Ghostless

LEMMA RemUnindexStep ==
  ASSUME Ghostless, NEW s \in Sessions, RemUnindex(s)
  PROVE  Ghostless'
  <1> USE UserOfAssumption, NoneAssumption
  <1>1. TypeOK'
    BY DEF Ghostless, TypeOK, RemUnindex, RemPcs, putVars
  <1>2. Closing' /\ OwnUser' /\ HasSet' /\ PutLocal' /\ RemLocal' /\ Indexed'
    BY DEF Ghostless, TypeOK, RemUnindex, RemPcs, putVars,
           Closing, OwnUser, HasSet, PutLocal, RemLocal, SessionsOf, Indexed
  <1> QED  BY <1>1, <1>2 DEF Ghostless

\* sendSingle only reads the repository.
LEMMA SendSteps ==
  ASSUME Ghostless, NEW d \in Senders, SendStep(d)
  PROVE  Ghostless'
  <1> USE UserOfAssumption, NoneAssumption
  <1>1. UNCHANGED <<conn, repoVars, putVars, remVars, overlapped>>
    BY DEF SendStep, SendBegin, SendPick, SendDeliver, SendEnd
  <1>2. send' \in [Senders -> SendStates]
    <2> send \in [Senders -> SendStates]  BY DEF Ghostless, TypeOK
    <2>1. ASSUME NEW u \in Users, SendBegin(d, u)
          PROVE  send' \in [Senders -> SendStates]
      BY <2>1 DEF Ghostless, TypeOK, SendBegin, SendStates, Idle
    <2>2. ASSUME NEW s \in Sessions, SendPick(d, s)
          PROVE  send' \in [Senders -> SendStates]
      BY <2>2 DEF SendPick, SendStates
    <2>3. SendDeliver(d) => send' \in [Senders -> SendStates]
      BY DEF SendDeliver, SendStates
    <2>4. SendEnd(d) => send' \in [Senders -> SendStates]
      BY DEF SendEnd, SendStates, Idle
    <2> QED  BY <2>1, <2>2, <2>3, <2>4 DEF SendStep
  <1>3. TypeOK'
    BY <1>1, <1>2 DEF Ghostless, TypeOK, repoVars, putVars, remVars
  <1> QED
    BY <1>1, <1>3 DEF Ghostless, repoVars, putVars, remVars,
           Closing, OwnUser, HasSet, PutLocal, RemLocal, SessionsOf, Indexed

LEMMA GhostlessInvariant == Spec => []Ghostless
  <1>1. Ghostless /\ [Next]_vars => Ghostless'
    <2> SUFFICES ASSUME Ghostless, [Next]_vars PROVE Ghostless'
      OBVIOUS
    <2>1. CASE UNCHANGED vars
      BY <2>1 DEF vars, repoVars, putVars, remVars, Ghostless, TypeOK,
             Closing, OwnUser, HasSet, PutLocal, RemLocal, SessionsOf, Indexed
    <2>2. ASSUME NEW s \in Sessions, Connect(s) \/ Subscribe(s) \/ Close(s)
          PROVE  Ghostless'
      BY <2>2, ConnSteps
    <2>3. ASSUME NEW s \in Sessions, PutStep(s) PROVE Ghostless'
      BY <2>3, PutGetStep, PutInstallStep, PutAddStep, PutIndexStep DEF PutStep
    <2>4. ASSUME NEW s \in Sessions, RemStep(s) PROVE Ghostless'
      BY <2>4, RemLookupStep, RemGetStep, RemDropStep, RemUnindexStep DEF RemStep
    <2>5. ASSUME NEW d \in Senders, SendStep(d) PROVE Ghostless'
      BY <2>5, SendSteps
    <2> QED  BY <2>1, <2>2, <2>3, <2>4, <2>5 DEF Next
  <1> QED  BY InitGhostless, <1>1, PTL DEF Spec

\* All variables keep their types.
THEOREM TypeCorrect == Spec => []TypeOK
  <1> Ghostless => TypeOK  BY DEF Ghostless
  <1> QED  BY GhostlessInvariant, PTL

\* Once the disconnect of a session has been handled, get returns it for no
\* user, however the puts of its user raced.
THEOREM NoGhostHolds == Spec => []NoGhost
  <1>1. Ghostless => NoGhost
    <2> SUFFICES ASSUME Ghostless, NEW s \in Sessions \ overlapped, NEW u \in Users,
                        remPc[s] = "done", s \in SessionsOf(u)
                 PROVE  FALSE
      BY DEF NoGhost
    <2>1. userSessionMap[u] \in Sessions /\ s \in members[userSessionMap[u]]
      BY DEF Ghostless, TypeOK, SessionsOf
    <2>2. UserOf[s] = u
      BY <2>1, NoneAssumption DEF Ghostless, OwnUser
    <2> QED  BY <2>2 DEF Ghostless, RemLocal
  <1> QED  BY <1>1, GhostlessInvariant, PTL

\* remove(sessionId) always finds a set to remove from.
THEOREM RemoveFindsASetHolds == Spec => []RemoveFindsASet
  <1>1. Ghostless => RemoveFindsASet
    BY DEF Ghostless, RemLocal, RemoveFindsASet
  <1> QED  BY <1>1, GhostlessInvariant, PTL

-----------------------------------------------------------------------------

\* Unless a set of its user was replaced, a session is where its put left it.
Found ==
    \A s \in Sessions :
        UserOf[s] \notin overwritten =>
          /\ putPc[s] = "add" => putSet[s] = userSessionMap[UserOf[s]]
          /\ putPc[s] = "index" /\ remPc[s] \in {"idle", "set", "drop"}
               => s \in SessionsOf(UserOf[s])
          /\ sessionUserMap[s] # None /\ remPc[s] \in {"idle", "set", "drop"}
               => s \in SessionsOf(UserOf[s])

LEMMA FoundStep ==
  ASSUME Ghostless, Found, [Next]_vars
  PROVE  Found'
  <1> USE UserOfAssumption, NoneAssumption
  <1> USE DEF Ghostless, TypeOK, Found, SessionsOf
  <1>1. CASE UNCHANGED vars
    BY <1>1 DEF vars, repoVars, putVars, remVars
  <1>2. ASSUME NEW s \in Sessions, Connect(s) \/ Subscribe(s) \/ Close(s)
        PROVE  Found'
    BY <1>2 DEF Connect, Subscribe, Close, repoVars, putVars, remVars
  <1>3. ASSUME NEW s \in Sessions, PutGet(s) PROVE Found'
    BY <1>3 DEF PutGet, repoVars, remVars
  <1>4. ASSUME NEW s \in Sessions, PutInstall(s) PROVE Found'
    <2> UserOf[s] \in Users /\ putSet[s] \in Sessions
      BY <1>4 DEF PutInstall, PutLocal
    <2>1. CASE userSessionMap[UserOf[s]] = None
      BY <1>4, <2>1 DEF PutInstall, remVars, HasSet
    <2>2. CASE userSessionMap[UserOf[s]] # None
      BY <1>4, <2>2 DEF PutInstall, remVars
    <2> QED  BY <2>1, <2>2
  <1>5. ASSUME NEW s \in Sessions, PutAdd(s) PROVE Found'
    BY <1>5 DEF PutAdd, remVars, HasSet
  <1>6. ASSUME NEW s \in Sessions, PutIndex(s) PROVE Found'
    BY <1>6 DEF PutIndex, remVars
  <1>7. ASSUME NEW s \in Sessions, RemLookup(s) PROVE Found'
    BY <1>7 DEF RemLookup, repoVars, putVars
  <1>8. ASSUME NEW s \in Sessions, RemGet(s) PROVE Found'
    BY <1>8 DEF RemGet, repoVars, putVars
  <1>9. ASSUME NEW s \in Sessions, RemDrop(s) PROVE Found'
    BY <1>9 DEF RemDrop, putVars, Closing
  <1>10. ASSUME NEW s \in Sessions, RemUnindex(s) PROVE Found'
    BY <1>10 DEF RemUnindex, putVars
  <1>11. ASSUME NEW d \in Senders, SendStep(d) PROVE Found'
    BY <1>11 DEF SendStep, SendBegin, SendPick, SendDeliver, SendEnd, repoVars,
           putVars, remVars
  <1> QED
    BY <1>1, <1>2, <1>3, <1>4, <1>5, <1>6, <1>7, <1>8, <1>9, <1>10, <1>11
    DEF Next, PutStep, RemStep

\* An indexed session is lost to get only by two first subscriptions of its user
\* that overlapped.
THEOREM LostOnlyByOverwriteHolds == Spec => []LostOnlyByOverwrite
  <1>1. Init => Found
    BY DEF Init, Found
  <1>2. Found => LostOnlyByOverwrite
    BY DEF Found, LostOnlyByOverwrite
  <1> QED  BY <1>1, FoundStep, <1>2, GhostlessInvariant, PTL DEF Spec

-----------------------------------------------------------------------------

\* What a sendSingle in progress relies on: the sessions that were gone when it
\* started are not, and will not be, in the set it walks.
Sending ==
    \A d \in Senders :
        /\ send[d].set = None => send[d].next = None
        /\ send[d].set # None =>
              \A s \in send[d].gone :
                 /\ remPc[s] = "done"
                 /\ s \notin overlapped
                 /\ s \notin members[send[d].set]
        /\ \A s \in Sessions : send[d].next = s =>
              s \notin send[d].gone /\ UserOf[s] = UserOf[send[d].set]

\* The repository moves on while sendSingle walks a set.
LEMMA SendingUnderRepo ==
  ASSUME Ghostless, Sending, UNCHANGED send, NEW s \in Sessions,
         \/ Connect(s) \/ Subscribe(s) \/ Close(s)
         \/ PutStep(s) \/ RemStep(s)
  PROVE  Sending'
  <1> USE UserOfAssumption, NoneAssumption
  <1>1. \A x \in Sessions :
           /\ remPc[x] = "done" => remPc'[x] = "done"
           /\ remPc[x] = "done" /\ x \notin overlapped => x \notin overlapped'
    BY DEF Connect, Subscribe, Close, PutStep, PutGet, PutInstall, PutAdd, PutIndex,
           RemStep, RemLookup, RemGet, RemDrop, RemUnindex, repoVars, putVars,
           remVars, Ghostless, TypeOK
  <1>2. ASSUME NEW x \in Sessions, NEW t \in Sessions, remPc[x] = "done",
               x \notin overlapped, x \notin members[t]
        PROVE  x \notin members'[t]
    BY <1>2 DEF Connect, Subscribe, Close, PutStep, PutGet, PutInstall, PutAdd, PutIndex,
           RemStep, RemLookup, RemGet, RemDrop, RemUnindex, repoVars, putVars,
           remVars, Ghostless, TypeOK, Closing
  <1>3. \A d \in Senders :
           send[d].set \in Sessions \cup {None} /\ send[d].gone \subseteq Sessions
    BY DEF Ghostless, TypeOK, SendStates
  <1> QED  BY <1>1, <1>2, <1>3 DEF Sending

LEMMA SendingStep ==
  ASSUME Ghostless, Sending, NEW d \in Senders, SendStep(d)
  PROVE  Sending'
  <1> USE UserOfAssumption, NoneAssumption
  <1>1. send \in [Senders -> SendStates]
    BY DEF Ghostless, TypeOK
  <1>2. ASSUME NEW u \in Users, SendBegin(d, u) PROVE Sending'
    <2>1. userSessionMap[u] \in Sessions /\ UserOf[userSessionMap[u]] = u
      BY <1>2 DEF SendBegin, Ghostless, TypeOK, OwnUser
    <2>2. \A s \in Sessions \ overlapped :
             remPc[s] = "done" => s \notin members[userSessionMap[u]]
      BY <2>1 DEF Ghostless, OwnUser, RemLocal, SessionsOf
    <2> QED  BY <1>1, <1>2, <2>1, <2>2 DEF SendBegin, Sending, SendStates, Idle,
             repoVars, remVars
  <1>3. ASSUME NEW s \in Sessions, SendPick(d, s) PROVE Sending'
    <2>1. send[d].set \in Sessions /\ s \in members[send[d].set]
      BY <1>1, <1>3 DEF SendPick, SendStates
    <2>2. s \notin send[d].gone /\ UserOf[s] = UserOf[send[d].set]
      BY <1>1, <1>3, <2>1 DEF Sending, SendPick, Ghostless, OwnUser, SendStates
    <2> QED  BY <1>1, <1>3, <2>1, <2>2 DEF SendPick, Sending, SendStates,
             repoVars, remVars
  <1>4. CASE SendDeliver(d)
    BY <1>1, <1>4 DEF SendDeliver, Sending, SendStates, repoVars, remVars
  <1>5. CASE SendEnd(d)
    BY <1>1, <1>5 DEF SendEnd, Sending, SendStates, Idle,
             repoVars, remVars
  <1> QED  BY <1>2, <1>3, <1>4, <1>5 DEF SendStep

\* sendSingle sends to no session that was gone when it started.
THEOREM SendsOnlyToLiveHolds == Spec => []SendsOnlyToLive
  <1>1. Init => Sending
    BY NoneAssumption DEF Init, Sending, Idle
  <1>2. Ghostless /\ Sending /\ [Next]_vars => Sending'
    <2> SUFFICES ASSUME Ghostless, Sending, [Next]_vars PROVE Sending'
      OBVIOUS
    <2>1. CASE UNCHANGED vars
      BY <2>1 DEF vars, repoVars, putVars, remVars, Sending
    <2>2. ASSUME NEW s \in Sessions,
                 Connect(s) \/ Subscribe(s) \/ Close(s) \/ PutStep(s) \/ RemStep(s)
          PROVE  Sending'
      <3>1. UNCHANGED send
        BY <2>2 DEF Connect, Subscribe, Close, PutStep, PutGet, PutInstall, PutAdd,
               PutIndex, RemStep, RemLookup, RemGet, RemDrop, RemUnindex
      <3> QED  BY <2>2, <3>1, SendingUnderRepo
    <2>3. ASSUME NEW d \in Senders, SendStep(d) PROVE Sending'
      BY <2>3, SendingStep
    <2> QED  BY <2>1, <2>2, <2>3 DEF Next
  <1>3. Sending => SendsOnlyToLive
    BY DEF Sending, SendsOnlyToLive
  <1> QED  BY <1>1, <1>2, <1>3, GhostlessInvariant, PTL DEF Spec

-----------------------------------------------------------------------------
(* UserSigManager. *)

\* An item for identifier i as some thread once generated it.
Made(item, i) ==
    /\ item \in Items
    /\ item.id = i
    /\ item.init <= now
    /\ item.expire = item.init + Lifetime

\* An item that at the time it was looked for had more than the margin left.
Lasting(item, at) == item.init >= at \/ at + Margin < item.expire

MapMade == \A i \in Identifiers : map[i] # Null => Made(map[i], i)

\* What a thread has learnt and holds at each place of getOrGenAvailable.
LocalsMade ==
    \A t \in Threads :
        /\ asked[t] <= now
        /\ pc[t] # "idle" => request[t] \in Requests
        /\ pc[t] \in {"add", "built"} =>
              Made(exist[t], request[t].id) /\ Lasting(exist[t], asked[t])
        /\ pc[t] = "add" => exist[t].init >= asked[t]
        /\ pc[t] \in {"generate", "add"} /\ found[t] # Null =>
              /\ found[t].expire = found[t].init + Lifetime
              /\ found[t].expire <= asked[t] + Margin

Types ==
    /\ now \in Times
    /\ map \in [Identifiers -> Items \cup {Null}]
    /\ pc \in [Threads -> PCs]
    /\ request \in [Threads -> Requests \cup {Null}]
    /\ found \in [Threads -> Items \cup {Null}]
    /\ exist \in [Threads -> Items \cup {Null}]
    /\ asked \in [Threads -> Times]

Sound == Types /\ MapMade /\ LocalsMade

-----------------------------------------------------------------------------

LEMMA Durations ==
  /\ Lifetime \in Nat /\ Margin \in Nat /\ IntMax \in Nat /\ MaxTime \in Nat
  /\ Margin < Lifetime
  BY TimeAssumption

LEMMA ItemFields ==
  ASSUME NEW item \in Items
  PROVE  item.init \in Nat /\ item.expire \in Nat
  <1>1. item.init \in Times /\ item.expire \in Nat
    BY DEF Items
  <1> QED  BY <1>1, Durations DEF Times

LEMMA Clocks ==
  ASSUME Sound
  PROVE  now \in Nat /\ \A t \in Threads : asked[t] \in Nat
  <1>1. now \in Times /\ \A t \in Threads : asked[t] \in Times
    BY DEF Sound, Types
  <1> QED  BY <1>1, Durations DEF Times

LEMMA InitSound == SigInit => Sound
  BY TimeAssumption DEF SigInit, Sound, Types, Times, PCs, MapMade, LocalsMade

LEMMA GetStep ==
  ASSUME Sound, NEW t \in Threads, Get(t)
  PROVE  Sound'
  <1> DEFINE item == map[request[t].id]
  <1> USE TimeAssumption, RequestsAssumption DEF Times
  <1>1. request[t] \in Requests /\ request[t].id \in Identifiers
    BY DEF Sound, Types, LocalsMade, Get
  <1>2. item \in Items \cup {Null} /\ (item # Null => Made(item, request[t].id))
    BY <1>1 DEF Sound, Types, MapMade
  <1>3. \/ pc'[t] = "generate" /\ (item = Null \/ isExpired(item))
        \/ pc'[t] = "built" /\ item # Null /\ ~isExpired(item)
    BY DEF Sound, Types, Get
  <1>4. Types'
    BY <1>2 DEF Sound, Types, PCs, Get
  <1>5. MapMade'
    BY DEF Sound, MapMade, Made, Get
  <1>6. LocalsMade'
    <2>1. found'[t] = item /\ exist'[t] = item /\ asked'[t] = now
      BY DEF Sound, Types, Get
    <2>2. \A x \in Threads \ {t} :
             /\ pc'[x] = pc[x] /\ request'[x] = request[x] /\ found'[x] = found[x]
             /\ exist'[x] = exist[x] /\ asked'[x] = asked[x]
      BY DEF Sound, Types, Get
    <2>3. now' = now /\ request'[t] = request[t]
      BY DEF Get
    <2>4. CASE item = Null
      BY <1>1, <1>3, <2>1, <2>2, <2>3, <2>4 DEF Sound, Types, LocalsMade, Made, Lasting
    <2>5. CASE item # Null
      <3>1. Made(item, request[t].id) /\ item.expire \in Nat /\ item.init \in Nat
        BY <1>2, <2>5, ItemFields DEF Made
      <3>2. now \in Nat
        BY DEF Sound, Types
      <3> HIDE DEF item
      <3> QED
        BY <1>1, <1>3, <2>1, <2>2, <2>3, <2>5, <3>1, <3>2
        DEF Sound, LocalsMade, Made, Lasting, isExpired
    <2> QED  BY <2>4, <2>5
  <1> QED  BY <1>4, <1>5, <1>6 DEF Sound

LEMMA GenerateStep ==
  ASSUME Sound, NEW t \in Threads, Generate(t)
  PROVE  Sound'
  <1>1. PICK s \in {"signed", "empty"} :
           exist' = [exist EXCEPT ![t] =
                        [app |-> request[t].app, id |-> request[t].id, userSig |-> s,
                         init |-> now, expire |-> now + Lifetime]]
    BY DEF Generate
  <1>2. request[t] \in Requests /\ request[t].id \in Identifiers /\ request[t].app \in Apps
    BY RequestsAssumption DEF Sound, Types, LocalsMade, Generate
  <1>3. Made(exist'[t], request[t].id) /\ exist'[t].init = now
    <2> DEFINE item == [app |-> request[t].app, id |-> request[t].id, userSig |-> s,
                        init |-> now, expire |-> now + Lifetime]
    <2>1. exist'[t] = item
      BY <1>1 DEF Sound, Types
    <2>2. now \in Times
      BY DEF Sound, Types
    <2>3. now + Lifetime \in Nat /\ now <= now
      BY Clocks, Durations
    <2>4. item \in Items
      BY <1>2, <2>2, <2>3 DEF Items
    <2>5. item.id = request[t].id /\ item.init = now /\ item.expire = now + Lifetime
      OBVIOUS
    <2> HIDE DEF item
    <2> QED  BY <2>1, <2>3, <2>4, <2>5 DEF Made
  <1>4. Types'
    BY <1>1, <1>3 DEF Sound, Types, PCs, Generate, Made
  <1>5. MapMade'
    BY DEF Sound, MapMade, Made, Generate
  <1>6. LocalsMade'
    <2>1. \A x \in Threads \ {t} : pc'[x] = pc[x] /\ exist'[x] = exist[x]
      BY <1>1 DEF Sound, Types, Generate
    <2>2. pc'[t] = "add" /\ UNCHANGED <<now, map, request, found, asked>>
      BY DEF Sound, Types, Generate
    <2>3. now' = now /\ now \in Nat /\ asked[t] \in Nat
      BY <2>2, Clocks
    <2>4. Lasting(exist'[t], asked[t])
      BY <1>3, <2>3 DEF Sound, LocalsMade, Lasting
    <2> QED
      BY <1>2, <1>3, <2>1, <2>2, <2>3, <2>4 DEF Sound, LocalsMade, Made, Generate, Lasting
  <1> QED  BY <1>4, <1>5, <1>6 DEF Sound

LEMMA AddStep ==
  ASSUME Sound, NEW t \in Threads, Add(t)
  PROVE  Sound'
  <1> USE TimeAssumption, RequestsAssumption DEF Times
  <1>1. request[t].id \in Identifiers /\ Made(exist[t], request[t].id)
    BY DEF Sound, Types, LocalsMade, Add
  <1>2. Types'
    BY <1>1 DEF Sound, Types, PCs, Add, Made, locals
  <1>3. MapMade'
    BY <1>1 DEF Sound, Types, MapMade, Made, Add
  <1>4. LocalsMade'
    BY DEF Sound, Types, LocalsMade, Made, Lasting, Add, locals
  <1> QED  BY <1>2, <1>3, <1>4 DEF Sound

\* A request begins, ends or fails.
LEMMA OtherSteps ==
  ASSUME Sound, NEW t \in Threads, Begin(t) \/ GenerateThrows(t) \/ Execute(t)
  PROVE  Sound'
  <1> USE TimeAssumption DEF Times
  <1>1. Types'
    BY DEF Sound, Types, PCs, Begin, GenerateThrows, Execute, Forget
  <1>2. MapMade'
    BY DEF Sound, MapMade, Made, Begin, GenerateThrows, Execute
  <1>3. LocalsMade'
    BY DEF Sound, Types, LocalsMade, Made, Lasting, Begin, GenerateThrows, Execute,
           Forget
  <1> QED  BY <1>1, <1>2, <1>3 DEF Sound

LEMMA TickStep ==
  ASSUME Sound, Tick
  PROVE  Sound'
  <1> USE TimeAssumption DEF Times
  <1>1. Types'
    BY DEF Sound, Types, Tick, locals
  <1>2. now \in Nat /\ now' = now + 1 /\ UNCHANGED <<map, pc, request, found, exist, asked>>
    BY Durations DEF Sound, Types, Tick, locals
  <1>3. MapMade'
    BY <1>2, ItemFields DEF Sound, MapMade, Made
  <1>4. LocalsMade'
    <2>1. \A x \in Threads : asked[x] \in Nat
      BY Durations DEF Sound, Types
    <2> QED  BY <1>2, <2>1, ItemFields DEF Sound, LocalsMade, Made, Lasting
  <1> QED  BY <1>1, <1>3, <1>4 DEF Sound

LEMMA SoundInvariant == SigSpec => []Sound
  <1>1. Sound /\ UNCHANGED sigVars => Sound'
    BY DEF sigVars, locals, Sound, Types, MapMade, LocalsMade, Made, Lasting
  <1>2. Sound /\ [SigNext]_sigVars => Sound'
    BY <1>1, GetStep, GenerateStep, AddStep, OtherSteps, TickStep DEF SigNext, Step
  <1> QED  BY InitSound, <1>2, PTL DEF SigSpec

\* All variables keep their types.
THEOREM SigTypeCorrect == SigSpec => []SigTypeOK
  <1>1. Sound => SigTypeOK
    BY DEF Sound, Types, LocalsMade, Made, SigTypeOK
  <1> QED  BY <1>1, SoundInvariant, PTL

\* Within the margin a request is refused only for a ticket that could not be
\* signed or one of another app.
THEOREM RefusedForTwoReasonsOnlyHolds == SigSpec => []RefusedForTwoReasonsOnly
  <1>1. Sound => RefusedForTwoReasonsOnly
    <2> SUFFICES ASSUME Sound, NEW t \in Threads, pc[t] = "built",
                        now - asked[t] <= Margin
                 PROVE  Verdict(request[t], exist[t]) \in {"ok", "unreadable", "sdkappid"}
      BY DEF RefusedForTwoReasonsOnly
    <2>1. Made(exist[t], request[t].id) /\ Lasting(exist[t], asked[t])
      BY DEF Sound, LocalsMade
    <2>2. now - exist[t].init <= Lifetime
      <3> asked[t] \in Nat /\ now \in Nat /\ exist[t].init \in Nat
        BY <2>1, ItemFields, Durations DEF Sound, Types, Made, Times
      <3> QED  BY <2>1, Durations DEF Made, Lasting
    <2>3. exist[t].id = request[t].id
      BY <2>1 DEF Made
    <2>4. ~(now - exist[t].init > Lifetime)
      BY <2>2, Clocks, <2>1, ItemFields, Durations DEF Made
    <2> HIDE DEF Sound
    <2> QED  BY <2>3, <2>4, Zenon DEF Verdict
  <1> QED  BY <1>1, SoundInvariant, PTL

\* A signature is replaced by one signed later, or by a thread that had asked before
\* it was signed and did not find it.
THEOREM ReplacedByNewerHolds == SigSpec => ReplacedByNewer
  <1>1. Sound /\ [SigNext]_sigVars =>
          [\A i \in Identifiers :
              map[i] # Null /\ map'[i] # map[i] =>
                 \/ map'[i].init > map[i].init
                 \/ \E t \in Threads :
                       /\ pc[t] = "add" /\ pc'[t] = "built" /\ request[t].id = i
                       /\ asked[t] <= map[i].init /\ found[t] # map[i]]_sigVars
    <2> SUFFICES ASSUME Sound, SigNext, NEW i \in Identifiers, map[i] # Null, map'[i] # map[i],
                        ~(map'[i].init > map[i].init)
                 PROVE  \E t \in Threads :
                           /\ pc[t] = "add" /\ pc'[t] = "built" /\ request[t].id = i
                           /\ asked[t] <= map[i].init /\ found[t] # map[i]
      OBVIOUS
    <2>1. PICK t \in Threads : Add(t)
      BY DEF SigNext, Step, Tick, Begin, Get, Generate, GenerateThrows, Execute
    <2>2. request[t].id = i /\ map'[i] = exist[t]
      BY <2>1 DEF Add, Sound, Types
    <2>3. pc[t] = "add" /\ pc'[t] = "built"
      BY <2>1 DEF Add, Sound, Types
    <2>4. exist[t].init >= asked[t] /\ exist[t] \in Items /\ map[i] \in Items
      BY <2>3 DEF Sound, Types, LocalsMade, Made
    <2>5. exist[t].init \in Nat /\ map[i].init \in Nat /\ asked[t] \in Nat
      BY <2>4, ItemFields, Durations DEF Sound, Types, Times
    <2>6. asked[t] <= map[i].init
      BY <2>2, <2>4, <2>5
    <2>7. found[t] # map[i]
      <3> SUFFICES ASSUME found[t] = map[i]
                   PROVE  FALSE
        OBVIOUS
      <3>1. map[i].init + Lifetime <= asked[t] + Margin
        BY <2>3 DEF Sound, LocalsMade
      <3> QED  BY <2>5, <2>6, <3>1, Durations
    <2> QED  BY <2>2, <2>3, <2>6, <2>7
  <1> QED  BY <1>1, SoundInvariant, PTL DEF SigSpec, ReplacedByNewer
=============================================================================
