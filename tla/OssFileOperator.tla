-------------------------- MODULE OssFileOperator --------------------------
(***************************************************************************)
(* OssFileOperatorImpl: fileUpload, called for any number of files at the  *)
(* same time and by any number of processes on one bucket, and             *)
(* generateStsUrl, which makes a temporary URL for the address an upload   *)
(* has returned.  The bucket is Aliyun's: doesObjectExist and putObject    *)
(* are two calls to it, either may fail, and putObject replaces what is    *)
(* there.                                                                  *)
(*                                                                         *)
(* An address is what the code makes of endpoint and key; of the endpoint  *)
(* only matters whether it has a scheme and whether it ends in "/".        *)
(***************************************************************************)
EXTENDS Integers

CONSTANTS Uploads,      \* the calls of fileUpload, one each
          Requests,     \* FileUploadRequests with a type
          Randoms,      \* what randomAlphanumeric(10) can draw
          Endpoints,    \* ossEndpoints: "plain", "slash" (ends in /), "bare" (no //)
          MaxRetry,     \* 5
          Minute,       \* 60 * 1000
          Word,         \* 2^32: the values of an int
          ExpireTimes,  \* minutes that URLs are asked for
          MaxDay,       \* bound: the calendar stops here
          Null          \* null

ASSUME NumbersAssumption ==
    /\ {MaxRetry, MaxDay} \subseteq Nat /\ {Minute, Word} \subseteq Nat \ {0}
    /\ ExpireTimes \subseteq Nat
FileTypes == {"image", "doc", "video"}
FileUploadRequests ==
    [type : FileTypes, subDirectory : {"/dir", "dir", Null}, isPrivate : BOOLEAN]
OssEndpoints == {"plain", "slash", "bare"}

ASSUME EndpointsAssumption == Endpoints \subseteq OssEndpoints
ASSUME RequestsAssumption == Requests \subseteq FileUploadRequests

VARIABLES
    endpoint,   \* config.ossEndpoint
    day,        \* LocalDate.now()
    bucket,     \* per key the object there, or Null
    stage,      \* where each upload is
    request,    \* its FileUploadRequest
    key,        \* the local key
    exist,      \* the local exist
    retryTime,  \* the local retryTime
    result,     \* what it returned: an address, Null when it threw
    blind,      \* did its last test of key fail (history)
    raced       \* was key stored by another since its last test (history)

ossVars == <<endpoint, day, bucket, stage, request, key, exist, retryTime, result, blind, raced>>
environment == <<endpoint, day, bucket, request>>
locals == <<key, exist, retryTime, result>>
history == <<blind, raced>>

Stages == {"idle", "test", "while", "retest", "put", "done"}

\* The key for a request on day d with r drawn; a subDirectory without "/" in
\* front is left out of it.
keyOn(d, req, r) ==
    [type |-> req.type, day |-> d,
     dir |-> IF req.subDirectory = "/dir" THEN "dir" ELSE Null, random |-> r]

Keys == {keyOn(d, req, r) : d \in 0 .. MaxDay, req \in Requests, r \in Randoms}

Objects == [by : Uploads, acl : {"Private", "PublicRead"}]

\* An address is host, slashes and key.
Addresses == [host : Endpoints, slashes : Nat, key : Keys]

FileOperateResults == Addresses \cup {Null}

ASSUME NullAssumption == Null \notin Keys \cup Objects \cup Addresses

OssInit ==
    /\ endpoint \in Endpoints
    /\ day = 0
    /\ bucket = [k \in Keys |-> Null]
    /\ stage = [u \in Uploads |-> "idle"]
    /\ request \in [Uploads -> Requests]
    /\ key = [u \in Uploads |-> Null]
    /\ exist = [u \in Uploads |-> FALSE]
    /\ retryTime = [u \in Uploads |-> 0]
    /\ result = [u \in Uploads |-> Null]
    /\ blind = [u \in Uploads |-> FALSE]
    /\ raced = [u \in Uploads |-> FALSE]

buildFileOssKey(req, r) == keyOn(day, req, r)

\* The endpoint's own slash or one put between.
buildOssFilePath(k) == [host |-> endpoint, slashes |-> 1, key |-> k]

\* fileOssPath.replace(hostAddress + "/", ""), where hostAddress ends like the
\* endpoint: the key if that text is there; if not, the whole address stays, which
\* is no key.
fileKey(address) ==
    IF address.slashes = (IF endpoint = "slash" THEN 2 ELSE 1) THEN address.key ELSE Null

\* 60 * expireTime * 1000 in int arithmetic.
intMillis(minutes) ==
    LET x == (minutes * Minute) % Word IN IF 2 * x >= Word THEN x - Word ELSE x

\* The URL made for an address: the key it is signed for and the milliseconds to its
\* expiration.  Making it changes nothing.
generateStsUrl(address, minutes) ==
    [key |-> fileKey(address), lifetime |-> intMillis(minutes)]

-----------------------------------------------------------------------------

\* A key is drawn before the first test or one more of the loop.
DrawKey(u, next) ==
    /\ \E r \in Randoms : key' = [key EXCEPT ![u] = buildFileOssKey(request[u], r)]
    /\ stage' = [stage EXCEPT ![u] = next]
    /\ UNCHANGED <<environment, exist, retryTime, result, history>>

\* new OSSClient, the first key.
Begin(u) ==
    /\ stage[u] = "idle"
    /\ DrawKey(u, "test")

\* exist = doesObjectExist(key), answered.
Answered(u) ==
    /\ exist' = [exist EXCEPT ![u] = bucket[key[u]] # Null]
    /\ blind' = [blind EXCEPT ![u] = FALSE]
    /\ raced' = [raced EXCEPT ![u] = FALSE]

\* The first test; when it fails the exception is logged and exist stays false.
Test(u) ==
    /\ stage[u] = "test"
    /\ \/ Answered(u)
       \/ blind' = [blind EXCEPT ![u] = TRUE] /\ UNCHANGED <<exist, raced>>
    /\ stage' = [stage EXCEPT ![u] = "while"]
    /\ UNCHANGED <<environment, key, retryTime, result>>

\* while (exist && retryTime < 5): another key.
Again(u) ==
    /\ stage[u] = "while"
    /\ exist[u] /\ retryTime[u] < MaxRetry
    /\ DrawKey(u, "retest")

\* Mutant of Retest: the new key is taken to be free.
RetestSkipped(u) ==
    /\ stage[u] = "retest"
    /\ exist' = [exist EXCEPT ![u] = FALSE]
    /\ retryTime' = [retryTime EXCEPT ![u] = @ + 1]
    /\ stage' = [stage EXCEPT ![u] = "while"]
    /\ UNCHANGED <<environment, key, result, history>>

\* The test of the new key, answered.
Retest(u) ==
    /\ stage[u] = "retest"
    /\ Answered(u)
    /\ retryTime' = [retryTime EXCEPT ![u] = @ + 1]
    /\ stage' = [stage EXCEPT ![u] = "while"]
    /\ UNCHANGED <<environment, key, result>>

\* An exception or the IllegalStateException at the end: a request without type or
\* a configuration that OSSClient refuses, a test in the loop that fails (it is
\* outside the inner try), putObject throwing or returning null without effect, and
\* five retries in vain.
Fail(u) ==
    /\ \/ stage[u] \in {"idle", "retest", "put"}
       \/ stage[u] = "while" /\ exist[u] /\ retryTime[u] >= MaxRetry
    /\ stage' = [stage EXCEPT ![u] = "done"]
    /\ UNCHANGED <<environment, key, exist, retryTime, result, history>>

\* if (!exist)
Leave(u) ==
    /\ stage[u] = "while"
    /\ ~exist[u]
    /\ stage' = [stage EXCEPT ![u] = "put"]
    /\ UNCHANGED <<environment, key, exist, retryTime, result, history>>

\* putObject with the acl, and then the address, for which the endpoint must have
\* a "//".  An answer that is lost makes the upload throw with the object there.
Put(u) ==
    /\ stage[u] = "put"
    /\ bucket' = [bucket EXCEPT ![key[u]] =
                     [by |-> u, acl |-> IF request[u].isPrivate THEN "Private"
                                                               ELSE "PublicRead"]]
    /\ \/ endpoint # "bare" /\ result' = [result EXCEPT ![u] = buildOssFilePath(key[u])]
       \/ UNCHANGED result
    /\ stage' = [stage EXCEPT ![u] = "done"]
    /\ raced' = [v \in Uploads |->
                    raced[v] \/ (v # u /\ stage[v] \in {"while", "put"} /\ key[v] = key[u])]
    /\ UNCHANGED <<endpoint, day, request, key, exist, retryTime, blind>>

\* Midnight.
NextDay ==
    /\ day < MaxDay
    /\ day' = day + 1
    /\ UNCHANGED <<endpoint, bucket, request, stage, locals, history>>

Upload(u) ==
    Begin(u) \/ Test(u) \/ Again(u) \/ Retest(u) \/ Leave(u) \/ Put(u) \/ Fail(u)

OssNext == NextDay \/ \E u \in Uploads : Upload(u)

OssSpec == OssInit /\ [][OssNext]_ossVars

-----------------------------------------------------------------------------
(* Properties *)

\* Every variable keeps its type.
OssTypeOK ==
    /\ endpoint \in Endpoints
    /\ day \in 0 .. MaxDay
    /\ bucket \in [Keys -> Objects \cup {Null}]
    /\ stage \in [Uploads -> Stages]
    /\ request \in [Uploads -> Requests]
    /\ key \in [Uploads -> Keys \cup {Null}]
    /\ exist \in [Uploads -> BOOLEAN]
    /\ retryTime \in [Uploads -> 0 .. MaxRetry]
    /\ result \in [Uploads -> FileOperateResults]
    /\ blind \in [Uploads -> BOOLEAN]
    /\ raced \in [Uploads -> BOOLEAN]

\* Under an address that was returned stays the very file that was uploaded (with
\* its own acl), until an upload replaces it that could not test, or tested before
\* the file was there.
AddressKept ==
    \A u \in Uploads : result[u] # Null =>
        LET object == bucket[result[u].key] IN
        /\ object # Null
        /\ object.by = u \/ blind[object.by] \/ raced[object.by]

\* A temporary URL made for an address names the object uploaded to that address.
StsUrlNamesTheFile ==
    \A u \in Uploads, m \in ExpireTimes : result[u] # Null =>
        LET url == generateStsUrl(result[u], m) IN
        url.key = key[u] /\ bucket[url.key] # Null

\* A temporary URL never works longer than it was asked for, also where the
\* milliseconds do not fit an int.
NeverOutlives ==
    \A u \in Uploads, m \in ExpireTimes : result[u] # Null =>
        generateStsUrl(result[u], m).lifetime <= m * Minute
=============================================================================
