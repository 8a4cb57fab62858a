# Verification of common-base-parent

TLA+ models of the concurrent, asynchronous and failure-prone parts of this
repository, TLC runs that check them on small instances, and TLAPS proofs for every
instance.

## 1. The system

A multi-module Spring Boot project (Java) for a merchant platform, with browser
pages that talk to it through the scripts it ships. Most Java files are DTOs and
configuration; the behaviour is in the components below.

| Component | Code | State | Operations | Hard because |
|---|---|---|---|---|
| Mutex handler | `common-base/.../utils/MutexOptSyncUtils.java` | a key with an expiry in a shared store; locals of each caller | `sync`, `handle` (`lockCache`, retry loop, timeout, `function.apply`, `removeCache`) | callers on several nodes, expiry, crashes, exceptions anywhere |
| Order numbers | `common-base/.../utils/SingleNoGeneratorUtils.java` | one `AtomicInteger` per type flag | `generateOrderNo` | first use and wrap-around raced by threads |
| Online users | `common-web/.../websocket/**` | `userSessionMap`, `sessionUserMap`, sets of sessions | `put`, `remove`, `get`; subscribe and disconnect events; `sendSingle` | maps and sets updated in separate steps under a lock that excludes nobody |
| MQ sender and topology | `CommonMqInfoSender`, `MqMsgSendController`, `MqQueueConfig` | none (the broker's queues) | `send`, `sendDelay`, `sendFanout`, declaration at start | swallowed exceptions, per-message TTL, dead-lettering |
| Simple consumer | `MySimpleMsgConsumer` | `rejectMsgMap` per node | `process` with manual ack, scheduled cleaner | redelivery, crash, ack lost, cleaner between two steps |
| Delay and fanout consumers | `MyDelayMsgConsumer`, `MyFanoutMsgConsumer` | none | `process` | redelivery, order |
| IM user signatures | `common-integrated/.../im/sig/*`, `TlsSignatureUtils` | `MemoryUserSigRepository.map` | `getOrGenAvailable`, `generate`, `isExpired`, the check of a ticket | ageing tickets, races of refreshers, failed signing |
| IM API client | `ImApiClient`, `ApiBaseRequest` | singletons, a connection pool | build a request, `execute` | the ticket is fixed long before it is sent |
| Channel client | `common-client/**` | `httpApiConfig`, `converterMap`, the pooled HTTP client | `registerApiConfig`, `execute`, dispatch by channel code | first use raced, failures at every step, bounded pool, late answers |
| OSS operator | `common-integrated/.../oss/*` | remote objects | `fileUpload`, `generateStsUrl`, keys and paths | test-then-put, retries, `int` arithmetic |
| Web-socket pages | `scripts/websocket/app.js`, `demo-app.js` | `stompClient`, the buttons | connect, disconnect, send, show | the user clicks while a connection is pending or ending |
| STOMP client | `stomp-websocket/stomp.js` | subscriptions, timers, partial data | frames, heart-beats, subscribe, disconnect | timers against late frames, text cut into pieces |
| SockJS client | `sockjs-client/sockjs.js` | ready state, transports to try, senders, receivers, frames | info, choice of transports, send, close | ten kinds of transport, each with failures, timeouts and late answers |
| jQuery callbacks, promises, ajax | `js/jquery-1.11.0.js` 3040-3375, 8600-9990 | lists that are firing, promises, `jQuery.active`, global names | `Callbacks`, `Deferred`, `when`, `ajax`, `abort`, `jsonp` | functions that call back into the list that calls them |
| jQuery elements | `js/jquery-1.11.0.js` 3376-7720 | `jQuery.cache`, handler lists, the tree, queues, timers, `readyList` | `data`, `on`, `off`, `trigger`, `append`, `clone`, `remove`, `animate`, `stop`, `finish`, `ready` | one event loop shared by callbacks that undo each other's work |
| Sizzle and traversing | `js/jquery-1.11.0.js` 550-3030 | matchers' caches on the nodes | `find`, `filter`, `closest`, walks | results kept between calls |
| Others | see section 6 | | | |

How they interact: the web module sends messages through the MQ sender to the
broker, whose queues the async module consumes. A browser page connects through
app.js, stomp.js and sockjs.js; its subscribe and disconnect events fill the online
repository, which the notification controller reads. An IM request is built from a
cached or new signature and sent through the pooled HTTP client. The mutex, the
order numbers and the singletons are libraries called by any thread; in the browser
there is one thread, and everything is an interleaving of handlers that run to their
end but call each other.

`PROJECT.json` lists every component with its status and, under `hazards`, each
place where the code can go wrong in a way a test would hardly reach.

## 2. Modules and their code

| Module | Models | Proofs |
|---|---|---|
| `MutexLock` | abstract lock: enter an empty section, leave it | target of a refinement |
| `MutexOptSync` (+ `MC`) | `RedisMutexOptSyncHandler.handle` with its store | `MutexOptSync_proofs` |
| `SingleNoGenerator` | `generateByType` | `OrdersAndFiles_proofs` |
| `UserOnlineRepo` (+ `MC`) | `UserOnlineRepoImpl`, `StompUserConnectEventHandle`, `sendSingle` | `Users_proofs` |
| `SimpleMsgQueue` (+ `MC`) | `send`, the queue, `MySimpleMsgConsumer` with its cleaner | `Messaging_proofs` |
| `DelayQueue` (+ `MC`) | `sendDelay`, buffer queue, dead-letter exchange, process queue, `MyDelayMsgConsumer` | `Messaging_proofs` |
| `UserSigManager` (+ `MC`) | `getOrGenAvailable`, `generate`, `isExpired`, ticket check, `ApiBaseRequest`, `ImApiClient.execute` | `Users_proofs` |
| `OssFileOperator` (+ `MC`) | `fileUpload`, `generateStsUrl`, keys and paths | `OrdersAndFiles_proofs` |
| `ClientCall` | abstract call: one outcome, handled at most once, success only if handled | target of a refinement |
| `HttpChannelClient` | `DefApiCommonActuator`, `DefChannelClientDispatcher`, `HttpChannelClient.execute`, `getHttpClient` | `Messaging_proofs` |
| `StompFrame` | `marshall`, `unmarshall`, the pieces of `_transmit` | |
| `StompClient` (+ `MC`) | the pages, the STOMP client, its sockets and servers | `StompClient_proofs` |
| `SocketApi` | abstract web-socket: what its user may see | target of a refinement |
| `SockTransports` | features of browsers, `enabled` of every transport, the choice | |
| `SockEngine` | senders, receivers, polling, iframes of one transport | |
| `SockJS` (+ `MC`) | the socket, its timers, network and server, composed of the two above | `SockJS_proofs`, `SockJSReceived_proofs` |
| `Callbacks` | `jQuery.Callbacks` | `Ajax_proofs` |
| `Deferred` | `jQuery.Deferred`, `then`, `always`, `when`, on the stack of what runs | `Ajax_proofs` |
| `AjaxTypes` | prefilters, transports, converters chosen by data types | |
| `Ajax` (+ `MC`) | `jQuery.ajax`, its transports, `jsonp`, composed of the three above | `Ajax_proofs` |
| `ElementData` | `jQuery.cache`: `data`, `internalData`, `cleanData`'s ids | |
| `EventHandlers` | `event.add`, `remove`, `handlers`, special events | |
| `Manipulation` | `domManip`, `clone`, `cleanData`, `remove`, `wrap` | |
| `Selectors` | Sizzle's matchers, `select`, `unique`, traversing | |
| `Effects` | `queue`, `animate`, `defaultPrefilter`, `stop`, `finish`, `tick` | |
| `EventFlow` | `trigger`, `dispatch`, `simulate`, default actions | |
| `DomReady` | `ready`, `holdReady`, the document's events | |
| `Elements` (+ `MC`) | a page that uses the seven modules above | |

**MutexOptSync.** `pc` is the place in `handle`; `lock`, `remaining` (`current -
now`) and `result` are its locals; `lease` is the store. `lockCache` and
`removeCache` are abstract in the code and mean "set if absent with an expiry" and
"delete". `sync` as shipped passes stubs whose `lockCache` always answers false:
those are the calls with `stub = TRUE`. Every exception of `lockCache`,
`removeCache`, `random.nextInt` and the function is a step of its own, before or
after its effect; `Crash` skips `finally`. `owner` and `held` are history: the
store knows no owner.

**SingleNoGenerator.** One action per access to the map, the counter or the
monitor. The literal type flag is interned, so `synchronized (typeFlag)` does
exclude; `getAndIncrement` outside it does not wait.

**UserOnlineRepo.** One action per call on a concurrent map or set. The
`synchronized` block locks a fresh `String` and is therefore absent. A set object
is named by the session that created it, so a set that was replaced in
`userSessionMap` stays distinguishable from its successor. `overwritten` and
`overlapped` are history: which users' set was replaced, and which sessions'
disconnect was handled during their own `put`.

**SimpleMsgQueue.** Inside `process` a message stands at `put`, `reject` or `ack`;
an `IOException` of the channel leaves it in `limbo` until the channel closes.
The broker (external) delivers to any node with room. `GrowOld` and `Clean` are the
ten-minute test and removal of the cleaner, possible between any two steps.

**DelayQueue.** The buffer queue is a sequence whose head alone is tested
against its TTL, which is how RabbitMQ treats per-message expiration. `Tick` waits
for an expired head: the broker is assumed to keep up with its clock.

**UserSigManager.** A ticket carries app, identifier, times and whether signing
worked. The server is external and checks as `CheckTLSSignatureEx` does. Both locks
of `getOrGenAvailable` exclude nobody and its inner test repeats the outer one on
the same local, so neither is a step.

**OssFileOperator.** One action per call to the bucket and per test of the loop
of `fileUpload`; the first existence test may fail and be swallowed, the one in the
loop may not. A key is the record of what goes into it (a `subDirectory` without a
leading slash does not), an address is host, slashes and key, so that joining and
splitting them can disagree. `generateStsUrl` changes nothing and is an operator: the
key it signs for and the `int` product of its validity. `blind` and `raced` are
history: an upload whose test failed, and one whose key was stored by another
after its test.

**HttpChannelClient.** One action per step of `execute` that can fail or that other
threads can see; `FirstTest`, `Enter`, `Build` and `BuildFails` are
`getHttpClient`. A client is named by the call that made it, so a second pool would
be visible. The converters belong to channels outside the repository: they succeed
or throw. HttpClient's pool and the platform are external: `Handle` may come after
the caller's time-out. The refinement to `ClientCall` maps a call to its outcome.

**StompClient.** JavaScript runs one handler at a time, so a click, an event of a
socket and a timer are one action each with everything they call; an exception ends
the handler where it is thrown. Each press of Connect makes a client on a socket of
its own; the older ones live on. `up` is all a client ever put on its socket, `down`
what is on the way to it, `server` the other side, which accepts, beats, sends and
dies. Text is a sequence of tokens, some of them two bytes long.

**SockJS.** `tr` is the current transport as `SockEngine` has it: receiver, sender,
buffer, iframe, what was posted between the windows. A timer that is set fires at any
moment, except that those of 0 ms keep their order. The server (external) opens,
queues, writes frames, closes, forgets sessions. `left` names transports that timed out:
the code drops them without closing them. `sock.events` is what the user has seen; the
refinement to `SocketApi` maps nothing but that and `readyState`.

**Ajax, Deferred, Callbacks.** `js.stack` is the call stack: the loop of a list that is
firing, a function of the page, or the calls jQuery still has to make. A function of the
page may call anything of the scenario's menu, and return or throw. So the re-entrancy
of `fire`, the hooks (`beforeSend`, `ajaxSend`, `complete`, ...) and synchronous transports
are all interleavings of one stack. Each addition to a list has a number, so that one
function added twice is two entries, and `called` remembers which were called since the
last firing. `remove` gives at once what its loop of `splice` leaves: the entries without the
function, and each index lowered by the removed ones that were not behind it. jQuery adds
functions to a fresh list or one at a time, so `add` takes one. `AjaxTypes` are operators
on data types.

**Elements.** One page record, of which each module changes the fields its header names,
and a stack as above. The functions of jQuery keep their names as operators; a sequence
of functions that pages call is a step each. The browser's part (default actions, native
events, intervals, the document loading) is modelled in the module that deals with it.
`want` of `Selectors` is a definition of each selector and walk on the tree without any
cache. `page.oops` is history: it names what jQuery loses count of (section 5).

## 3. Runs

| Run | Instance | Shows |
|---|---|---|
| `mutex` | 2 callers, 2 keys, 7 kinds of call, lease 3, sections of at most 2 | exclusion, refinement of `MutexLock`, every call returns (the stub's too), orphans expire |
| `order_no` | 3 threads, counter up to 1, 6 calls | equal numbers a lap apart unless two threads reset one lap |
| `online` | 2 sessions of one user, 1 sender | no ghosts, loss only by replacement, no send to the dead, clean-up |
| `simple` | 2 messages of one key, 2 nodes, 1 fault | handled before acknowledged, bounded redelivery, every message acknowledged |
| `delay` | 4 messages: long, short, none, negative delay; 1 crash | never early, late only behind earlier ones, consumed in the end |
| `user_sig` | 2 threads, 2 apps, 2 identifiers, 5 instants | within the margin only an unsigned ticket or one of another app is refused |
| `oss` | 3 uploads, 2 random names a day, 2 days, 2 retries, endpoint with and without scheme | an address keeps its file unless a later upload could not see it |
| `channel` | 4 calls, 3 with a channel, pool of 1 | refinement of `ClientCall` |
| `stomp` | 2 connections, servers that beat and that do not, 1 message and 1 text each | the conversation, the timers, silence noticed in time and never mistaken, the page, the frames |
| `sockjs` | 6 places: browser, origin, server, list of transports; 2 messages each way | refinement of `SocketApi`, both orders, nothing left behind, no socket stuck |
| `ajax` | `Callbacks` with 6 sets of options; 3 promises; 2 or 3 requests on 8 pages | everyone called once in turn, one outcome for a promise, promises agree, `jQuery.active`, own answers, an end |
| `elements` | 25 pages of 2 to 12 nodes with 2 to 4 calls each out of up to 25, many more for queries | data, handlers, dispatch, queues, styles, selections, ready, an end |

**Why the bounds suffice.** Two actors are enough to race on each check-then-act;
`order_no` has three because a reset, a second reset and an innocent drawer are
needed, and six calls wrap a counter of two values twice. `mutex` needs a lease longer
than a section by one and a timeout inside it to have expiry, timeout and retry meet in
one state. `simple` allows one fault because the bound on redelivery grows per fault,
and prefetch 2 so that one node may hold both messages. `user_sig` has life 3, margin 2
and an overflow at 3, so tickets expire, are renewed and can no longer be signed
within the five instants. `oss` needs three uploads for two that race and one that
finds the loser's key taken, and two days because a key can become free by midnight;
an `int` of 8 bits and minutes of 10 ms put 12 minutes below and 13 and 26 above the
overflow. `channel` has three calls that race to build the client and one that is
refused; a pool of 1 makes a second pool or a kept connection visible. `stomp` has two
connections because the page has one variable for them, and a message of two letters,
one of them of two bytes, is cut by pieces of 7 tokens. `sockjs` takes two messages to
have an order, and the six places between them use every kind of receiver and sender:
web-socket, streams, event source, `htmlfile`, polling, `jsonp` with its form, and
iframes around them. In `ajax` two requests overlap and the third reuses the name of
one that has ended. In `elements` a node above, a node below and a third on its own are
what bubbling, delegation and moving tell apart; three calls of effects are enough for
one to run, one to wait and one to disturb them, and smaller menus are run with four. Queries run over a
tree in which every combinator has a node it takes and one it does not, and are
repeated after nodes moved.

Bounds that cut behaviour (`MaxCalls`, `MaxFaults`, `MaxCrashes`, `MaxAge`, `MaxCount`,
`MaxTime`, `MaxDay`, `MaxSends`, `MaxMessages`, `MaxSaid`, `wire` of a place, `budget`,
`throws` and `most` of a scenario) are named as such. Runs with `CHECK_DEADLOCK FALSE`
are those where the system may rest: all calls made, all messages consumed, the socket
closed, the page idle.

**Fairness.** `mutex`: time passes and a thread inside `handle` is scheduled; nobody
must call, fail or restart. `online`: started handlers finish and the container reports
a closed connection, which Spring does with `SessionDisconnectEvent`. `simple`: the
broker delivers what waits to some node, the consumer thread runs, broken channels close,
dead nodes restart; `EventuallyAcked` excuses a cleaner that goes on for ever.
`delay`: time, broker and consumer go on. `sockjs`: the timers of the page fire; nothing
is asked of the network or the server. `ajax`: what is on the stack goes on and timeouts
fire; nothing is asked of the network. `elements`: what runs goes on, functions of the
page end, the browser's timers and the loading of the document go on. There the weak
fairness is written out (`[]<>~GoesOn \/ []<><<GoesOn>>_vars`): whether jQuery has a next
step is told by the stack, so that TLC need not compute the step again. `stomp`,
`order_no`, `user_sig`, `oss` and `channel` check safety only and assume no fairness;
in `stomp` silence is noticed in time because `Tick` waits for timers that are due.

## 4. Proofs

All theorems hold for every value of the constants under the named ASSUMEs.

* **`MutexOptSync_proofs`**, with the further assumption `MaxSection < Lease`
  (a section that outlives its lease is entered by the next caller as well, see 5). The inductive invariant
  adds to the types that a caller holds the lock only between its winning and its
  `finally`, and that a held key has at least `Lease - held` left: exclusion alone is
  not inductive because it says nothing of the store. From it follow
  `MutualExclusion`, `LeaseMatchesHolder`, `NoForeignRemoval` and, step by step,
  that the handler implements `MutexLock`.
* **`Users_proofs`** holds the proofs of `UserOnlineRepo` and `UserSigManager`. For the
  first, `Ghostless` relates each session's place in `put` and
  `remove` to the sets that can hold it. Its heart is that a set not yet installed is
  empty and known to its creator only, so that replacing a set can lose sessions but never
  revive one, and that a session leaves the very set that can be found. `Found` adds
  where a session is while nothing was replaced, `Sending` what the iteration of
  `sendSingle` relies on. Proved: `NoGhost`, `RemoveFindsASet`, `LostOnlyByOverwrite`,
  `SendsOnlyToLive` and the types.
  For the second, `MapMade` and `LocalsMade` carry from `generate` to `execute` that an item
  belongs to its key, is not from the future, and either is younger than the lookup or had
  more than the margin left then; `Margin < Lifetime` is needed. Proved:
  `RefusedForTwoReasonsOnly` and the types, and `ReplacedByNewer`: a signature is
  replaced by one signed later, or by a thread that had asked before it was signed and did
  not find it. The second happens: a thread held up before its `put` lays its older
  signature over the newer one of another, and nothing else brings an older one back.
* **`Messaging_proofs`** holds the proofs of both queues and of the channel client. For `DelayQueue`, `Ordered` says that a message is as old as its time in the
  buffer, which is therefore ordered by age: the head is the oldest. When time passes the
  head is not yet due (the broker keeps up), and stands for everything behind it:
  `HeldBack`. With `Ripe` (what left the buffer is due) that is `OnTime`. That no
  message is doubled (`OnePlace`) is proved from what `Append`, `Tail` and `\o` do to the
  elements of a queue.
  For `SimpleMsgQueue`, `Safe` says that what `rejectMsgMap` remembers was
  handled under that key, that one node has one message in `process`, and that `ack`
  is reached only behind a handled key. `Paid` accounts for redelivery until the cleaner
  removes something: each delivery of a message is paid for by a node that remembers its
  key, by the last delivery on its way to the ack, or by a fault. A fault pays twice, since
  a failed call also leaves a channel that will close and spoil other deliveries
  (`Limbo`). Proved: `AckedWasHandled`, `CheckNotStale`, `BoundedRedelivery` (for a finite
  set of nodes) and the types.
  For `HttpChannelClient`, `OnlyClient` says that every local client is the
  published one, so that the connections of all calls are those of one pool; `Held` says
  between which steps a connection or the monitor is held; `Once` where the request of a
  call can be. Proved: `PoolBound`, `NothingHeld`, the types, and that
  `execute` implements `ClientCall`, one step of it per outcome.
* **`OrdersAndFiles_proofs`**. For `SingleNoGenerator`, `Kept` says that the counter once kept stays and is
  the local of whoever draws: `OneCounter`. That equal numbers are a lap apart is not
  inductive; `Laps` states for every number drawn how far back it lies if the
  counter has passed it, and how far back it will lie when the counter gets to it
  if not. A reset above `maxInteger` turns the first into the second. `ResetAlone` (the
  monitor's holder sees a counter equal to what was drawn since its `set(0)`) gives
  `SixDigits`. Proved with the types.
  For `OssFileOperator`, `Placed` says whose object may lie under a returned
  address, `Tested` that an upload about to put has seen no object unless blind or
  raced, `Ended` that objects belong to finished uploads. Proved: `AddressKept`,
  `NeverOutlives` for any width of the int, the types, and `StsUrlNamesTheFile` under the
  assumption that no endpoint ends in a slash (with one, `generateStsUrl` signs for another key).
* **`StompClient_proofs`** proves all four invariants of `stomp`, for any number of
  clients, intervals, messages and any `MaxDelay` within an interval of the server
  (`DelayAssumption`: with a slower network a live server could not be told from a dead
  one, and the code does not try). None of them is inductive. `Logged` ties the log of a
  client to the state of its socket, which is what keeps `CONNECT` first and
  `DISCONNECT` last when nobody looks at the state before sending. `Hooked` says that
  where timers or the connected flag are set, the `onclose` that takes them back is
  still installed: `TimersEnd`. `Beating` fixes what client and server agreed on, and
  that no `CONNECTED` comes before the server accepted. `InTime` is the argument of
  `NoticedInTime`: the frames on the way are ordered by age, the first is at most
  `MaxDelay` old and the next beat is due within an interval, so the silence of a live
  server is bounded by one interval and its delay; and silence plus what is left of the
  ponger never exceeds three intervals. `Followed` and `ShownOnce`, which hold while
  Connect was not pressed twice in a row, say that only the page's client lives, that
  `CONNECTED` comes once and before any subscription, and that a message is on
  its way or shown, not both. `Numbered` bounds the subscriptions by the counter.
* **`SockJS_proofs`** proves the types, `NothingLeftRunning`, `PostedInOrder` and that the socket implements
  `SocketApi`, for any places and any number of messages. A handler is a composition of
  operators on the record of the parts, so the invariant is stated of such a record and
  each operator keeps it or hands it on in a named condition. `Phase` says which calls
  (the info, the timer of a transport, `_didClose`) may still come in a ready state, and
  which events its user has seen; `Calm` that a transport nobody listens to has its
  receiver, sender and iframe ended or about to be, unless it was left behind; `Lasting`
  that nothing follows the end of an answer. None holds in the middle of a handler, where
  `UnderWay` (still open) and `Over` (its end reported) take their place. `Grows` says what
  one handler may show: no message once the socket is closing, one open event, nothing
  after the close event; that makes every step of the code one of `SocketApi` or a
  stutter. An answer is received piece by piece in a fold whose length nobody bounds: the
  induction runs over sets closed under `Take`, one piece. There is one lemma for every
  action, cited by the theorems.

  `PostedInOrder` follows from `Mailed`, which adds the way of the user's messages to that
  invariant. `Posted`: those the server has, those of the request under way, those in the
  buffer and those posted to the iframe follow each other, and none is newer than the last
  the user said. `Whole`: over a transport of the page itself the first three are 1, 2, 3
  and so on, up to the last one as long as the socket listens. After a failed request that
  is no longer so, and the transport has ended by then: that is why nothing is missing.
  Most operators send nothing, and `Sheds` is all that has to be shown of them: a
  queue of the way is left as it is or emptied, and nothing is moved, doubled or put back.
* **`SockJSReceived_proofs`** proves `ReceivedInOrder` from the invariant of `SockJS_proofs`
  and `Told`. `Line` is everything still to come to the socket as one sequence: what is
  posted to the page, then what is on the wire, unless the facade of the iframe is deaf to
  it. `Sorted`, which holds for every transport: what the user has seen, the line and the
  queue of the server follow each other, each older than the next. `Complete`, for a
  transport that loses no frames while the socket listens to it: no message of the line is
  preceded by a gap (`NoGap`), before a message there is the open frame (`OpenAhead`), and
  as long as the receiver goes on the queue joins the line (`Joined`). `Passes` restricts
  this to what will reach the socket: a second open frame ends it, and what comes
  behind is lost by right. Once the socket has stopped listening the line is worth nothing,
  and `Unbroken` says of what the user has seen all that is left to say. Three lesser parts
  complete it: `Fresh` (an iframe says `s` once, nothing runs in it
  before, and an event source that pauses has nothing left to read), `Listed` (the transports
  are tried in the order of the list, each once) and `OpenFirst` (the user's first event is no
  message unless a transport tried by then may lose frames). Every operator of a handler either takes
  the first of the line (`Taking`), adds something silent to it (`Posts`), cuts off its end
  (`Hushed`) or leaves it alone (`Quiet`); the handlers are compositions of these four, and
  the pieces of one answer run over the closed sets of `SockJS_proofs`.

* **`Ajax_proofs`** proves `EveryoneCalled`, which is `EveryoneInTurn` of the lists of `Callbacks`
  and `OneOutcome` of the promises of `Deferred`, for any number of
  promises and any scenarios within `PromisesAssumption` and `ScenariosAssumption` (promises
  are numbered, and no number stands for a request and a promise of its own).
  `EveryoneInTurn` is not inductive, for it looks at lists that are firing or remembered only, and a list
  becomes one of them long after its entries came and went. `Ordered` says of every list at any time
  that its additions have numbers of their own, that nobody is called twice, and, while it
  fires, that what is behind the loop's index has not been called; what is at or before it
  has, unless the list was emptied meanwhile. The hard step is `remove`: the entries kept
  are renumbered and the index falls by as many as went from before it, so both halves
  of `Ordered` are facts about counting (`UptoNext`, `NthThere` and the lemmas around them, on which the proofs
  about `Without` and `Down` rest). `Looping` says that each loop on the
  stack is that of a list that is firing, one for each list: without it two loops could
  move one index. `Typed` says that stack and lists hold only functions of jQuery
  and of the page that name promises already made, so that whatever is called next finds its
  list. Together these are `Firm`. The proof covers every call the page may make, also after an
  exception, which `EveryoneInTurn` no longer excuses.

  `OneOutcome` needs `Steady`. `Outcome` describes a list that `jQuery.Deferred` made: its
  first three entries settle the promise, disable the other outcome and lock the progress; what
  the page adds comes behind them (`Late`), in order. Before the firing nobody was
  called, during it exactly those up to the loop's index, after it everybody and the list
  is empty. `Settling` relates it to the rest: a list that is firing has its loop on the stack
  or was left by an exception, a settled state means that its list was fired, and only one of the two was.
  The last is the hard part. Between `fireWith` and the second turn of the loop the other
  list is still on, and a call of `reject` there would settle the promise twice. Only
  jQuery's own two functions run in this window, with nothing above the
  loop on the stack; so `Loose`, which holds always, allows the window to the innermost loop, and
  `Calm` allows it to none. Whenever the page, the network or a function of jQuery
  has its turn the scripts are calm, and a call leaves them at worst loose. `Jobs`
  closes a gap of this argument: `ajax` may stop in the middle of its calls, by taking
  what is left of them off the stack, which must not uncover a loop in its window.

  `Inv` (`ScriptsFit`) is all of this with `Requested`: nothing of a request runs before its
  promise is made. Each of the operators of
  `Deferred` and `Ajax` keeps it or hands it on loose: one lemma per operator, since an action is a
  composition of them.

The type invariants, `CheckNotStale`, `RemoveFindsASet`, `LeaseMatchesHolder`,
`NoForeignRemoval`, `ReplacedByNewer`, `SixDigits`, `PoolBound`, `NothingHeld`,
`StsUrlNamesTheFile`, `NeverOutlives` and `OnePlace` are proved and not in a run.

Only model-checked: that a frame cut into pieces arrives whole (`FramesSurvive` of `stomp`:
the pieces are told apart by recursion over the text); of `ajax`, what promises and requests do to
one another (`PromisesAgree`, `ActiveCounts`, `OwnAnswer`), which needs to know what each call
on the stack still owes to which promise; the modules of `Elements`, which walk the document
by recursive operators the prover has no backend for; and all liveness properties (the prover does not treat fairness and ENABLED). The functions on text and
lists (`StompFrame`, `AjaxTypes`, `Selectors`) are checked over bounded inputs; induction
over data is out of the prover's reach.

## 5. What the models show of the code

Each of these is either an exception that a property names and excuses, so that TLC shows
there is no other way, or a limit the properties respect.

**Server side**

* A section longer than the ten-minute lease runs beside the next holder's: nothing
  renews the key, and `mutex` fails its exclusion as soon as `MaxSection` reaches `Lease`.
* Two first subscriptions of a user can lose the first session (`LostOnlyByOverwrite`);
  a disconnect handled during the session's own `put` leaves it online for ever (the
  exception of `NoGhost`).
* A rejected message need not reach another node: `basicReject` with requeue leaves the
  choice to the broker, and the consumer that remembers the key acknowledges it.
* Two messages of one title and content share a key: the second is acknowledged without
  being handled itself (`AckedWasHandled` promises handling per key).
* Delays in one buffer queue are exact only if they do not shrink: a short one waits
  behind a longer one sent earlier (what `OnTime` allows).
* A signature that failed, or belongs to another app, is cached and handed out (the two
  reasons of `RefusedForTwoReasonsOnly`).
* With an endpoint ending in a slash `generateStsUrl` does not find the key in the
  address `fileUpload` returned (the assumption of `StsUrlNamesTheFile`).
* Two uploads that draw one name at the same time, or one whose first test failed,
  replace a file already handed out (the exceptions of `AddressKept`).
* Two threads that wrap the order counter together repeat numbers (the exception of
  `EqualOnlyALapApart`).

**STOMP and pages**

* Connect pressed again while an attempt is pending: the callback of the first client
  subscribes with the second, so a message is shown twice and a connection stays open that
  no button closes (app.js 15-34; the exception `overlapped` of `PageFollowsClient`).
* `content-length` counts bytes and `unmarshallSingle` cuts characters (stomp.js 76). It
  does no harm, because the text of a frame ends before the next one begins.

**SockJS**

* A transport that times out is dropped and never closed (sockjs.js 831, 891; `left`), and
  the timer of a transport that failed by itself is not cleared: it strikes the next one (815).
* An XHR that is aborted before its `setTimeout` of 0 ms has nothing to abort yet: buffered
  messages are still posted after `close` (1502, 1639, 2055). A sender that fails leaves
  the polling running (2036). Both are the exceptions of `NothingLeftRunning`.
* An event source or `htmlfile` that reconnects can lose frames, also the opening one, so
  that a message comes before the open event; a failed post inside an iframe or behind the
  form of `jsonp` leaves a gap (exceptions of `ReceivedInOrder`, `PostedInOrder`).
* `iframe-wrap` calls `enabled` of the inner transport without the place (2085), so that the
  flags for cookies and null origins do not count there.

**Callbacks and ajax**

* Two aborts let `done` run a second time, although its comment says "Called once" (9228).
  In a handler of `ajaxSend` the abort leaves `transport` undefined, and the `TypeError`
  of `send` is caught as one of the transport (9200-9221). In a handler of `ajaxStart` it
  is only looked at if the request has a `beforeSend` (9176): without one the request
  gets its transport and is sent, and its answer, or its timeout, ends it again. Either way
  `send` sets `state` back to 1 (history: `twice`), and `jQuery.active`, the "Counter for
  holding the number of active queries" (8858), is one too low from then on, so that
  `ajaxStart` and `ajaxStop` are left out or come while others are on their way.
  `ActiveCounts` states by how much, and that nothing else does this.
* An exception in a handler leaves `jQuery.active` wrong and the list firing for ever
  (`broken`, `threw`).
* `empty` while a list is firing skips functions added in the same firing, and gives a
  disabled list its array back (3177).
* Overlapping `jsonp` requests with one fixed name mix their answers (9902-9924); the script
  of an aborted request still runs; a script without a timeout never ends on failure,
  because nothing listens to its error (9801-9839).

**Elements** (each sets a flag of `page.oops` or an exception named in the property)

* `stop` and `finish` walk `jQuery.timers` by index while the functions they call change it:
  a timer of another element can be dropped or an undefined one used (7543-7548, 7582-7587:
  `lost`, `threw`); called within `tick`, indices shift and an ended timer stays (`stuck`, `again`);
  `fx.timer` takes back the last timer although it may be another's (7652).
* `stop` inside a `complete` function dequeues twice, so that two functions run at once;
  `stop` steps over a function that still owes its `next`; `clearQueue` and `stop(true)` resolve
  the promise of a running animation and let two run (`dequeued`, `cleared`, `both`, `amid`,
  `stepped`); an empty animation dequeues while another one runs (`empty`).
* `finish` during a `delay` never resolves the promise (`finished`); `remove` during an animation
  loses it (`removed`).
* `clone(true)` copies the references to queue and hooks (5365-5371: `shared`), and
  `show` and `hide` that overlap share their saved state, so that `stop` leaves a size of zero.
* `data` with an object and a dashed key hides later writes of that key (3664-3751;
  `dashed`). `off` of all click handlers takes off jQuery's own for submit in old browsers
  (`unwatched`). A function bound with `one` runs twice when it triggers its own event (`twice`).
* Releasing the ready event more often than it was held fires it before the document
  (`over`).
* A clone in an old browser shares Sizzle's cache with its source (2100-2151; `holder`).

## 6. Not modelled

* **Java**: DTOs, framework configuration, enum handler, packaging; stateless helpers
  (`TipAssert`, `LocationUtils`, `ThumbnailUtil`, `Base64UrlUtils`); the scheduler's log line;
  customers and labels, whose behaviour is SQL and floating-point distance; the label
  counter, whose value nothing reads; the fanout exchange, where the broker copies and the
  consumer prints; `registerApiConfig` during a call; the text of IM requests; operations
  nothing calls (`remove(Long)`, `readConfirm`, `userSigAnalyze`, unused repository methods).
* **STOMP**: transactions and explicit acknowledgement, the node.js export.
* **SockJS**: waiting for the body, unload callbacks, the values of the timeouts, the wire
  format as text, the bundled polyfills and parsers.
* **jQuery**: the core's array helpers, HTML text to nodes, attributes, classes, form values,
  CSS and offsets, easing and units, the IE change event, URLs and headers of ajax, `load`,
  `progress` of uploads; of Sizzle the tokenizer, `querySelectorAll`, positional selectors
  with `setMatcher`, attribute and language pseudo-classes, `multipleContexts`. They are
  conversions of text or pure queries of the browser, not state that steps share.

What would add most next: `PromisesAgree` on top of the invariant of
`Ajax_proofs`, with the calls that the stack still owes to a promise as a part of it.
