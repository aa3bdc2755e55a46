# far-edge-kubelet in TLA+

far-edge-kubelet is a Virtual Kubelet provider: it registers a node with Kubernetes and turns the containers of the pods
scheduled there into *embServe packages* that an MQTT gateway (NextGenGW) installs on a far-edge device over LwM2M.
These modules model the parts of it that have state and a protocol, check them with TLC, and prove the core with TLAPS.
Line numbers in comments and below refer to the sources under `src/`.

## 1. The system

| Component (source) | State | Operations | Works with |
|---|---|---|---|
| Provider (`providers/fhpAicos/fhpAicos.go`, `utils.go`) | `p.pods` (key "namespace-name" -> pod and its packages), `p.mutex`, the notifier | `CreatePod`, `UpdatePod`, `DeletePod`, `GetPod(s)`, `GetPodStatus`, `GetMetricsResource`, `GetStatsSummary`, `PortForward` | called by Virtual Kubelet's pod workers and by HTTP handlers; calls nextgengw or leshan, the registry, the API server |
| nextgengw (`providers/fhpAicos/protocol/nextgengw/nextgengw.go`) | `InstanceInUse` (ids, in memory), the global channel `ch`, an MQTT client per session | `DeployPackage` = create, add, install, activate (and `RemovePackage` when one of them fails); `RemovePackage`; queries for statistics and node data | called by the provider under its mutex; talks MQTT to the gateway, and through it to the device |
| leshan (`.../leshan/leshan.go`) | none of its own, an HTTP client | the same operations over HTTP | called by the provider instead of nextgengw |
| Registry (`.../registry/registry.go`) | files in a cache directory | `FetchPackage` | called by `CreatePod` |
| Work queue (`internal/queue/queue.go`) | items by start time, items in progress, a semaphore, a wake-up channel | `Enqueue`, `EnqueueWithoutRateLimit(WithDelay)`, `Forget`, `Run` and its workers | a copy of Virtual Kubelet's queue |
| Monitor variable (`internal/lock/monitor.go`) | value, version, the channel that announces the next one | `Set`, `Subscribe`, `NewValueReady`, `Value` | - |
| Port forwarding (`internal/kubernetes/portforward`) | stream pairs by request id, each with a monitor and a time limit | `ServePortForward`, stream handlers | the API server's connection, `Provider.PortForward` |
| Remote command (`internal/kubernetes/remotecommand`) | the streams of a connection and their goroutines | `createStreams`, `waitForStreams`, exec and attach, `writeStatus` | the API server's connection, the provider's `RunInContainer`, which does nothing |
| Pod environment (`internal/podutils`), expansion (`internal/expansion`) | the environment being made | `PopulateEnvironmentVariables`, `Expand` | the resource manager; called by tests only at this commit |
| Resource manager (`internal/manager`) | none, the informers' listers | look-ups | the pod environment |
| Command line, node configuration | flags, the node's description | start-up | everything |

What is hard in it, and what makes each part correct:

* **Provider.** Several workers, the scraper and the HTTP handlers share `p.pods` and a library that is not thread safe.
  Look-ups precede the lock, `UpdatePod` takes none, and a pod of several containers is deployed one package at a time
  with a roll-back by hand. Correct: the pods in the map are what the device runs; the library has one user at a time; a
  failed `CreatePod` leaves nothing behind and removes nothing that belongs to another pod; the mutex is released, but
  for a panic in a scrape and an adapter that never becomes available; what the notifier was told is so.
* **nextgengw.** Ids come from a list that must stay in order (the next id is one above its last, removal is a binary
  search). A request that was given up after its time limit is still on its way and is carried out later, perhaps in the
  middle of the next call on the same instance. A crash empties the list while the device goes on. Correct: ids ascend;
  a deployment that returns no error is active and cannot be undone by something older.
* **Request and response.** All requests share one unbuffered channel; an answer that comes too late stays in the client
  until a later request takes it. Correct: no request takes another's answer for its own, every request returns.
* **Work queue, monitor variable.** Correct: nothing asked for is lost and no wake-up is missed, in any interleaving.
* **Port forwarding.** A time limit races the stream that would complete a pair. Correct: each pair is served once or
  reported once, and removed.
* **Remote command.** Each stream comes in a goroutine of its own and its reply in another; replies are counted, not
  types, against a time limit. Correct: the context that is returned is complete, replies precede the close, nobody is
  left waiting.
* **Leshan and the registry.** Ids are chosen from a list of instances that lags, each request of a deployment
  can be refused or lose its answer, and a file that exists counts as a complete package, even after an interrupted
  download. Correct: no clean-up removes another package's instance; what fails half way is undone; what is retried gets
  deployed.
* **Pod environment.** A container's variables come from references, entries, fields and services, looked up one after
  the other in caches that change meanwhile. Correct: each name has the value of the source that takes precedence.

`PROJECT.json` lists every hazard at its line, with the properties that cover it or the reason why none does.

## 2. The modules

| Module | Models | Relation |
|---|---|---|
| `PackageService` | what the provider may rely on: a `DeployPackage` or `RemovePackage` in progress, the ids in use, the image active in each instance of the device, the instances *in doubt* | abstract specification |
| `NextGenGw` | `DeployPackage` and `RemovePackage`, one action per MQTT request | implements `PackageService` (`KeepsPromise`) |
| `NextGenGwProofs` | the theorems about `NextGenGw` | extends it |
| `MqttRequests` | one request and its answer: subscribe, publish, wait, unsubscribe, `MessageHandler`, the client | stands below the single requests of `NextGenGw` |
| `Provider` | `CreatePod` with the adapter's deployment, `UpdatePod`, `DeletePod`, `GetPod`, the lock of `GetMetricsResource` | extends `PackageService` and calls its actions |
| `ProviderProofs` | the theorems about `Provider`: the mutex; the map and the notifier; the device; what is left behind | extends it |
| `MqttProofs` | the theorems about `MqttRequests` | extends it |
| `Leshan` | `CreatePod` and `DeletePod` in LwM2M mode with `leshan.DeployPackage`, `RemovePackage` and `registry.FetchPackage` | on its own |
| `LeshanProofs` | the theorems about `Leshan`: types, what counts, what is left behind | extends it |
| `WorkQueue` | `internal/queue` | on its own |
| `MonitorVariable` | `internal/lock` | on its own |
| `QueueAndMonitorProofs` | the theorems about these two, which share nothing | extends both |
| `PortForwardStreams`, `PortForwardProofs` | `internal/kubernetes/portforward/httpstream.go`, and theorems about it | on its own |
| `RemoteCommand`, `RemoteCommandProofs` | `internal/kubernetes/remotecommand`, and theorems about it | on its own |
| `Expansion` | `internal/expansion`, functions over texts | used by `PodEnvironment` |
| `PodEnvironment` | `internal/podutils`, over the caches of `internal/manager` | extends `Expansion` |
| `PodEnvironmentProofs` | the theorems about `Expansion` and `PodEnvironment` | extends them |
| `MC...` | the constants' values for TLC | extend the module of the same name |

The main chain is `Provider` over `PackageService`, which `NextGenGw` implements, whose requests behave as
`MqttRequests` shows. Definitions named *mutant* are not part of any specification: each is a plausible bug that must
break the property `PROJECT.json` names beside it.

### NextGenGw

`InstanceInUse` is the slice of that name. `instance[i]` is instance `i` of LWM2M_Software_Management at the device,
with the stage it has reached (absent, created, added, installed, active) and its image. `call` is the call in progress,
with the request it is about to make as `pc`; there is one at most since the provider holds its mutex around every call
(`LibraryExclusive` in `Provider` checks that it does). A request is *answered* with the code that the function asks
for, or it *fails* - whichever way it failed, it either has no effect or is still in `pipe` and may be carried out
later. The gateway hands requests on in order, so an answer means that `pipe` is empty. `DeviceStep` carries out, or
refuses, the first request of `pipe`. `Crash` is the death of the kubelet: `InstanceInUse` and the call are gone,
`instance` and `pipe` are not. `Search` is `sort.Search` with any index its binary search could end at when the slice is
not sorted.

### PackageService

An instance is *in doubt* while a request that nobody waits for may still change it; the instances of a running call
are, too. `Drift` changes an instance in doubt at will, so the abstract promise for failures is weak; what is strong is
that an instance that is not in doubt never changes by itself, and that a call that returns `ok` has cleared all doubt.
In `NextGenGw` the mapping is: `doubtBar` is the instances in `pipe` and that of the running call, `deviceBar` the
images of active instances, `inUseBar` is `InstanceInUse` without an id that the running `DeployPackage` has appended.

### MqttRequests

`conn` holds the packets from broker to client in order; `reader` is the client's goroutine that reads them, `handler`
the one in `MessageHandler`, blocked on `ch <- message` until a request receives from `ch`. Functions differ in whether
they unsubscribe after an answer (`Tidy`). `late` counts what can leave a message nobody waits for.

### Provider

`pods` is `p.pods`, `mutex` is `p.mutex`, `task[w]` is what the worker `w` executes with its local variables (packages
deployed so far, or left to remove). `want` is what Kubernetes wants (a revision, or 0 when the pod is to go), `told`
what the notifier was told last: Running by `CreatePod`, Succeeded by `DeletePod`, and by `UpdatePod` whatever phase the
pod has that Virtual Kubelet gives it, which is the API server's (`Reports`). Virtual Kubelet is external: it never
gives one pod to two workers, asks `GetPod` first and creates, updates or deletes. Calls of nextgengw are the actions of
`PackageService`, a call and its return being two steps between which other workers, the scraper and a crash come. A pod
that asks for a communication adapter goes through `adapter`, `watch` and `list` with the mutex held: a deployment that
exists and has pods is used as it is, otherwise it is watched until it is available or the server ends the watch, and
then the first pod of the list is taken. The panic on an empty list (`fhpAicos.go:423`) is a `Crash`, as it ends the
process. A panic in `GetPackageStats` or `GetNodeStats`, which take the answer's JSON apart with unchecked type
assertions (`nextgengw.go:858-869`, `985-996`), does not: net/http recovers it, and since no `Unlock` is deferred the
mutex stays taken (`ScrapePanics`).

Two handlers never meet at one key in `provider` and `provider_faults`, for Virtual Kubelet gives a pod to one worker at
a time and keys differ there. So neither exercises what `UpdatePod` without the lock or `DeletePod` with its early look-up
could do to another handler's entry; only pods that share a key, as in `provider_same_key`, can.

### Leshan

`op` is the handler that holds the mutex, with the step it is at. Each HTTP request is one action: the server carries it
out, refuses it (the instance is not in the state the request needs), or the answer is lost and nobody knows which
(`Request`). `device` is what the device has, `listed` what the server lists, which catches up in `Refresh`.
`DeployPackage` returns an id with some errors and none with others; `Failed` sends `CreatePod` to `cleanup` or straight
to `remove` accordingly. After the last container of a pod that asks for one comes the adapter, in a single step that
succeeds, fails or never comes (`Adapter`); its own steps are those of `Provider`. `file` is what the registry's cache
has of each image: nothing, a part or all of it. `lost` is history only: the instances there were when the kubelet last
crashed, which it no longer knows of. The code's ids have no upper limit; `MaxId` is a bound, and `GetInstances` waits
when every id up to it is listed.

### WorkQueue

`items` is the list in order of start time, `processing` the map of items in progress, `worker` where each worker is in
`getNextItem` and `handleQueueItemObject`. What the code does under `q.lock` is one step; the semaphore is the rule that
one worker at most is between `check` and `wait`. Time is a counter of ticks and `Delays` and `Backoffs` are its
distances.

What a caller last asked for a key is kept in `last`, which no action of the code reads.

### MonitorVariable

A channel is a number and `close` puts it in `closed`. Readers fetch the channel, may read the value before they wait,
wait, and read. `MonitorInit`, `MonitorNext` and the like bear the module's name because `QueueAndMonitorProofs` extends
it beside `WorkQueue`.

### PortForwardStreams

`opened` is what the client opened, in order, which gives a stream its identifier; `received` and `streamChan` are sets,
as each stream comes in a goroutine of its own. `loop` is the stream that `run` has taken with the pair it looked up,
`pairs` are all pairs ever made with the progress of their monitors, `streamPairs` is the map from request ids. Looking
up a pair and adding to it are two steps, between which the pair may time out and leave the map; so are the monitor's
decision and the removal. `completions` counts how often `p.complete` is closed and `portForward` started.

### RemoteCommand

`form` is what the request asks for, `protocol` what the handshake agreed on. `streams` are the streams the client
opened, each with its reply and the goroutine that waits for it: `unread` until `waitForStreams` takes the stream, in
the `select` of `waitStreamReply`, about to `notify`, `done`. `ctx` is the context, with the stream used for each type.
The protocol handlers are records of what they differ in. Over a WebSocket all channels are there at once and none is
waited for. `resize` is the goroutine of `handleResizeEvents`.

### Expansion and PodEnvironment

Texts are sequences over `Chars`, of which one may stand for a word that nothing takes apart (`SERVICE`); a variable's
name is such a text, so that `$(A)` in a value can name it. `Expand` is a recursive function over positions,
`tryReadVariableName` as in the code with its three results. In `PodEnvironment` each look-up of a config map or secret
(`EnvFrom`, `Env`) and the list of services (`getServiceEnvVarMap`) is an action of its own, and the caches may change
between any two. `res` is the map the code fills, `seen` what each look-up saw, for the reference definition `Own`,
which says who gives each name its value without an order of writing.

## 3. The runs

| Run | Bounds | What it shows |
|---|---|---|
| `nextgengw` | 2 images, ids 0..2, 2 requests under way | `Ascending`, `DeployedIsActive`, its inductive invariant `CallInv`, and the refinement `KeepsPromise`, with all failures and crashes |
| `provider` | 2 pods (one of two containers and an adapter, one of two revisions; they share an image), 2 workers, 1 scraper, 1 failed call, panic or crash | the pods in the map are what the device runs (`OwnedActive`, `OwnedOnce`, `NoOrphans`), `LibraryExclusive`, `ToldIsTrue` |
| `provider_faults` | 2 pods of one container each, of 2 images, one with an adapter, ids 0..1, 2 workers, 1 scraper, 1 failed call, panic or crash, fairness | `DeletedPodsGo`, `MutexReleased` |
| `leshan` | 2 pods of one and two containers that share an image, the second with an adapter, ids 1000..1008, 1 fault, fairness | `CountedIsActive`, `OneStrayPerFault`, `RetriedIsDeployed` |
| `mqtt_requests` | 3 requests, 2 repeated answers, fairness | `OkWasExecuted`, `RequestsReturn`; `OneLateIsHarmless` and `WedgedForGood` say when the client fills up, and that it then stays so |
| `work_queue` | 2 keys, 2 workers, delays of 0 and 2, back-off 1, 2 attempts, time up to 4, fairness | `Ordered`, `OneAtATime`, `LastWishWins`, `LooksInTime`, `EnqueuedIsHandled`, `RunReturns` |
| `monitor` | 2 readers, 3 calls of `Set`, fairness | `ClosedIffNews`, `NothingMissed`, `LastValueIsRead` |
| `port_forward` | 2 forwards; a client with distinct, with equal or without request ids; fairness | `RemovesItsOwn`, `PairsMatch`, `CompleteOnce`, `PairsGo` |
| `remote_command` | 4 forms, every protocol, 3 streams of any type, 1 resizing | `ContextIsComplete`, `RepliesBeforeClose`, `NobodyLeftBehind` |
| `pod_environment` | every text of 4 characters; 2 references and 2 entries in any order, 6 services, 3 caches and 1 change | `EnvironmentIsReference`, `ReferencesAreReplaced` |
| `provider_same_image` | as `provider`, one image twice in a pod | **violation** of `OwnedOnce`, see section 6 |
| `provider_same_key` | as `provider`, two pods with one key | **violation** of `GetPodByName`, see section 6 |

Why these bounds are enough to be of interest: two requests under way are a late create or delete behind another, the
least with which a given-up request can follow another on the same instance; three ids allow a gap in `InstanceInUse`
that is not at its end. Two pods and two workers give every overlap of two handlers on different pods, and a third
goroutine (the scraper) contends for the mutex; a pod with two containers is the least that has something to roll back. In
`provider_faults` the second worker competes for the mutex with the first and the scraper, whichever of them keeps it.
In `mqtt_requests` the client holds two messages, one in each goroutine, and three requests are the least with which
both can be left over by earlier ones. In the queue a second key makes order matter, a second worker makes the semaphore
matter, and a time of 4 leaves room for a delayed, retried and redirtied run. In `port_forward` two forwards of one id
let a pair be made, removed and made again while a monitor of the first is about to remove it. In `leshan` one fault at
any request is enough to leave an instance the list does not show; nine ids are more than the run can use up. In
`remote_command` three streams are what a client with the fullest form but one opens, or two and one that repeats a type
or has an unknown one. Four characters are the shortest text with a reference of one letter, and all shorter ways to
fail to be one. `CHECK_DEADLOCK FALSE` is said where the system really stops: `mqtt_requests` when all requests are
made, `work_queue` after cancellation, `port_forward` when all streams are dealt with, `remote_command` when the request
was served, `pod_environment` when the environment was returned. `SYMMETRY` (of workers) is used in the runs of
`Provider` that check no liveness.

## 4. Fairness

* `provider_faults`: goroutines run (WF of each worker's steps and of the scraper's unlock); each call of nextgengw
  returns (WF of `Answer \/ NoAnswer`), since each of its requests waits for `TIMEOUT` at most, which `RequestsReturn`
  checks in `mqtt_requests`; Go's mutex hands itself to a waiter after a millisecond of starvation, hence SF of taking
  it; Virtual Kubelet's queue comes back to a key that is out of step, hence SF of `Sync`. Single calls of the API
  server are taken to return. That the watch for the communication adapter ends is *not* assumed, for nothing limits it
  (`fhpAicos.go:407`), and nothing follows a panic in a scrape: the two places are named in `Holds`. `MutexReleased` says
  that whoever takes the mutex releases it or ends up in one of them, `DeletedPodsGo` that a deleted pod goes unless a
  goroutine stays in one of them for good.
* `mqtt_requests`: only the time limits are fair - those of the client (subscribe, publish, unsubscribe) and of the
  `select`. No answer need ever come.
* `work_queue`: time passes, `Run` is called, workers run, handlers return. Nothing is assumed of callers.
* `port_forward`: the time limit of every pair is reached and its monitor runs. The client need not open anything.
* `monitor`: readers run. Nothing is assumed of `Set`.
* `leshan`: the handler that runs goes on (WF of `Step`), the device's registration update reaches the server (WF of
  `Refresh`), and Virtual Kubelet comes back to a pod whose `CreatePod` or `DeletePod` is due (SF of each). That a
  request returns is the server's doing, which gives up on a device that does not answer: the HTTP client has no time
  limit of its own (`leshan.go:112`, `183`, `257`), and the mutex is held meanwhile.

## 5. What is proved

`NextGenGwProofs`, for any set of images, any `MaxId` and `MaxPipe`, from `NextGenGwAssumption` (the bounds are
naturals, `None` is no image) and `NoneIsNoCall` (`None` is no record of a call):

* `TypeCorrect`, `AlwaysAscending`, `CallsAdvance`, `DeploymentsAreActive`: `TypeOK`, `Ascending`, `CallInv`,
  `DeployedIsActive` are invariants. None of the last three is inductive alone. Whether an append keeps the order
  depends on the id that the running call picked before its first request was answered; whether the binary search finds
  an id depends on the order; what a success means depends on how far each earlier answer brought the instance.
  `CallInv` says all that for each stage of a call: the id is above those in use until it is the last of them, the
  instance has reached exactly the stage of the last answer, and `pipe` is empty since that answer. `TypeOK /\ Ascending
  /\ CallInv` is inductive, and TLC checks it in `nextgengw`.
* `PromiseIsKept`: `Spec => PS!PSSpec`. Every step of `NextGenGw` is a step of `PackageService` under the mapping of
  section 2, or leaves it unchanged. So what is checked of `Provider` over `PackageService` does not depend on how
  nextgengw does it.

The lemmas are about sequences (what `Append`, `Tail` and `RemoveAt` do to the range and the order, that the last of an
ascending sequence is its greatest, where a search in an ascending one must end), then one lemma per action.

`ProviderProofs`, for any pods, containers, workers, scrapers and number of faults, from `ProviderAssumption`,
`PackageServiceAssumption` and that `None` is no record (`NoneIsNoTask`, `NoneIsNoCall`): `TypeCorrect` and
`OneInsideTheLibrary` (`LibraryExclusive`). The inductive invariant `BaseInv` says which stages each handler goes
through, that whoever has taken the mutex and not released it holds it (`Took`), a scraper that panicked included, that
Virtual Kubelet's workers have different pods, and that the call in progress is that of the task that waits for it, for
the image or the package it is at. `PanicKeepsMutex` says what follows from it after a panic: the mutex is lost for as
long as the process lives, and every handler is before its lock.

The map: `GetPodIsByName` (`GetPodByName`), under `KeysDiffer` (no two pods have one key), and `NotifierIsRight`
(`ToldIsTrue`), under `KeysDiffer` and `SameNumber` (the revisions of a pod have equally many containers, as Kubernetes
requires). `HandlerInv` adds that a `CreatePod` finds no entry all along although `GetPod` looked before the lock, and
that `UpdatePod`, which takes no lock, writes back the packages that are there. `ToldInv` counts the packages of a
`CreatePod` and of every entry in the map, which is what makes a report of `UpdatePod` true: it has no count of its own,
it writes back the packages it read.

The device: `OwnedRuns` (`OwnedActive`) and `NeverDeployedTwice` (`OwnedOnce`), under `KeysDiffer` and `ImagesDiffer`
(the containers of a pod have different images). `OwnedInv` divides what the kubelet counts on into packages kept for
the pods in the map and packages built by the `CreatePod` that holds the mutex, and says that all are good, that they
are apart from each other in id and image, that what a roll-back or a `DeletePod` removes is none of them, and that the
call in progress is about none of them - which is what a deletion, a late effect or the next id could break. The two
violation runs show that `KeysDiffer` and `ImagesDiffer` are needed and that the code ensures neither.

What is left behind: `NothingLeftBehind` (`NoOrphans`), under `KeysDiffer` alone. The property speaks of the moments at
which the mutex is free; `OrphanInv` says of every moment, as long as no call failed, that each instance the device runs
is accounted for: it is a package of a pod in the map, one that the handler with the mutex has deployed or has still to
remove (`HeldPackages`), or that of the call in progress. Every step must hand an instance on: from the call to the
handler, from the handler to the map, from the map to `DeletePod`. A handler that ends has nothing in its hands.

`LeshanProofs`, for any pods, containers, ids and number of faults, from `LeshanAssumption` and `NoneIsNoHandler`:
`TypeCorrect`, `CountedActive` (`CountedIsActive`) and `LeftBehind` (`OneStrayPerFault`). `CountedInv` speaks of the
packages kept for the pods in the map (`KeptPackages`) and of those the running `CreatePod` has built: all are active
and have instances of their own, what a handler removes is nobody else's (`HeldApart`), and neither is the instance
`CreatePod` works on or cleans up (`MadeApart`). No part says that the id was free when it was chosen, for it need not
be: the list lags. What makes the rest inductive is that an id is returned with an error only after the device accepted
the creation, which an existing instance refuses. `StrayInv` counts, in every state, the instances that neither a pod
nor the running handler will remove one day: they are at most as many as the failures. The smallest free id exists
(`MinIs`) by the well-foundedness of the subset ordering, applied to the initial segments of the naturals.

`MqttProofs`, for any number of requests and repeated answers: `AnswersProve` (`OkWasExecuted`), `FullForGood`
(`WedgedForGood`) and `OneLateFits` (`OneLateIsHarmless`). Every message in the connection, the reader or the handler is
an answer to an executed request (`AnswersAreTrue`), and a request under way has a topic of its own (`Started`). For the
last, the messages on their way that no request waits for are counted against `late` (`StaleInv`): each is one that an
expired wait or a repeated answer has left, so with one of them the client is never full.

`QueueAndMonitorProofs` is about two modules. `WorkQueue`, for any keys, workers, delays, back-offs, retries and time:
`TypeCorrect`, `StaysInOrder` (`Ordered`), `NeverTwiceAtOnce` (`OneAtATime`), `WishesHold` (`LastWishWins`),
`NoWakeUpLost` (`LooksInTime`). `LooksInTime` is not inductive alone: that the worker which goes to sleep has just
looked at the first item rests on there being one such worker (`OneLooks`, the semaphore): it takes the one token of the
wake-up channel, which another could be waiting for. `HasKey` says that a worker in the handler has a key to requeue.
The order of the list rests on lemmas about inserting into, removing from and moving within a sorted sequence.

`MonitorVariable`, for any readers and any number of calls of `Set`, from `MonitorAssumption`: `MonitorTypeCorrect`,
`ClosedMeansNews` (`ClosedIffNews`) and `NoValueMissed` (`NothingMissed`). The inductive invariant adds that a
subscription's channel and the one a reader waits on are the variable's present channel or a closed one, and that no
closed channel is closed again.

`PortForwardProofs`, for any number of forwards and any request ids: `MonitorsRemoveTheirOwn` (`RemovesItsOwn`),
`CompletedOnce` (`CompleteOnce`), `PairsAreOfOneForward` (`PairsMatch`). The invariant ties streams to what was opened
(`OpenInv`), pairs to streams of their own request id and to a count of completions (`PairInv`), and the map and the
loop to pairs by id (`IdInv`).

`RemoteCommandProofs`, for any set of forms and number of streams, from `RemoteCommandAssumption`: `TypeCorrect`,
`ContextComplete` (`ContextIsComplete`), `RepliesAreOut` (`RepliesBeforeClose`) and `NobodyWaits` (`NobodyLeftBehind`).
`waitForStreams` counts replies, and the properties are about types. The invariant relates the two: the replies counted
are those of distinct streams taken, each of a type of its own when the client keeps to the protocol, so that as many
replies as types expected are a reply of each type (`Counted`), by a cardinality argument.

`PodEnvironmentProofs`, for any pods, services, caches and number of changes, from `TextAssumption` (which characters
there are; a reference's closer is in no name of a variable), `PodAssumption` and `ServiceAssumption` (what pods, caches
and services are made of; a service has a port):

* `EveryReference` (`ReferencesAreReplaced`), by way of `ReferenceReplaced`, which says it of texts of any length and of
  any variables. `Expand` is a recursive function over positions. That it has a value at each is shown from the last
  position back (`FromExists`), that the value depends only on what follows by going back in two texts at once
  (`SuffixSame`), so that `Expand` takes a text apart: an escaped operator, any other character, a reference up to its
  first closer (`ExpandOperators`, `ExpandOther`, `ExpandReference`). `EscapeIs` puts escaped characters together.
* `EveryEnvironment` (`EnvironmentIsReference`). The reference definition `Own` says for each name which source wins; the
  code writes into one map, in order. `ProgressInv` relates the two in the middle of a container: after the references,
  `res` is what these give in order of writing (`RefsAfter`), and after `k` entries it is the `k`-th value of the chain
  that each entry extends (`Chain`), which is the function that `Own` is defined by. It speaks of what each look-up has
  *seen*, which a change of the caches leaves alone; `PodInv` says how far the look-ups are, and that environments are
  texts under names, which `Expand` needs.

The provers cannot instantiate the library's induction theorems, which take an operator. `InductionOnNat` takes a *set*
of naturals instead: the numbers of which the statement holds. It follows from the smallest element of a set of naturals
(`LeastNatural`), and that from well-foundedness of the subset ordering.

Only model-checked: all liveness (`DeletedPodsGo`, `MutexReleased`, `RetriedIsDeployed`, `RequestsReturn`,
`EnqueuedIsHandled`, `RunReturns`, `LastValueIsRead`, `PairsGo`), which needs fairness. Every invariant that a passing
run checks is a theorem. The hypotheses `KeysDiffer`, `SameNumber` and `ImagesDiffer` hold
of the constants of `provider`, where TLC checks the same properties.

## 6. Findings

* `provider_same_image`: `CreatePod` checks a container's image against the packages of the pods in the map
  (`fhpAicos.go:459`), where the pod being created is not yet. A pod with two containers of one image is deployed twice,
  although the comment and the error message there say that services must be unique.
* `provider_same_key`: keys are `namespace-name` and both parts may contain a dash, so two pods can share one entry;
  `GetPod` then returns a pod that does not have the name asked for.

Other behaviour the models and the reading of the code bring to light, listed here because no run is about it:

* Once two unclaimed answers have filled the MQTT client no request of this process gets through again
  (`WedgedForGood`). `RemovePackage`, `ActivatePackage` and the queries leave their response topic subscribed after an
  answer (`nextgengw.go:741`).
* `UpdatePod` reports the phase of the pod it is given (`fhpAicos.go:666`), which is the API server's: Pending, when the
  notification of `CreatePod` has not got there yet. Nothing reports Running again, so Pending may stay. `ToldIsTrue`
  therefore asks of either phase that the pod is deployed, and does not tell them apart.
* A statistics answer of an unexpected form makes `GetPackageStats` or `GetNodeStats` panic inside the HTTP handler with
  the mutex taken (`fhpAicos.go:1074`, `1224`). The process lives on, and every later `CreatePod`, `DeletePod` and scrape
  waits for ever (`PanicKeepsMutex`).
* An update of a pod keeps the packages of the revision before. After a restart the kubelet hands out ids whose
  instances are running, which is why `CREATE` overwrites in the model of the device.
* The adapter's list may be empty after a watch that the server ended early, and taking its first item panics
  (`fhpAicos.go:423`). When the deployment exists already, `Create` returns an empty one, so the list and the watch
  after it look in all namespaces (`fhpAicos.go:379-395`).
* A part of a package left by an interrupted download is taken for the package from then on (`registry.go:75`): the pod
  is retried for ever. `RetriedIsDeployed` makes an exception for it.
* In LwM2M mode the second container of a pod may be refused its instance because the server's list is old
  (`leshan.go:133`), and the whole pod is rolled back; the code waits a second after a removal (`leshan.go:279`) but not
  after a deployment. The retry chooses again, so `RetriedIsDeployed` is stated for pods of one container. The tag of
  `Failure` in the response is `json:"true"` (`leshan.go:38`).
* The streams of a remote command are counted, not their types: a client that opens a type twice can leave the error
  stream out, and `writeStatus` is then nil (`RemoteCommand`, state `panicked`).
* `Expand` returns "the first rune" after an operator that begins nothing, says its comment; the code converts the first
  byte (`expand.go:97-100`), so `$é` changes.
* A service named `kubernetes` in the pod's own namespace displaces the master service, which the comment "always" wants
  (`env.go:145-156`). Services `a-service` and `a` can both give `A_SERVICE_PORT`; which wins depends on the order of a
  Go map (`env.go:159-166`), a nondeterministic choice in the model.

## 7. What is not modelled

The wording of messages, JSON bodies, configuration, tracing, authentication, capacity and node conditions, the figures
of statistics and their formats (`GetStatsSummary`, `GetMetricsResource` beyond its lock, `GetNodeStats`,
`GetPackageStats`, `GetNodeAddress`); pod and container statuses; start-up and flags, straight-line code that runs once;
the WebSocket handler of port forwarding (`portforward/websocket.go`), which makes its pairs up front and waits for one
goroutine each, so that nothing meets; subscripted downward-API fields and lister errors other than not found in the pod
environment. The copies of Virtual Kubelet's packages under `internal/` are modelled as they are, but at this commit
nothing that runs imports them: neither `internal/kubernetes/portforward` and `internal/kubernetes/remotecommand` nor
`internal/queue`, `internal/lock` and `internal/podutils` (with the `expansion` it uses) are wired into the provider or
the command line, which take those parts from the Virtual Kubelet module. External, modelled only by how the code uses
them: Virtual Kubelet, the API server, the MQTT broker and client, the Leshan server, the device, the OCI registry, the
SPDY library, the rate limiter (`Backoffs`), timers.

## 8. What is left

1. The statistics: the entry that `GetMetricsResource` copies and reads later while packages come and go
   (`fhpAicos.go:1060`), and container statuses in `DeletePod` (`fhpAicos.go:719`), as a module over `Provider`.
2. The WebSocket handler of port forwarding beside `PortForwardStreams`.
3. `Leshan` against a promise in the manner of `PackageService`, so that `Provider` covers both modes.
