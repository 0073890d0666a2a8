# A verification development for entservices-voicecontrol

TLA+ models of the VoiceControl plugin, TLC configurations that check them on
small instances, and TLAPS proofs of what matters most for every instance.
Paths are relative to the repository; line numbers are those of the modelled
commit. `PROJECT.json` maps every definition of the models to the lines it
translates and lists the runs, the hazards, the findings and the theorems.

## 1. The system

VoiceControl is a Thunder plugin in two objects, which may live in one process
or in two, and a set of small helpers.

| Component | Source | State | Operations |
|---|---|---|---|
| Plugin shell | `plugin/VoiceControl.{h,cpp}` | `_service`, `_implementation`, `_configure`, `_connectionId`, `_isShuttingDown` under `_adminLock`; references on the shell and the implementation; registrations | `Initialize`, `Deinitialize`, `Deactivated`, the `setVoiceInit` method |
| Notification bridge | `plugin/VoiceControl.h` (`Notification`) | none of its own | `OnSessionBegin` ... `OnSessionEnd`: log and forward to JSON-RPC |
| Event dispatch | `plugin/VoiceControlImplementation.cpp` | static `_instance` under `_instanceLock`; `_notifications` under `_adminLock`; the observers' reference counts | constructor, destructor, `Register`, `Unregister`, `voiceEventHandler`, `iarmEventHandler`, `Notify...`, `ObserverSnapshot`, `ReleaseObserverSnapshot` |
| IARM session | the same file and `helpers/UtilsIarm.h` | `_service`, `_hasOwnProcess`, `_handlersRegistered`; the connection of the process to the bus | `Configure`, `InitializeIARM`, `DeinitializeIARM`, `Utils::IARM::init`, `isConnected` |
| Voice requests | the same file | atomic `_maskPii` | the `IVoiceControl` methods, `IARMBusCall` |
| Event payload conversion | the same file, `NotifySessionBegin` ... `NotifySessionEnd` | none | labels to parameters, defaults, casts, the 256K limit |
| Enum and string conversion | the same file, lines 30-118 | none | `stringToEnum`, `...ToString`, `tryParseJsonValue`, `checkRestrictLimit` |
| Shared helpers | `helpers/` | none | logging; an interface builder and string and JSON-RPC helpers that the plugin does not call |

How they interact: the framework activates the shell on one thread.
`Initialize` has the framework create the implementation (`Root`), calls
`Configure` on it and registers its sink with it, all of them COM-RPC calls if
the implementation has a process of its own. When a process dies, the
framework calls `Deactivated` on another thread, and `Deactivated` submits a
job that deactivates the plugin on a third. `Configure` connects to the bus and
registers one handler for six events. The bus then calls `voiceEventHandler`
on threads of its own; it looks the implementation up in `_instance` and calls
every observer, in particular the shell's sink, with `_instanceLock` held.
Clients call the implementation through the shell, on any thread, and each call
is a synchronous request to ctrlm over the bus.

What is hard here, and what has to hold:

* **Lifecycle.** Three threads, two locks (the shell's and the framework's),
  processes that die at any time, seven places where `Initialize` can fail.
  The assertions at the head of `Initialize` must hold; references must
  balance; a deactivated plugin must leave nothing registered, referenced or
  running; only the crash of the plugin's own process may deactivate it, and
  never its own `Terminate`; `Deinitialize` must return.
* **Dispatch.** Events race with `Unregister`, with clients that go away, and
  with the destructor. The handler must only use a live object, an observer
  must be referenced while it is called, and all observers must see one order.
* **Session.** Partial registrations, retries, a bus connection that belongs
  to the process and that others use. All the handlers or none; never end a
  connection of somebody else; release one's own.
* **The parts together.** In process, `Initialize` and `Deinitialize` run the
  session's and the destructor's steps on the framework's thread while bus
  threads are inside the handler. `_instanceLock`, and a lock the bus library may
  have, are wanted from both sides. A successful `Initialize` must leave all
  of the chain in place, anything else must leave none of it.
* **Payloads.** The same data is cast, renamed and re-encoded by hand at
  several places that have to agree, in both directions: labels may be absent
  or of a wrong type, numbers may not fit, a text may not be terminated.
* **Requests.** Calls that fail before or after ctrlm executed them, absent
  labels, lists beyond the interface's limits, a cached privacy setting that
  several callers write.

## 2. The modules

| Module | Models | Abstraction |
|---|---|---|
| `PluginLifecycle` | the shell, with the framework, its announcements, jobs and processes as environment | every statement that changes state, between two lock sections, is an action; a lock section is one step after an acquire step |
| `EventDispatch` | the implementation as dispatcher, over several activations and other clients | lists are sets (their order is never used to decide anything), events are numbers, a lock section under `_adminLock` is one step because it calls nobody |
| `EventFeed` | what the dispatch promises: a broadcast of one event at a time | abstract specification, implemented by `EventDispatch` |
| `IarmSession` | the object's attachment to the bus, with the bus library as environment | the six events are numbers; time between retries is left out |
| `VoiceRequests` | the `IVoiceControl` methods and `_maskPii`, with ctrlm as environment | a text is empty or not, a payload parses as JSON or not, a list is its length |
| `VoicePayloads` | what the implementation and the sink do to the data of requests, events and status replies | one flow at a time, as the conversions keep no state but the caller's response; integers have their widths as parameters, a text is its form and its size, an object its labels |
| `VoiceService` | what the plugin as a whole promises its observers: a broadcast with a switch, on only with an observer, off only when the last broadcast has ended | abstract specification, implemented by `VoiceControlSystem`, and itself an implementation of `EventFeed` |
| `VoiceControlSystem` | the composition of `PluginLifecycle`, `EventDispatch` and `IarmSession` in one process | the actions of the parts, joined where the code calls from one into the other; one client, the plugin's sink, per activation |
| `MC...` | the instances for TLC | |
| `PluginLifecycleProofs`, `EventDispatchProofs`, `EventFeedProofs`, `IarmSessionProofs`, `VoiceRequestsProofs`, `VoicePayloadsProofs`, `VoiceServiceProofs`, `VoiceControlSystemProofs` | theorems | |

State and actions correspond to the code by name: a variable has the name of
the member it models (`_maskPii` is `maskPii`), an action that of the
function, or of a function and its stage (`InitPublish` is the section of
`Initialize` that publishes the members). A frame record (`main`, `cb`,
`thread`, `caller`) holds a thread's program point and the locals it keeps
over more than one step. `service` of `PluginLifecycle` is only whether
`_service` is set: the framework has one shell per plugin and passes that
one.

`VoiceControlSystem` extends `EventDispatch` and instantiates the other two
parts, with their variables under the same names (the session's `service` is
`implService`). It has no state of its own but the library's lock. A step of
the system is one step of a part or a joint step of two or three:

| Code | System action | Steps joined |
|---|---|---|
| `shell->Root`, the constructor | `Root` | `Shell!InitRoot`, `Construct`, `Session!NextObject` |
| `Configure`, until it returns | `Configuring` | each of `Session`'s steps; the first registered handler is `Subscribe`, a failure `ConfigureFails` |
| the return of `Configure` | `ConfigureReturned` | `Shell!InitConfigure`, `Configured` |
| `Register`, `Unregister` of the sink | `RegisterSink`, `UnregisterSink` | the shell's section and the dispatcher's |
| the last `Release` and the destructor | `LastRelease`, `Unpublish`, `RemoveAll`, `LeaveBus`, `Freed` | `Release`, `Detach` and `Session!Destroy`, `Unsubscribe` and `Session!RemoveHandlers` (`DoneWithHandler`: the object stays subscribed if the bus kept one of its handlers), the session's end, `Destroy` and `Shell!ReleaseImplementation` |
| everything else of the shell | `ShellStep` | |
| a bus thread | `BusDelivers`, `HandlerRuns` | `Deliver` or a step of the handler, with the library's lock |

`VoicePayloads` follows one flow through `stage`: a request (`SendVoiceMessage`,
`VoiceSessionByText`, `VoiceSessionRequest`) and ctrlm's answer to it
(`EchoMessage`, `BeginSession`), or an event of ctrlm's own (`CtrlmSends`), then
`Handle` (`iarmEventHandler` and `Notify...`, which are one call in the code) and
`Publish` (the sink); or `GetVoiceStatus`.

The environment is external code, modelled as this repository uses it:

* The framework activates and deactivates one plugin at a time on one thread;
  it takes its own lock to add or remove an observer of connections and holds
  it while it calls one, so `Register` and `Unregister` wait for a callback in
  progress (`cb.pc = "idle"` in `InitWatch`, `DeinitUnwatch`, `FailUnwatch`).
  A callback that waits for `_adminLock` while `Deinitialize` waits for the
  callback is what `ActivationReturns` is about. After a failed `Initialize`
  it calls `Deinitialize` or not: both are allowed, as versions differ.
* Each call of the bus library may fail: `IARM_Bus_Init`, `IARM_Bus_Connect` and
  `IARM_Bus_RegisterEventHandler`, on which `Configure` retries or gives up, and
  also those that leave the bus. `IARM_Bus_RemoveEventHandler` may fail for any
  of the handlers, `IARM_Bus_Disconnect` and `IARM_Bus_Term` as well. The code
  only logs that (`IARM_CHECK`), sets `_handlersRegistered` and
  `_hasOwnProcess` as if it had succeeded, and goes on, so a handler or a
  connection stays that no member remembers. Two history variables do:
  `unremoved`, the handlers whose removal was refused, and `unended`, that the
  end of the connection was. A repeated connect or register is no error. The
  connection belongs to the process, and the handlers go with it
  (`Disconnected`); `IARM_Bus_Term` may take a connection that is still there
  with it, or leave it. `environment` says which
  disturbances an instance has: other components in the process (`shared`),
  that connect or leave while `Configure` runs (`race`), a daemon that stops
  and starts (`daemon`).
* ctrlm may leave out any label of a reply or an event, send a value of
  another type (which the JSON library reads as a default), and change its
  setting at any time. In `VoicePayloads` it echoes what was asked of it.
* Whether the bus library holds a lock of its own while it calls a handler,
  and takes it in every other call, is not known from this repository. The
  system is checked and proved for both (`busLocks`).

Definitions marked as mutants are not part of the specifications. Each stands
for a plausible bug in the definition that follows it (a reference that is not
taken, a lock released early, a retry not counted); with the mutant in place of
the definition, TLC finds the property it is listed with violated.

## 3. What TLC checks

| Run | Instance | States | Shows |
|---|---|---|---|
| `lifecycle` | 2 implementations, 1 foreign connection, 1 call, out of process | 36 608 | six invariants, that a crash is lost at no step (`NoticeKept`), and under fairness `ActivationReturns` and `CrashHandled` |
| `lifecycle_late_publish` | 1 implementation | | violated: `CrashNoticed` |
| `lifecycle_late_call` | 1 implementation, 1 call | | violated: `CallsThroughLiveObject` |
| `events_shared` | 2 implementations, 2 sinks, 1 other observer, 2 threads, 2 events | 1 182 602 | the handler, the references, and the refinement of `EventFeed` |
| `system` | 2 implementations with their 2 sinks, 2 bus threads, 1 event, 2 handlers, 1 retry; in process | 180 244 | the parts keep their specifications together (`PartsKept`), activations and deactivations are complete, `SinkAlive` for the real owner of a sink, no circle of waiting (`NoCircularWait`), the refinement of `VoiceService` (`ServiceKept`), `TransitionAdvances` and `TransitionsEnd` |
| `events_overlap` | as `events_shared`, 1 event | | violated: `ActivationServed` |
| `iarm` | 6 handlers, 20 retries, all eight environments | 245 294 | `AllOrNothing`, whose connection is kept and whose is ended, `SessionAdvances` and `ConfigureReturns` |
| `iarm_cleanup` | the same | | violated: `ConnectionReleased` |
| `requests_one` | 1 caller, every kind of call, lists of 0, 16, 17, 32, 33 | 397 762 | success, limits, the cached setting |
| `requests_many` | 2 callers of the status and of a method that logs | 3 425 826 | the setting under concurrency, and what it lets the implementation show |
| `requests_masking` | 1 caller | | violated: `MaskedPayloadsHidden` |
| `payloads` | integers of 4, 3 and 2 bits, a limit of 3, every kind of event with its labels present, absent or of a wrong type | 115 993 | what passes through two conversions or more comes out as it went in |

The properties, by hazard:

* *Failure paths.* `InitializeAsserts`, `QuiescentClean`, `ShellAccounting`
  and `TerminatedUnreferenced` quantify over every way `Initialize` can fail
  and every point where a process can die or an announcement arrive.
* *The plugin's own `Terminate` looks like a crash.* `NoSpuriousJob`: the
  closing is announced, possibly while the failure path or `Deinitialize` is
  still running or after the next `Initialize` has begun, and never causes a
  job. The comparison with `_connectionId` and the order in `Deinitialize`
  are both needed for this.
* *Use after release.* `InstanceAlive`, `CalledReferenced`, `RefsBalanced`:
  the destructor's section under `_instanceLock` and the references of the
  snapshot. `SinkAlive` says more for the sink, which is a member of the
  plugin and is not kept alive by its count; it holds when the plugin is the
  only client of its implementation, because `Release` then runs the
  destructor, and the destructor waits for the handler.
* *Order.* `BroadcastInOrder` is the refinement of `EventFeed`. The mapping
  shows an event as current while the holder of `_instanceLock` notifies.
* *A crash that is forgotten.* `NoticeKept` follows a crash from the process to
  the job, step by step: while the plugin stays connected to the process, the
  crash is to be announced, in the callback, with a job, or already the reason
  for the `Deinitialize` that runs. It is about every step, and needs no
  fairness; `CrashHandled` says that the way has an end.
* *Partial registration, foreign connections, calls that fail on the way out.*
  `AllOrNothing`, `OthersKeepConnection`, `OwnConnectionReleased`. The first and
  the third except what the bus refused when it was asked: a handler in
  `unremoved`, a connection with `unended`. They say that the object asks for
  all that it has, at whatever call it failed before, and that a handler that
  was never refused is gone. In the system `DeactivationComplete` makes the same
  exception, and `SinkAlive` and `ServiceKept` none: a handler that outlives
  its object finds no `_instance`, or that of the next activation. The second, and the third in
  a process that others use, are about a `Steady` environment only: with races, or with a daemon that makes
  `isConnected` answer false for a connection that exists, the object can take
  somebody else's connection for its own and end it.
* *Privacy.* `ClearOnlyIfReported` is about what the implementation masks by
  `_maskPii`: requests, replies, server messages and session ends. Neither a
  failed query nor a reply without the label, nor a race of two status calls,
  unmasks what ctrlm has never allowed to be shown. The payloads of the other
  four events are always logged in clear (`"shown"` in `LogEvent`); no property
  says otherwise of them, see section 5.

* *Deadlock in the shell.* `Initialize` and `Deinitialize` wait, in the
  framework, for an announcement that is under way, and that waits for
  `_adminLock`; so nobody may hold the lock at such a point.
  `ActivationReturns` fails if somebody does.
* *Deadlock between the parts.* `NoCircularWait` and `TransitionsEnd`: main waits for
  `_instanceLock` in the destructor, and for the library's lock in `Configure`
  and `DeinitializeIARM`; a bus thread may hold the second while it waits for
  the first. It is the early release of `_instanceLock` in the destructor
  (`VoiceControlImplementation.cpp:142`, before `DeinitializeIARM` at 144) that
  keeps them from waiting for each other. `NoCircularWait` says it of the two
  locks: whoever is inside `_instanceLock` has what it needs to go on, and a
  handler called under the library's lock never finds `_instanceLock` with
  anyone else. Deadlock is checked as well.
* *A loop that does not end.* `SessionAdvances` and `TransitionAdvances` give
  `Configure`, `DeinitializeIARM`, `Initialize` and `Deinitialize` a number of
  steps left (`StepsLeft`, `MovesLeft`) that every step of theirs lowers and
  nothing that happens beside them raises: the retries are counted, a failure
  leads to the failure path and not back, and a bus thread can hold main up but
  never send it back. The liveness properties are this and fairness.
* *Half an activation.* `ActivationComplete` relates the shell's members, the
  bus's handlers, `_instance` and `_notifications` after `Initialize`;
  `DeactivationComplete` says that none of them, and no event inside an
  observer, outlives `Deinitialize` or an `Initialize` that failed anywhere,
  but for a handler that the bus would not remove.
  `PartsKept` is the refinement of the three parts: each has the environment
  in the system that its own module assumes, so that what was shown of a part
  alone holds of it here.
* *What observers may rely on.* `ServiceKept` is the refinement of
  `VoiceService` by the whole: the phase comes from the shell (`Phase`), who
  listens from `_instance` and its `_notifications`, the broadcast from the
  thread in the handler. The plugin is "off" only after the broadcast under way
  has ended, and "on" only with its sink listening.
* *Conversions that have to agree.* `MessageEchoed` (`created` out as a signed
  number and back, the payload re-encoded and cut), `DeviceKept` (three tables
  between a request and `onSessionBegin`), `ObjectsPassThrough` (an object crosses COM-RPC as a text, an empty text
  means none, and texts go unquoted into JSON), `TextInsideData` (the NUL that
  is written over the last byte), `NothingStale` (two paths fill the caller's
  response field by field).

**Bounds.** `Instance` bounds the activations that get as far as an
implementation, and two are enough for everything that one activation can do to
the next, as no action reads more than one implementation; failing activations
are not bounded. Two bus threads are enough for a handler that waits while
another has the lock; two sinks and one more client for every combination of an
old and a new owner. `MaxEvents` bounds the events dispatched (later deliveries
are taken as invalid, which the handler drops anyway), two being enough for one
to be passed by another. Handlers and retries have the numbers of the code. The
lengths of lists are at, below and above both limits. The system has as many
handlers and retries as make a first, a last and a failure in between, and one
event per run of the handler, since the order of two is the subject of
`events_shared`. In `payloads` the widths are the smallest that differ from
each other and have values that fit one cast and not the next, the limit is
below, at and above the texts, and data is as short as its header, one byte
longer, or has no NUL. Two callers of
`GetVoiceStatus` are enough for one to store over the other.

**Symmetry** is used only in runs without liveness properties, over sets whose
elements the model never tells apart (`Interchangeable`). It permutes sinks but
not the other observers. In `system`, which has liveness properties, the action
constraint `FixedNames` does the same by another way: a new activation takes the
first implementation and sink that were not used, instead of any. The
specification treats all unused ones alike, so every behaviour is one of these up
to the names.

**Deadlock** is checked in the lifecycle, system, request and payload runs. In the event runs
the system may stop, when all implementations were used and everybody has let
go; in the IARM runs, when a process of its own ends with its object.

**Fairness.** `PluginLifecycle`: a thread that may go on does, and whoever waits
for `_adminLock`, for the framework's lock or for the worker pool is served in
the end. That is what critical sections and a worker pool provide, and the
waits can be enabled and disabled again and again, hence strong fairness.
Nothing forces an activation, a call or a crash. `VoiceControlSystem`: main's
steps, and those of a handler that was entered, are strongly fair: whoever
waits for `_instanceLock` or the library's lock gets it if it is free again
and again, callbacks return, and a bus call returns. Nothing forces an event,
an activation or another component. `IarmSession`: the thread that configures the object
goes on (weak fairness). The event, request and
payload runs check safety only.

## 4. What is proved

All theorems are for any values of the constants that satisfy the assumptions
(`ConstantsAssumption` of each module: the sets are disjoint where they have to
be, `Instance` and `Thread` are finite where they are counted).

* `PluginLifecycleProofs`. The inductive invariant relates the program point
  of `main` to what the plugin holds at that point: which members are set, how
  many references on the implementation are out, what is registered, and that
  `_connectionId` names a process that is up or has crashed. The checked
  invariants are not inductive without it: `QuiescentClean`, for one, speaks
  of the idle plugin only, and what makes it true are the releases on the way
  there. From it follow `TypeCorrect`, `ShellAccounted`, `AssertsHold`,
  `NothingLeft`, `TerminationLast`, `JobsAreCrashes` and `LockHolderRuns`. They hold in process
  and out of process (`OutOfProcess` is a constant), while TLC checks the
  latter. `LockHolderRuns` is what `ActivationReturns` rests on. `ClosingNotLost` is an action property. It needs one fact more
  (`ShutdownInv`): a plugin that has its shell is not shutting down; so one that has
  a `_connectionId` is registered for announcements and takes that of its own
  process for its own (`ConnectedListens`).
* `EventDispatchProofs`. `ControlInv` says what holding `_instanceLock` means
  (`LockInv`), what a frame of the handler may hold at which point
  (`FrameInv`), and who has a reference on which object (`ObjectInv`: an
  object that is somebody's is live, whoever destroys it is alone with it, and
  it is not the instance once it was unpublished). This gives
  `HandlerUsesLiveObject`. `RefsInv` adds the counts, with the lemmas of
  finite sets for one element more or less: `ReferencesBalance`,
  `TypeCorrect`, `CalledObserversReferenced`. `ExclusiveInv`, under the
  assumption that all observers are sinks, ties a sink to its own object:
  `ExclusiveActivation`. `Broadcast` is the refinement: every step of the
  dispatch is a step of `EventFeed` or leaves it alone. What is proved of a feed
  then holds of the dispatch (`ObserversInOrder`). `LastInv` relates the event that each
  observer had last to the events dispatched and to the snapshot of the
  thread that notifies, and gives `AudienceIsServed`: of all observers, those
  that a thread has done with, and nobody else, had its event last.
* `EventFeedProofs`: in a broadcast no observer is handed an event twice or
  after a later one (`HandedInOrder`).
* `VoiceServiceProofs`: with `ServiceInv` (off: nobody listens and nothing is under
  way; on: somebody listens), a service that is off calls nobody
  (`SilentWhenOff`), one that is on has an audience for every event, the same
  all the time (`HeardWhenOn`), and without the switch it is a feed
  (`ServiceBroadcasts`).
* `IarmSessionProofs`. `SessionInv` is a conjunction of what the library's
  state allows (`LibraryInv`), how many handlers the bus has at which point
  of `Configure` or of the destructor (`HandlersInv`), what the members say
  there (`ObjectInv`), and what a process of its own (`OwnProcessInv`) or a
  steady environment (`SteadyInv`) adds. `AllOrNothing` looks at the ends of
  the two functions; what holds between needs the count. It gives
  `TypeCorrect`, `HandlersAllOrNone`, `ReleasesOwnConnection`, and
  `KeepsOthersConnection` as an action property: for any number of handlers
  and retries and any environments, whichever calls of the bus fail. What the
  first two except is exactly what the bus refused: the invariant carries
  `unremoved` and `unended` from the refusal to the end of the function. `SessionEnds` shows for each step that
  `StepsLeft` falls, from the ranges that `SessionInv` gives the retries and the handlers.
* `VoiceRequestsProofs`. `RequestInv` says what a caller's frame knows of
  ctrlm's setting (`ReplyInv`: what came in a reply was seen during the call
  and reported), what it may answer (`AnswerInv`: what is about to be stored
  in `_maskPii` came from ctrlm or from `_maskPii`), and that `_maskPii`
  is FALSE only on a report (`MaskInv`, about the payloads that the
  implementation masks at all). The frames of different callers
  meet in `_maskPii` only, so a step of one is shown once, for any frame that
  follows (`OneFrame`). It gives `NothingClearUnreported`,
  `SuccessComesFromCtrlm`, `AnswersAreCurrent` and `ListsAreCut`, for any
  number of callers and any calls. `WorldInv` adds what `TypeCorrect` needs.
  `SingleCallerCache` assumes one caller: `CacheInv` follows ctrlm's last word
  through the frame, from the reply to the answer to `_maskPii`.
* `VoicePayloadsProofs`. `PayloadsInv` says of every stage what it has kept of
  what was asked: the request as a function of the arguments, the event as
  the echo of the request, the call as a function of the event's labels. The
  theorems then compare the two ends, with lemmas on the casts
  (`SignedRoundTrip`, `NarrowInRange`, `NarrowKeeps`): for integers of any even
  modulus, any limit, any header and any events.
* `VoiceControlSystemProofs`. `SystemKeepsParts` shows that every step of the
  system is a step of each part or leaves it alone. The theorems about the
  parts then hold in the system (`SinksAlive` and `EventsServed` are
  `ExclusiveActivation` there), and their invariants (`PartsInv`) may be used.
  They say nothing of how the parts stand to each other; that is `LinkInv`: at
  each point of the shell, which points the session and the sink's owner may
  be at (`ConfiguringLink`, `ServingLink`, `FailingLink`, `ReleasingLink`), that
  the object that is live is the one the shell holds, and that only one is.
  From both follow `ActivationCompletes` and `DeactivationCompletes`. `BusInv` adds
  what the library's lock says of the thread that has it, for `LocksUncircular`.
  `SystemServes` is the refinement of `VoiceService`, one lemma for each kind of
  step (`ServiceSwitch`, `ServiceRoot`, `ServiceAudience`, `ServiceBroadcast`,
  `ServiceStill`); `PartsInv` and `LinkInv` say who listens when the
  phase changes. With `VoiceServiceProofs` it gives `DeactivatedIsSilent` and
  `ActivatedIsHeard`, which no invariant of one part could: that a deactivated
  plugin calls no observer on any thread, and that an activated one has an
  observer for every event. `TransitionsAdvance` adds up what the shell, the
  session (`SessionEnds`) and the destructor have left. They all need
  `SystemAssumption`: every observer is a plugin's sink, and there is at least
  one handler.

Three invariants are proved and are no run's properties, because the same
mistakes in the code break something the runs do check: `NoWaitUnderLock` (see
`ActivationReturns`), `AudienceServed` (see `BroadcastInOrder`), and, in the
system, `ActivationServed` (see `ActivationComplete` and `ServiceKept`).
`NumbersKept`, that a number which fits the parameter it is cast to arrives as
it was sent, is about a single cast, and is left to its proof.

Only model-checked: the liveness properties (the proof system does not deal
with fairness and ENABLED): `ActivationReturns`, `CrashHandled`,
`ConfigureReturns` and `TransitionsEnd`; and the violations. What each of the
four rests on besides fairness is proved: that nobody waits in a circle
(`LockHolderRuns`, `LocksUncircular`), that the steps left only fall
(`SessionEnds`, `TransitionsAdvance`), and that a crash is never dropped
(`ClosingNotLost`). Of `ActivationReturns` out of process only the first is:
the shell there has no count of its steps.

## 5. What was found

| Run | What the code does |
|---|---|
| `lifecycle_late_publish` | A process that dies after `Root` and before `_connectionId` is published (`VoiceControl.cpp:94`) is announced to a plugin that does not recognise it. The plugin stays activated without an implementation and no later announcement comes. |
| `lifecycle_late_call` | The `setVoiceInit` method reads `_implementation` without a lock or a reference of its own (`VoiceControl.cpp:110`), while `Deinitialize` clears and releases it. |
| `events_overlap` | The destructor clears `_instance` without comparing it with `this` (`VoiceControlImplementation.cpp:141`). In process, a client that keeps an old implementation takes the events of the new one away when it lets go. |
| `iarm_cleanup` | `alreadyConnected` is read (line 238) before `Utils::IARM::init` asks again; when another component's connection ends in between, the object makes one that it will not end. |
| `requests_masking` | The sink logs payloads without asking for the masking setting that the implementation has just applied to the same payload (`VoiceControl.h:100` and `:120`). |

Further observations are not runs. `NotifySessionBegin`, `NotifyStreamBegin`,
`NotifyKeywordVerification` and `NotifyStreamEnd` log the whole payload in clear
whatever `_maskPii` is (`VoiceControlImplementation.cpp:391`, 413, 431 and 477),
while `ARCHITECTURE.md:139` lists PII masking without an exception. The model
has these entries of the log; the privacy properties leave them out by name,
and `MaskedPayloadsHidden` shows the stronger case, a payload that one part
masks and the other shows. A failed `IARM_Bus_RemoveEventHandler`,
`IARM_Bus_Disconnect` or `IARM_Bus_Term` is only logged (lines 276-289): the
handler or the connection outlives the object, and nothing tries again. Its
events are dropped, or served by the next activation's object (`AllOrNothing`
and `DeactivationComplete` say what is left otherwise). The comment in
`onSessionEnd` of `VoiceControl.h` says that `serverStats` is included only when
the session completed; the code includes it for every result but an abort, with zeros if
ctrlm sent none. A `created` of 2^63 and more reaches ctrlm as a negative
number, and comes back as it was. A `msgPayload` that is a JSON string comes
back without its quotes. An observer may be called after its
`Unregister` has returned, since the snapshot was taken before; its reference
keeps it alive (`CalledReferenced`). And `Deinitialize` unregisters the observer
of connections first, although it was registered first; no announcement of the
plugin's own `Terminate` can reach it then.

## 6. Not modelled, and the plan

* `Information`, logging as such, build and packaging files, the generated
  JSON-RPC and proxy code: nothing in them is worth a model, or they are not
  this repository's.
* The helpers the plugin does not call (`PluginInterfaceBuilder.h`,
  `UtilsString.h`, `UtilsJsonRpc.h`) or calls only to log. No state of the
  system depends on them. Reading them showed two things: `Utils::String::equal`
  answers false for two empty strings, and the move assignment of the
  interface holder drops an interface it already has without a `Release`.
* The composition across two processes. Out of process the implementation is
  alone with its bus connection, its calls are COM-RPC calls that may be cut off
  at any point, and an object that the shell has released is destroyed with
  its process. `PluginLifecycle` (out of process), `EventDispatch` (with clients
  of any kind) and `IarmSession` (in a process of its own) cover each side.
* An observer whose callback waits for the plugin to be deactivated. It would
  wait for ever, with `_instanceLock` held, and nothing in the code prevents
  it. `TransitionsEnd` does not speak of it: that callbacks return is the
  fairness of the system. A call of the bus has no timeout either; that it
  returns is assumed.
* A deactivation job that runs late, after the plugin was deactivated and
  activated again. The job names only the plugin, and the framework's handling
  of it is not this repository's.
* The numbers in `serverStats`, and arguments that pass as they are.

The modules were written in this order: `PluginLifecycle`; `EventDispatch` and
`EventFeed`; `IarmSession` and `VoiceRequests`; `VoiceControlSystem`;
`VoicePayloads`; `VoiceService`; each with its proofs. What could be added:

1. In the system, a second client of the implementation beside the plugin's
   sink (`Sink` smaller than `Observer`). `events_overlap` shows what then goes
   wrong, and `DeactivationComplete` would have to speak of the plugin's part
   only.
2. The requests of `VoiceRequests` in the system, as calls through the shell
   that overlap with `Deinitialize`.
3. The composition across two processes, with the loss of a process while
   `Configure`, `Register` or an event is under way.
4. A count of the steps left for `PluginLifecycle`, as `MovesLeft` is for the
   system, which would cover `Initialize` out of process and the callback; and
   an abstract specification of the exchanges of `VoiceRequests`: each call at
   most one request to ctrlm, answered from its reply.
