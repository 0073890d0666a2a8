------------------------- MODULE VoiceControlSystem -------------------------
(***************************************************************************)
(* The plugin in one process (mode "Off"): the shell of PluginLifecycle,   *)
(* the implementation's session of IarmSession and its events of           *)
(* EventDispatch put together, on the real threads.  Initialize and        *)
(* Deinitialize run on "main"; Configure and the destructor are calls that *)
(* main makes on the way, so that it takes their steps too, while the bus  *)
(* threads run voiceEventHandler.  An activation has its own sink, the     *)
(* plugin's _notification, and is the only client of its implementation.   *)
(*                                                                         *)
(* Whether the bus library holds a lock of its own while it calls a        *)
(* handler, and takes it in every other call, is not known here: both are  *)
(* considered.  Then _instanceLock and the library's lock are both wanted  *)
(* by main and by a bus thread.                                            *)
(*                                                                         *)
(* In process the plugin has no remote connection, so nothing of what the  *)
(* shell does about them happens; the calls of setVoiceInit are left to    *)
(* PluginLifecycle.                                                        *)
(***************************************************************************)
EXTENDS EventDispatch

CONSTANTS
  Handlers, \* the number of events a handler is registered for (6)
  MaxRetry  \* the number of retries of Utils::IARM::init (20)

ASSUME SystemAssumption ==
  Sink = Observer /\ Handlers \in Nat \ {0} /\ MaxRetry \in Nat

VARIABLES
  service, implementation, configure, connectionId, isShuttingDown, \* of the shell
  adminLock, main, cb, call, shellRefs, connSink, implRefs, sink, methods, state, process,
  closing, jobs,
  pc, after, implService, alreadyConnected, retryCount,             \* of the session
  hasOwnProcess, handlersRegistered, registered, bus, maker, unremoved, unended,
  daemon, environment,
  busLocks, \* TRUE when the library holds its lock while it calls a handler
  busLock   \* the bus thread that holds that lock, or Null

shellVars ==
  <<service, implementation, configure, connectionId, isShuttingDown, adminLock, main, cb,
    call, shellRefs, connSink, implRefs, sink, methods, state, process, closing, jobs>>
sessionVars ==
  <<pc, after, implService, alreadyConnected, retryCount, hasOwnProcess,
    handlersRegistered, registered, bus, maker, unremoved, unended, daemon, environment>>
systemVars == <<vars, shellVars, sessionVars, busLocks, busLock>>

(* The parts of the shell that concern remote connections stand still.      *)
Shell == INSTANCE PluginLifecycle WITH OutOfProcess <- FALSE, Foreign <- {}, Request <- {}

(* The process is shared with other components; the daemon keeps running.   *)
Session == INSTANCE IarmSession WITH service <- implService, Environments <- {{"shared"}}

SystemInit ==
  /\ Init /\ Shell!Init /\ Session!Init
  /\ busLocks \in BOOLEAN /\ busLock = Null

-----------------------------------------------------------------------------
(* The steps of main that are the shell's alone.                           *)
ShellStep ==
  /\ \/ Shell!AcquireMain \/ Shell!InitEnter \/ Shell!InitWatch \/ Shell!InitPublish
     \/ Shell!InitMethods \/ Shell!FailReset \/ Shell!Terminate("fTerminate", "fUnwatch")
     \/ Shell!FailUnwatch \/ Shell!DeinitDetach \/ Shell!DeinitUnwatch \/ Shell!DeinitMethods
     \/ Shell!Terminate("dTerminate", "dShell") \/ Shell!DeinitShell \/ Shell!DeinitDone
  /\ UNCHANGED <<vars, sessionVars, busLock>>

(* shell->Root constructs an implementation in this process, or fails.      *)
Root ==
  /\ Shell!InitRoot
  /\ \/ /\ main'.pc = "iConfigure"
        /\ \E s \in Sink : Construct(s, main'.implementation)
        /\ IF pc = "idle" THEN UNCHANGED sessionVars ELSE Session!NextObject
     \/ main'.pc = "fReset" /\ UNCHANGED <<vars, sessionVars>>
  /\ UNCHANGED busLock

(* Every call of the library waits for its lock.                           *)
BusFree == busLock = Null

(* An object is done with the handler when the bus has none; one that the   *)
(* bus refused to remove goes on being called.                             *)
DoneWithHandler(s) ==
  subscribed' = IF registered' = {} THEN subscribed \ {client[s].instance} ELSE subscribed

(* _configure->Configure(shell), until it returns.                         *)
Configuring(s) ==
  /\ main.pc = "iConfigure" /\ BusFree /\ client[s].pc \notin {"new", "out"}
  /\ \/ /\ \/ Session!Configure \/ Session!Probe \/ Session!InitCheck \/ Session!BusInit
           \/ Session!BusConnect \/ Session!ConnectResult \/ Session!Own
           \/ Session!CheckConnection \/ Session!Disconnect \/ Session!Term
        /\ UNCHANGED vars
     \/ /\ Session!Retry
        /\ IF pc' = "failed" THEN ConfigureFails(s) /\ DoneWithHandler(s) ELSE UNCHANGED vars
     \/ /\ Session!RegisterHandler
        /\ IF handlersRegistered = 0 /\ handlersRegistered' = 1 THEN Subscribe(s)
                                                                ELSE UNCHANGED vars
     \/ Session!RemoveHandlers /\ ConfigureFails(s) /\ DoneWithHandler(s)
  /\ UNCHANGED <<shellVars, busLock>>

(* Configure has returned; the implementation has the interface it is on.   *)
ConfigureReturned(s) ==
  /\ pc \in {"configured", "failed"}
  /\ Shell!InitConfigure /\ main'.configure = main.implementation
  /\ \/ pc = "configured" /\ main'.pc = "iSink" /\ Configured(s)
     \/ pc = "failed" /\ main'.pc = "fReset" /\ UNCHANGED vars
  /\ UNCHANGED <<sessionVars, busLock>>

RegisterSink(s) == Shell!InitSink /\ Register(s) /\ UNCHANGED <<sessionVars, busLock>>
UnregisterSink(s) == Shell!DeinitSink /\ Unregister(s) /\ UNCHANGED <<sessionVars, busLock>>

-----------------------------------------------------------------------------
(* implementation->Release(), which runs the destructor on main.           *)
Releasing == main.pc \in {"fRelease", "dRelease"}

LastRelease(s) == Releasing /\ Release(s) /\ UNCHANGED <<shellVars, sessionVars, busLock>>

(* _instance is cleared under _instanceLock, which is free again when       *)
(* DeinitializeIARM begins; that finds nothing when Configure had failed.  *)
Unpublish(s) ==
  /\ Releasing /\ Detach(s)
  /\ IF pc = "configured" THEN Session!Destroy ELSE UNCHANGED sessionVars
  /\ UNCHANGED <<shellVars, busLock>>

RemoveAll(s) ==
  /\ Releasing /\ BusFree
  /\ IF pc = "remove" THEN Session!RemoveHandlers ELSE UNCHANGED sessionVars
  /\ Unsubscribe(s) /\ DoneWithHandler(s)
  /\ UNCHANGED <<shellVars, busLock>>

LeaveBus ==
  /\ Releasing /\ BusFree /\ (Session!Disconnect \/ Session!Term)
  /\ UNCHANGED <<vars, shellVars, busLock>>

Freed(s) ==
  /\ pc \in {"failed", "gone"} /\ Destroy(s)
  /\ \/ Shell!ReleaseImplementation("fRelease", "fTerminate")
     \/ Shell!ReleaseImplementation("dRelease", "dTerminate")
  /\ UNCHANGED <<sessionVars, busLock>>

(* Mutant: the destructor keeps _instanceLock while it leaves the bus.      *)
DestructorLocked(s) ==
  \/ LastRelease(s)
  \/ /\ Releasing /\ client[s].pc = "detach" /\ instanceLock = Null
     /\ instanceLock' = s /\ instance' = Null
     /\ client' = [client EXCEPT ![s].pc = "unsubscribe"]
     /\ IF pc = "configured" THEN Session!Destroy ELSE UNCHANGED sessionVars
     /\ UNCHANGED <<object, subscribed, lists, owned, thread, sent, last, shellVars, busLock>>
  \/ /\ Releasing /\ BusFree /\ client[s].pc = "unsubscribe"
     /\ IF pc = "remove" THEN Session!RemoveHandlers ELSE UNCHANGED sessionVars
     /\ instanceLock' = Null /\ DoneWithHandler(s)
     /\ client' = [client EXCEPT ![s].pc = "clear"]
     /\ UNCHANGED <<instance, object, lists, owned, thread, sent, last, shellVars, busLock>>
  \/ LeaveBus \/ Freed(s)

ReleaseImplementation(s) ==
  LastRelease(s) \/ Unpublish(s) \/ RemoveAll(s) \/ LeaveBus \/ Freed(s)

MainStep ==
  /\ \/ ShellStep \/ Root
     \/ \E s \in Sink : \/ Configuring(s) \/ ConfigureReturned(s) \/ RegisterSink(s)
                        \/ UnregisterSink(s) \/ ReleaseImplementation(s)
  /\ UNCHANGED busLocks

-----------------------------------------------------------------------------
(* The framework.  The plugin object is deleted after its deactivation.     *)
Activate == Shell!Transition /\ UNCHANGED <<vars, sessionVars, busLock>>
Delete ==
  /\ main.pc = "idle" /\ state = "deactivated" /\ \E s \in Sink : Drop(s)
  /\ UNCHANGED <<shellVars, sessionVars, busLock>>

(* The bus and the other components of the process.                        *)
BusDelivers(t) ==
  /\ BusFree /\ registered # {} /\ Deliver(t)
  /\ busLock' = IF busLocks THEN t ELSE Null
  /\ UNCHANGED <<shellVars, sessionVars>>
HandlerRuns(t) ==
  /\ Handler(t)
  /\ busLock' = IF thread'[t].pc = "idle" THEN Null ELSE busLock
  /\ UNCHANGED <<shellVars, sessionVars, busLocks>>
Others ==
  /\ BusFree /\ (Session!OtherConnects \/ Session!OtherLeaves)
  /\ UNCHANGED <<vars, shellVars, busLock>>

SystemNext ==
  \/ MainStep
  \/ (Activate \/ Delete \/ Others \/ \E t \in Thread : BusDelivers(t)) /\ UNCHANGED busLocks
  \/ \E t \in Thread : HandlerRuns(t)

(* Whoever waits for a lock gets it, and callbacks return; nothing forces  *)
(* an activation, an event or another component.                          *)
SystemSpec ==
  /\ SystemInit /\ [][SystemNext]_systemVars
  /\ SF_systemVars(MainStep) /\ \A t \in Thread : SF_systemVars(HandlerRuns(t))

-----------------------------------------------------------------------------
(* Each part of the plugin does in the system what its own module says.     *)
PartsKept == Shell!Spec /\ Spec /\ Session!Spec

(* Once Initialize has succeeded every event is seen: the bus has all the   *)
(* handlers (unless the connection was another's, which may end), the      *)
(* instance is the plugin's implementation, and its sink is registered.    *)
ActivationComplete ==
  main.pc = "idle" /\ state = "activated" =>
    /\ pc = "configured" /\ (maker = "self" => registered = 1 .. Handlers)
    /\ instance = implementation /\ object[implementation] = "live"
    /\ \E s \in notifications[implementation] : owned[s]

(* Once Deinitialize, or an Initialize that failed, has returned, nothing  *)
(* of the activation is left: no instance, no reference on the shell, no   *)
(* object, no event still in an observer; and no handler on the bus and no *)
(* connection that it made, but those that the bus was asked to remove or  *)
(* to end and did not.                                                     *)
DeactivationComplete ==
  main.pc = "idle" /\ state # "activated" =>
    /\ registered \subseteq unremoved /\ (maker = "self" => unended)
    /\ instance = Null /\ ~implService
    /\ \A i \in Instance : object[i] # "live" /\ notifications[i] = {}
    /\ \A t \in Thread : thread[t].instance = Null

(* No circle of waiting forms: whoever is inside _instanceLock is a handler *)
(* past its wait, and a bus thread that is in a handler under the          *)
(* library's lock never finds _instanceLock taken by anyone who may in     *)
(* turn want that lock, main in the destructor above all.                  *)
NoCircularWait ==
  /\ instanceLock # Null =>
       \E t \in Thread : instanceLock = t /\ thread[t].pc \in {"snapshot", "notify", "exit"}
  /\ busLock # Null =>
       /\ instanceLock \in {Null, busLock}
       /\ \E t \in Thread : busLock = t /\ thread[t].pc # "idle"

(* What the plugin promises its observers.  An event that begins now is for *)
(* the observers on the list of the instance.                              *)
Phase ==
  CASE main.pc \in Shell!InitializePoints \cup Shell!FailurePoints -> "starting"
    [] main.pc \in Shell!DeinitPoints \ {"dDetach"} -> "stopping"
    [] main.pc \in {"idle", "dDetach"} -> IF state = "activated" THEN "on" ELSE "off"
Listening == IF instance = Null THEN {} ELSE notifications[instance]
Service == INSTANCE VoiceService
             WITH phase <- Phase, listening <- Listening,
                  current <- Current, pending <- Pending, count <- Count
ServiceKept == Service!Spec

(* Initialize and Deinitialize return, the destructor they run included:    *)
(* main never waits for ever for a handler, nor a handler for main, for    *)
(* _instanceLock and the library's lock together.                          *)
TransitionsEnd == main.pc # "idle" ~> main.pc = "idle"

(* The number of steps that main has left at most in its transition: of the *)
(* shell, of the Configure and of the destructor that it runs on the way.  *)
ConfigureLeft ==
  IF pc = "idle" THEN Handlers + 4 * MaxRetry + 12 ELSE Session!StepsLeft
At(stages) == \E s \in Sink : client[s].pc \in stages
DestructorLeft ==
  Session!StepsLeft + (IF At({"failed", "holding"}) THEN 10
                       ELSE IF At({"detach"}) THEN 9
                       ELSE IF At({"unsubscribe"}) THEN 5 ELSE 1)
MovesLeft ==
  LET lock  == IF adminLock = "main" THEN 0 ELSE 1
      start == Handlers + 4 * MaxRetry + 29
  IN  CASE main.pc = "iEnter" -> start + 2 + lock
        [] main.pc = "iWatch" -> start + 1
        [] main.pc = "iRoot" -> start
        [] main.pc = "iConfigure" -> 16 + ConfigureLeft
        [] main.pc = "iSink" -> 15
        [] main.pc = "iPublish" -> 2 + lock
        [] main.pc = "iMethods" -> 1
        [] main.pc = "fReset" -> 13 + lock
        [] main.pc = "fRelease" -> 2 + DestructorLeft
        [] main.pc = "fTerminate" -> 2
        [] main.pc = "fUnwatch" -> 1
        [] main.pc = "dDetach" -> 18 + lock
        [] main.pc = "dUnwatch" -> 17
        [] main.pc = "dSink" -> 16
        [] main.pc = "dMethods" -> 15
        [] main.pc = "dRelease" -> 4 + DestructorLeft
        [] main.pc = "dTerminate" -> 4
        [] main.pc = "dShell" -> 3
        [] main.pc = "dDone" -> 1 + lock
        [] OTHER -> 0

(* What makes Initialize and Deinitialize end once nobody waits for ever:   *)
(* a step either leaves main exactly where it is, with as many steps left,  *)
(* or leaves it fewer to take, on whatever path and with whatever failing;  *)
(* no bus thread and no other component ever adds one.                     *)
TransitionAdvances ==
  [][main.pc # "idle" =>
       \/ MovesLeft' \in 0 .. MovesLeft - 1
       \/ UNCHANGED <<MovesLeft, main, adminLock, pc, handlersRegistered, client>>]_systemVars
=============================================================================
