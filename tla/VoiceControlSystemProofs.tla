---------------------- MODULE VoiceControlSystemProofs ----------------------
(***************************************************************************)
(* Proofs about VoiceControlSystem, for any number of activations, bus     *)
(* threads, events, handlers and retries.  First, every step of the system *)
(* is a step of each part or leaves it alone, so that what is proved of    *)
(* the parts holds in the system.  Then one more invariant ties the parts  *)
(* to each other: how far the shell is says how far its implementation is  *)
(* with the bus and with its observers.                                    *)
(***************************************************************************)
EXTENDS VoiceControlSystem, EventDispatchProofs

ShellP == INSTANCE PluginLifecycleProofs WITH OutOfProcess <- FALSE, Foreign <- {}, Request <- {}
SessionP == INSTANCE IarmSessionProofs WITH service <- implService, Environments <- {{"shared"}}

-----------------------------------------------------------------------------
(* Every step of the system is one of the shell or leaves it alone.         *)
LEMMA ShellNext == SystemNext => Shell!Next \/ UNCHANGED shellVars
<1> SUFFICES ASSUME SystemNext PROVE Shell!Next \/ UNCHANGED shellVars
  OBVIOUS
<1>1. CASE ShellStep
  BY <1>1 DEF ShellStep, Shell!Next, Shell!Main, Shell!Initialize, Shell!InitializeFailure,
              Shell!Deinitialize
<1>2. CASE Root
  BY <1>2 DEF Root, Shell!Next, Shell!Main, Shell!Initialize
<1>3. ASSUME NEW s \in Sink, Configuring(s) PROVE UNCHANGED shellVars
  BY <1>3 DEF Configuring
<1>4. ASSUME NEW s \in Sink, ConfigureReturned(s) \/ RegisterSink(s) PROVE Shell!Next
  BY <1>4 DEF ConfigureReturned, RegisterSink, Shell!Next, Shell!Main, Shell!Initialize
<1>5. ASSUME NEW s \in Sink, UnregisterSink(s) PROVE Shell!Next
  BY <1>5 DEF UnregisterSink, Shell!Next, Shell!Main, Shell!Deinitialize
<1>6. ASSUME NEW s \in Sink, ReleaseImplementation(s) PROVE Shell!Next \/ UNCHANGED shellVars
  BY <1>6 DEF ReleaseImplementation, LastRelease, Unpublish, RemoveAll, LeaveBus, Freed,
              Shell!Next, Shell!Main, Shell!InitializeFailure, Shell!Deinitialize
<1>7. CASE Activate
  BY <1>7 DEF Activate, Shell!Next, Shell!Framework
<1>8. CASE Delete \/ Others \/ \E t \in Thread : BusDelivers(t) \/ HandlerRuns(t)
  BY <1>8 DEF Delete, Others, BusDelivers, HandlerRuns
<1> QED BY <1>1, <1>2, <1>3, <1>4, <1>5, <1>6, <1>7, <1>8 DEF SystemNext, MainStep

(* Every step of the system is one of the session or leaves it alone.       *)
LEMMA SessionStep == SystemNext => Session!Next \/ UNCHANGED sessionVars
<1> SUFFICES ASSUME SystemNext PROVE Session!Next \/ UNCHANGED sessionVars
  OBVIOUS
<1>1. CASE ShellStep \/ Activate \/ Delete \/ \E t \in Thread : BusDelivers(t) \/ HandlerRuns(t)
  BY <1>1 DEF ShellStep, Activate, Delete, BusDelivers, HandlerRuns
<1>2. CASE Root
  BY <1>2 DEF Root, Session!Next
<1>3. ASSUME NEW s \in Sink, Configuring(s) PROVE Session!Next
  BY <1>3 DEF Configuring, Session!Next, Session!Step
<1>4. ASSUME NEW s \in Sink, ConfigureReturned(s) \/ RegisterSink(s) \/ UnregisterSink(s)
      PROVE  UNCHANGED sessionVars
  BY <1>4 DEF ConfigureReturned, RegisterSink, UnregisterSink
<1>5. ASSUME NEW s \in Sink, ReleaseImplementation(s)
      PROVE  Session!Next \/ UNCHANGED sessionVars
  BY <1>5 DEF ReleaseImplementation, LastRelease, Unpublish, RemoveAll, LeaveBus, Freed,
              Session!Next, Session!Step
<1>6. CASE Others
  BY <1>6 DEF Others, Session!Next
<1> QED BY <1>1, <1>2, <1>3, <1>4, <1>5, <1>6 DEF SystemNext, MainStep

(* Every step of the system is one of the events or leaves them alone; the  *)
(* object that Root constructs is the one that the shell gets.             *)
LEMMA EventStep ==
  ASSUME ShellP!ControlInv, SystemNext
  PROVE  Next \/ UNCHANGED vars
<1> USE ConstantsAssumption DEF ConstantsAssumption
<1>1. CASE ShellStep \/ Activate \/ Others
  BY <1>1 DEF ShellStep, Activate, Others
<1>2. CASE Root
  <2>1. CASE UNCHANGED vars
    BY <2>1
  <2>2. ASSUME NEW s \in Sink, main'.pc = "iConfigure", Construct(s, main'.implementation)
        PROVE  Next
    <3>1. DOMAIN main = {"pc", "implementation", "configure", "connectionId"}
      BY DEF ShellP!ControlInv, ShellP!ControlTypeOK
    <3>2. main'.implementation \in Instance
      BY <1>2, <2>2, <3>1 DEF Root, Shell!InitRoot
    <3> QED BY <2>2, <3>2 DEF Next
  <2> QED BY <1>2, <2>1, <2>2 DEF Root
<1>3. ASSUME NEW s \in Sink, Configuring(s) PROVE Next \/ UNCHANGED vars
  BY <1>3 DEF Configuring, Next
<1>4. ASSUME NEW s \in Sink, ConfigureReturned(s) \/ RegisterSink(s) \/ UnregisterSink(s)
      PROVE  Next \/ UNCHANGED vars
  BY <1>4 DEF ConfigureReturned, RegisterSink, UnregisterSink, Next
<1>5. ASSUME NEW s \in Sink, ReleaseImplementation(s)
      PROVE  Next \/ UNCHANGED vars
  BY <1>5 DEF ReleaseImplementation, LastRelease, Unpublish, RemoveAll, LeaveBus, Freed,
              Next, Destructor
<1>6. CASE Delete
  BY <1>6 DEF Delete, Next
<1>7. ASSUME NEW t \in Thread, BusDelivers(t) \/ HandlerRuns(t) PROVE Next
  BY <1>7 DEF BusDelivers, HandlerRuns, Next
<1> QED BY <1>1, <1>2, <1>3, <1>4, <1>5, <1>6, <1>7 DEF SystemNext, MainStep

(* The modules with the proofs about the parts define the same steps.       *)
LEMMA SameShell == (Shell!Init <=> ShellP!Init) /\ (Shell!Next <=> ShellP!Next)
<1>1. Shell!Init <=> ShellP!Init
  BY DEF Shell!Init, ShellP!Init, Shell!Idle, ShellP!Idle, Shell!CallIdle, ShellP!CallIdle,
         Shell!CallbackIdle, ShellP!CallbackIdle
<1>2. Shell!Next <=> ShellP!Next
  BY DEF
       Shell!plugin, ShellP!plugin, Shell!frames, ShellP!frames, Shell!held, ShellP!held,
       Shell!host, ShellP!host, Shell!vars, ShellP!vars, Shell!LockPoints,
       ShellP!LockPoints, Shell!Goto, ShellP!Goto, Shell!Idle, ShellP!Idle,
       Shell!CallbackIdle, ShellP!CallbackIdle, Shell!CallIdle, ShellP!CallIdle,
       Shell!AcquireMain, ShellP!AcquireMain, Shell!UnlockMain, ShellP!UnlockMain,
       Shell!InitEnter, ShellP!InitEnter, Shell!InitWatch, ShellP!InitWatch, Shell!InitRoot,
       ShellP!InitRoot, Shell!Reachable, ShellP!Reachable, Shell!InitConfigure,
       ShellP!InitConfigure, Shell!InitSink, ShellP!InitSink, Shell!InitPublish,
       ShellP!InitPublish, Shell!InitMethods, ShellP!InitMethods, Shell!Initialize,
       ShellP!Initialize, Shell!ReleaseImplementation, ShellP!ReleaseImplementation,
       Shell!Terminate, ShellP!Terminate, Shell!FailReset, ShellP!FailReset,
       Shell!FailUnwatch, ShellP!FailUnwatch, Shell!InitializeFailure,
       ShellP!InitializeFailure, Shell!DeinitDetach, ShellP!DeinitDetach,
       Shell!DeinitUnwatch, ShellP!DeinitUnwatch, Shell!DeinitSink, ShellP!DeinitSink,
       Shell!DeinitMethods, ShellP!DeinitMethods, Shell!DeinitShell, ShellP!DeinitShell,
       Shell!DeinitDone, ShellP!DeinitDone, Shell!Deinitialize, ShellP!Deinitialize,
       Shell!AcquireCallback, ShellP!AcquireCallback, Shell!IsOurs, ShellP!IsOurs,
       Shell!DeactivatedCheck, ShellP!DeactivatedCheck, Shell!DeactivatedSubmit,
       ShellP!DeactivatedSubmit, Shell!DeactivatedRelease, ShellP!DeactivatedRelease,
       Shell!Deactivated, ShellP!Deactivated, Shell!InvokeMethod, ShellP!InvokeMethod,
       Shell!ReadImplementation, ShellP!ReadImplementation, Shell!ReturnFromMethod,
       ShellP!ReturnFromMethod, Shell!SetVoiceInitCall, ShellP!SetVoiceInitCall,
       Shell!Transition, ShellP!Transition, Shell!RunJob, ShellP!RunJob, Shell!Crash,
       ShellP!Crash, Shell!ForeignCloses, ShellP!ForeignCloses, Shell!Announce,
       ShellP!Announce, Shell!Framework, ShellP!Framework, Shell!Main, ShellP!Main,
       Shell!Callback, ShellP!Callback, Shell!Next, ShellP!Next
<1> QED BY <1>1, <1>2

LEMMA SameSession == (Session!Init <=> SessionP!Init) /\ (Session!Next <=> SessionP!Next)
<1>1. Session!Init <=> SessionP!Init
  BY DEF Session!Init, SessionP!Init
<1>2. Session!Next <=> SessionP!Next
  BY DEF
       Session!locals, SessionP!locals, Session!members, SessionP!members, Session!refused,
       SessionP!refused, Session!LocalsGone, SessionP!LocalsGone, Session!Disconnected,
       SessionP!Disconnected, Session!DeinitReturns, SessionP!DeinitReturns, Session!library,
       SessionP!library, Session!world, SessionP!world, Session!vars, SessionP!vars,
       Session!IsConnected, SessionP!IsConnected, Session!Configure, SessionP!Configure,
       Session!Probe, SessionP!Probe, Session!InitCheck, SessionP!InitCheck,
       Session!BusInit, SessionP!BusInit, Session!BusConnect, SessionP!BusConnect,
       Session!ConnectResult, SessionP!ConnectResult, Session!GiveUp, SessionP!GiveUp,
       Session!Retry, SessionP!Retry, Session!Own, SessionP!Own, Session!HandlerRegistered,
       SessionP!HandlerRegistered, Session!RegisterHandler, SessionP!RegisterHandler,
       Session!CheckConnection, SessionP!CheckConnection, Session!Destroy, SessionP!Destroy,
       Session!RemoveHandlers, SessionP!RemoveHandlers, Session!Disconnect,
       SessionP!Disconnect, Session!Term, SessionP!Term, Session!Step, SessionP!Step,
       Session!NextObject, SessionP!NextObject, Session!OthersMayAct, SessionP!OthersMayAct,
       Session!OtherConnects, SessionP!OtherConnects, Session!OtherLeaves,
       SessionP!OtherLeaves, Session!DaemonTurns, SessionP!DaemonTurns, Session!Next,
       SessionP!Next
<1> QED BY <1>1, <1>2

LEMMA PartsAssumptions == ShellP!ConstantsAssumption /\ SessionP!SessionAssumption
BY ConstantsAssumption, SystemAssumption
   DEF ConstantsAssumption, SystemAssumption, ShellP!ConstantsAssumption,
       SessionP!SessionAssumption, SessionP!Disturbances

-----------------------------------------------------------------------------
(* The invariants of the parts.                                            *)
PartsInv == ShellP!ControlInv /\ SessionP!SessionInv /\ ControlInv /\ ExclusiveInv

LEMMA PartsInit == SystemInit => PartsInv
BY SameShell, SameSession, PartsAssumptions, ShellP!ControlInit, SessionP!SessionInit, ControlInit,
   ExclusiveInit DEF SystemInit, PartsInv

(* A step of the system as a step of each part.                            *)
LEMMA PartsStep ==
  PartsInv /\ [SystemNext]_systemVars =>
    [ShellP!Next]_(ShellP!vars) /\ [SessionP!Next]_(SessionP!vars) /\ [Next]_vars
<1> SUFFICES ASSUME PartsInv, [SystemNext]_systemVars
             PROVE  [ShellP!Next]_(ShellP!vars) /\ [SessionP!Next]_(SessionP!vars) /\ [Next]_vars
  OBVIOUS
<1>1. (UNCHANGED shellVars => UNCHANGED ShellP!vars) /\ (UNCHANGED sessionVars => UNCHANGED SessionP!vars)
  BY DEF shellVars, sessionVars, ShellP!vars, ShellP!plugin, ShellP!frames, ShellP!held,
         ShellP!host, SessionP!vars, SessionP!locals, SessionP!members, SessionP!library,
         SessionP!refused, SessionP!world
<1>2. CASE SystemNext
  BY <1>1, <1>2, ShellNext, SessionStep, EventStep, SameShell, SameSession DEF PartsInv
<1>3. CASE UNCHANGED systemVars
  BY <1>1, <1>3 DEF systemVars
<1> QED BY <1>2, <1>3

LEMMA PartsNext == PartsInv /\ [SystemNext]_systemVars => PartsInv'
<1> SUFFICES ASSUME PartsInv, [SystemNext]_systemVars PROVE PartsInv'
  OBVIOUS
<1>1. [ShellP!Next]_(ShellP!vars) /\ [SessionP!Next]_(SessionP!vars) /\ [Next]_vars
  BY PartsStep
<1>2. ShellP!ControlInv'
  BY <1>1, PartsAssumptions, ShellP!ControlNext DEF PartsInv
<1>3. SessionP!SessionInv'
  BY <1>1, PartsAssumptions, SessionP!SessionNext DEF PartsInv
<1>4. ControlInv' /\ ExclusiveInv'
  BY <1>1, SystemAssumption, ControlNext, ExclusiveNext DEF SystemAssumption, PartsInv
<1> QED BY <1>2, <1>3, <1>4 DEF PartsInv

LEMMA PartsInvariance == SystemSpec => []PartsInv
BY PartsInit, PartsNext, PTL DEF SystemSpec

(* The system implements each of its parts: whatever the threads do to      *)
(* each other, the shell, the session and the events go on as their own    *)
(* modules say, and every property of those holds of the plugin.           *)
THEOREM SystemKeepsParts == SystemSpec => PartsKept
<1>1. SystemInit => Shell!Init /\ Init /\ Session!Init
  BY DEF SystemInit
<1>2. PartsInv /\ [SystemNext]_systemVars =>
        [Shell!Next]_(Shell!vars) /\ [Next]_vars /\ [Session!Next]_(Session!vars)
  <2>1. Shell!vars = ShellP!vars
    BY DEF Shell!vars, Shell!plugin, Shell!frames, Shell!held, Shell!host,
           ShellP!vars, ShellP!plugin, ShellP!frames, ShellP!held, ShellP!host
  <2>2. Session!vars = SessionP!vars
    BY DEF Session!vars, Session!locals, Session!members, Session!library, Session!refused, Session!world,
           SessionP!vars, SessionP!locals, SessionP!members, SessionP!library, SessionP!refused,
           SessionP!world
  <2>3. Shell!vars' = ShellP!vars' /\ Session!vars' = SessionP!vars'
    BY DEF Shell!vars, Shell!plugin, Shell!frames, Shell!held, Shell!host,
           ShellP!vars, ShellP!plugin, ShellP!frames, ShellP!held, ShellP!host,
           Session!vars, Session!locals, Session!members, Session!library, Session!refused, Session!world,
           SessionP!vars, SessionP!locals, SessionP!members, SessionP!library, SessionP!refused,
           SessionP!world
  <2> QED BY <2>1, <2>2, <2>3, PartsStep, SameShell, SameSession
<1>3. SystemSpec => Shell!Spec
  BY <1>1, <1>2, PartsInvariance, PTL DEF SystemSpec, Shell!Spec
<1>4. SystemSpec => Spec
  BY <1>1, <1>2, PartsInvariance, PTL DEF SystemSpec, Spec
<1>5. SystemSpec => Session!Spec
  BY <1>1, <1>2, PartsInvariance, PTL DEF SystemSpec, Session!Spec
<1> QED BY <1>3, <1>4, <1>5, PTL DEF PartsKept

(* The plugin, as the only client of its implementations, is one that       *)
(* EventDispatch assumes: no event reaches a sink that is gone.            *)
THEOREM SinksAlive == SystemSpec => []SinkAlive
<1>1. Spec => [](SinkAlive /\ ActivationServed)
  BY SystemAssumption, ExclusiveActivation DEF SystemAssumption
<1>2. SystemSpec => Spec
  BY SystemKeepsParts DEF PartsKept
<1> QED BY <1>1, <1>2, PTL

(* And the events of an active plugin are given to its implementation.     *)
THEOREM EventsServed == SystemSpec => []ActivationServed
<1>1. Spec => [](SinkAlive /\ ActivationServed)
  BY SystemAssumption, ExclusiveActivation DEF SystemAssumption
<1>2. SystemSpec => Spec
  BY SystemKeepsParts DEF PartsKept
<1> QED BY <1>1, <1>2, PTL

-----------------------------------------------------------------------------
(* The invariant that ties the parts to each other.                        *)

(* The implementation that the shell has a reference on, if any.           *)
Held == ShellP!Current

(* Initialize got past Configure, and Deinitialize has not released yet.    *)
Serving == ShellP!Active \/ main.pc \in {"iSink", "iPublish", "iMethods", "dUnwatch", "dSink", "dMethods"}

(* How far the shell is says how far the owner of its sink and the session  *)
(* of its implementation are.                                              *)
ConfiguringLink(s) ==
  main.pc = "iConfigure" =>
    /\ pc # "gone" /\ (pc \in {"remove", "disconnect", "term"} => after = "failed")
    /\ pc \in {"disconnect", "term", "failed"} => client[s].pc = "failed"
ServingLink(s) ==
  Serving =>
    /\ pc = "configured" /\ client[s].pc = "holding"
    /\ main.pc \notin {"iSink", "dMethods"} => s \in notifications[Held]
FailingLink(s) == main.pc = "fReset" => pc = "failed" /\ client[s].pc = "failed"
ReleasingLink(s) ==
  Releasing =>
    /\ client[s].pc \in {"failed", "holding", "detach"} => pc \in {"configured", "failed"}
    /\ client[s].pc = "unsubscribe" => pc \in {"remove", "failed"}
    /\ client[s].pc = "clear" => pc \in {"disconnect", "term", "gone", "failed"}
    /\ client[s].pc \notin {"fresh", "configuring"}

LinkInv ==
  /\ \A s \in Sink : client[s].pc \in Uses =>
       /\ Held # Null /\ client[s].instance = Held
       /\ ConfiguringLink(s) /\ ServingLink(s) /\ FailingLink(s) /\ ReleasingLink(s)
  /\ Held # Null => \E s \in Sink : client[s].pc \in Uses
  /\ Held = Null => pc \in {"idle", "failed", "gone"}
  /\ \A i \in Instance : object[i] = "live" => i = Held

(* Where the shell has an implementation.                                  *)
LEMMA WhereHeld ==
  ASSUME ShellP!ControlInv
  PROVE  /\ Held # Null <=> \/ Serving
                            \/ main.pc \in {"iConfigure", "fRelease", "dRelease"}
                            \/ main.pc = "fReset" /\ main.implementation # Null
         /\ Serving \/ main.pc \in {"iConfigure", "fReset", "fRelease", "dRelease"} =>
              Held \in Instance \cup {Null}
BY DEF Held, Serving, ShellP!Current, ShellP!UsesLocals, ShellP!Active, ShellP!ControlInv,
       ShellP!ControlTypeOK, ShellP!StateInv, ShellP!MembersInv, ShellP!LocalsInv,
       ShellP!InitializePoints, ShellP!FailurePoints, ShellP!DeinitPoints

LEMMA LinkInit == SystemInit => LinkInv
<1> SUFFICES ASSUME SystemInit PROVE LinkInv
  OBVIOUS
<1>1. main.pc = "idle" /\ state = "deactivated" /\ implementation = Null
  BY DEF SystemInit, Shell!Init, Shell!Idle
<1>2. Held = Null
  BY <1>1 DEF Held, ShellP!Current, ShellP!UsesLocals
<1>3. pc = "idle"
  BY DEF SystemInit, Session!Init
<1>4. /\ \A i \in Instance : object[i] = "unborn"
      /\ \A s \in Sink : client[s].pc = "new"
  BY SystemAssumption DEF SystemAssumption, SystemInit, Init
<1> QED BY <1>2, <1>3, <1>4 DEF LinkInv, Uses

(* Steps of the framework, of the bus and of others leave it alone.         *)
LEMMA LinkFrame ==
  ASSUME LinkInv, UNCHANGED <<pc, after, shellVars, client, notifications, object>>
  PROVE  LinkInv'
BY DEF LinkInv, shellVars, Held, Serving, Releasing, ShellP!Current, ShellP!UsesLocals, ShellP!Active,
       ConfiguringLink, ServingLink, FailingLink, ReleasingLink

LEMMA LinkWorld ==
  ASSUME PartsInv, LinkInv,
         Delete \/ Others \/ \E t \in Thread : BusDelivers(t) \/ HandlerRuns(t)
  PROVE  LinkInv'
<1>1. CASE Delete
  BY <1>1, LinkFrame DEF Delete, Drop, objects, sessionVars
<1>2. CASE Others
  BY <1>2, LinkFrame DEF Others, Session!OtherConnects, Session!OtherLeaves, vars, objects, lists
<1>3. ASSUME NEW t \in Thread, BusDelivers(t) \/ HandlerRuns(t) PROVE LinkInv'
  <2>1. UNCHANGED <<client, notifications, object>>
    BY <1>3 DEF BusDelivers, HandlerRuns, Deliver, Handler, EnterHandler, Snapshot, Call, Return,
                ReleaseSnapshot, ExitHandler, objects, lists
  <2> QED BY <1>3, <2>1, LinkFrame DEF BusDelivers, HandlerRuns, sessionVars
<1> QED BY <1>1, <1>2, <1>3

(* What the shell does alone leaves its implementation what it is, and goes *)
(* from one stage of serving or failing to the next.                       *)
Moves ==
  /\ Held' = Held /\ main'.pc # "iConfigure"
  /\ Serving' => Serving
  /\ Serving' /\ main'.pc \notin {"iSink", "dMethods"} => main.pc \notin {"iSink", "dMethods"}
  /\ main'.pc = "fReset" => main.pc = "fReset" \/ Held = Null
  /\ Releasing' => main.pc = "fReset" \/ main.pc = "dMethods"

LEMMA ShellMoves ==
  ASSUME ShellP!ControlInv, ShellStep \/ Activate
  PROVE  Moves
<1> USE ConstantsAssumption DEF ConstantsAssumption, Moves, Held, Serving, Releasing,
        ShellP!Current, ShellP!UsesLocals, ShellP!Active, Shell!Goto
<1>0. main \in [pc : {"idle"} \cup ShellP!InitializePoints \cup ShellP!FailurePoints \cup ShellP!DeinitPoints,
                implementation : Instance \cup {Null}, configure : Instance \cup {Null},
                connectionId : Instance \cup {Null}]
  BY DEF ShellP!ControlInv, ShellP!ControlTypeOK
<1>i. ShellP!StateInv /\ ShellP!MembersInv /\ ShellP!LocalsInv
  BY DEF ShellP!ControlInv
<1> USE DEF ShellP!InitializePoints, ShellP!FailurePoints, ShellP!DeinitPoints
<1>1. CASE Shell!AcquireMain
  BY <1>1 DEF Shell!AcquireMain, Shell!plugin, Shell!host, Shell!LockPoints
<1>2. CASE Shell!InitEnter \/ Shell!InitWatch
  BY <1>2, <1>0, <1>i DEF Shell!InitEnter, Shell!InitWatch, Shell!plugin, Shell!host,
       ShellP!StateInv, ShellP!MembersInv
<1>3. CASE Shell!InitPublish
  BY <1>3, <1>0 DEF Shell!InitPublish
<1>4. CASE Shell!InitMethods
  BY <1>4, <1>i DEF Shell!InitMethods, Shell!Idle, Shell!plugin, ShellP!LocalsInv
<1>5. CASE Shell!FailReset
  BY <1>5, <1>0, <1>i DEF Shell!FailReset, Shell!host, ShellP!StateInv, ShellP!MembersInv
<1>6. CASE Shell!Terminate("fTerminate", "fUnwatch") \/ Shell!Terminate("dTerminate", "dShell")
  BY <1>6, <1>0, <1>i DEF Shell!Terminate, Shell!plugin
<1>7. CASE Shell!FailUnwatch
  BY <1>7, <1>i DEF Shell!FailUnwatch, Shell!Idle, Shell!plugin
<1>8. CASE Shell!DeinitDetach
  <2>1. CASE service
    <3>1. Serving
      BY <1>8, <1>i, <2>1 DEF Shell!DeinitDetach, ShellP!MembersInv
    <3>2. main' = [pc |-> "dUnwatch", implementation |-> implementation,
                   configure |-> configure, connectionId |-> connectionId]
      BY <1>8, <2>1 DEF Shell!DeinitDetach
    <3> QED BY <1>8, <3>1, <3>2 DEF Shell!DeinitDetach
  <2>2. CASE ~service
    <3>1. main' = Shell!Idle /\ state' = "deactivated" /\ implementation' = implementation
      BY <1>8, <2>2 DEF Shell!DeinitDetach, Shell!plugin
    <3> QED BY <1>8, <3>1 DEF Shell!DeinitDetach, Shell!Idle
  <2> QED BY <2>1, <2>2
<1>9. CASE Shell!DeinitUnwatch
  BY <1>9, <1>0, <1>i DEF Shell!DeinitUnwatch, Shell!plugin, Shell!host, ShellP!LocalsInv
<1>10. CASE Shell!DeinitMethods
  BY <1>10, <1>0 DEF Shell!DeinitMethods, Shell!plugin, Shell!host
<1>11. CASE Shell!DeinitShell \/ Shell!DeinitDone
  BY <1>11, <1>0, <1>i DEF Shell!DeinitShell, Shell!DeinitDone, Shell!Idle, Shell!plugin, Shell!host
<1>12. CASE Shell!Transition
  BY <1>12, <1>0, <1>i DEF Shell!Transition, Shell!plugin, ShellP!MembersInv
<1> QED BY <1>1, <1>2, <1>3, <1>4, <1>5, <1>6, <1>7, <1>8, <1>9, <1>10, <1>11, <1>12
        DEF ShellStep, Activate

LEMMA LinkShell ==
  ASSUME PartsInv, LinkInv, ShellStep \/ Activate
  PROVE  LinkInv'
<1>1. UNCHANGED <<pc, after, client, notifications, object>>
  BY DEF ShellStep, Activate, vars, objects, lists, sessionVars
<1>2. Moves
  BY ShellMoves DEF PartsInv
<1>3. ASSUME NEW s \in Sink, client[s].pc \in Uses
      PROVE  ConfiguringLink(s)' /\ ServingLink(s)' /\ FailingLink(s)' /\ ReleasingLink(s)'
  <2>1. ConfiguringLink(s)'
    BY <1>2 DEF Moves, ConfiguringLink
  <2>2. ServingLink(s)'
    BY <1>1, <1>2, <1>3 DEF Moves, LinkInv, ServingLink
  <2>3. FailingLink(s)'
    BY <1>1, <1>2, <1>3 DEF Moves, LinkInv, FailingLink
  <2>4. ReleasingLink(s)'
    <3>1. CASE main.pc = "fReset"
      BY <1>1, <1>3, <3>1 DEF LinkInv, FailingLink, ReleasingLink
    <3>2. CASE main.pc = "dMethods"
      BY <1>1, <1>3, <3>2 DEF LinkInv, Serving, ServingLink, ReleasingLink
    <3> QED BY <1>2, <3>1, <3>2 DEF Moves, ReleasingLink
  <2> QED BY <2>1, <2>2, <2>3, <2>4
<1>4. Held' = Held
  BY <1>2 DEF Moves
<1> QED BY <1>1, <1>3, <1>4 DEF LinkInv

(* One activation at a time uses an implementation.                        *)
LEMMA OneBusy ==
  ASSUME PartsInv, NEW s \in Sink, NEW p \in Sink, client[s].pc \in Uses, client[p].pc \in Uses
  PROVE  s = p
BY SystemAssumption DEF SystemAssumption, PartsInv, ExclusiveInv, Uses

(* The types that the steps below rest on.                                 *)
LEMMA Types ==
  ASSUME PartsInv
  PROVE  /\ main \in [pc : {"idle"} \cup ShellP!InitializePoints \cup ShellP!FailurePoints
                             \cup ShellP!DeinitPoints,
                      implementation : Instance \cup {Null}, configure : Instance \cup {Null},
                      connectionId : Instance \cup {Null}]
         /\ client \in [Sink -> Owner] /\ notifications \in [Instance -> SUBSET Sink]
         /\ \A s \in Sink : client[s].pc \in Uses <=> client[s].pc \notin {"new", "out"}
<1>1. client \in [Sink -> Owner] /\ notifications \in [Instance -> SUBSET Sink]
  BY SystemAssumption DEF SystemAssumption, PartsInv, ControlInv, StateTypeOK
<1> QED BY <1>1 DEF PartsInv, ShellP!ControlInv, ShellP!ControlTypeOK, Owner, Uses

(* Root: a new object, held by the shell and used by one activation.        *)
LEMMA LinkRoot ==
  ASSUME PartsInv, PartsInv', LinkInv, Root
  PROVE  LinkInv'
<1> DEFINE i == main'.implementation
<1>1. main.pc = "iRoot" /\ Held = Null /\ UNCHANGED <<implementation, state>>
  BY WhereHeld DEF Root, Shell!InitRoot, Shell!plugin, PartsInv, Serving, ShellP!Active
<1>2. CASE main'.pc = "fReset" /\ UNCHANGED <<vars, sessionVars>>
  <2>1. main' = [main EXCEPT !.pc = "fReset"]
    BY <1>2, Types DEF Root, Shell!InitRoot
  <2>2. main.implementation = Null
    BY <1>1 DEF PartsInv, ShellP!ControlInv, ShellP!LocalsInv
  <2>3. Held' = Null
    BY <2>1, <2>2, Types DEF Held, ShellP!Current, ShellP!UsesLocals
  <2> QED BY <1>1, <1>2, <2>3 DEF LinkInv, vars, objects, lists, sessionVars
<1>3. ASSUME NEW s \in Sink, main'.pc = "iConfigure", Construct(s, i),
             IF pc = "idle" THEN UNCHANGED sessionVars ELSE Session!NextObject
      PROVE  LinkInv'
  <2>1. i \in Instance /\ Held' = i
    BY <1>1, <1>3, Types DEF Root, Shell!InitRoot, Held, ShellP!Current, ShellP!UsesLocals
  <2>2. pc' = "idle"
    BY <1>3 DEF Session!NextObject, sessionVars
  <2>3. \A p \in Sink : client'[p].pc \in Uses <=> p = s
    BY <1>1, <1>3, Types DEF Construct, LinkInv, Owner, Uses
  <2>4. client'[s] = [pc |-> "fresh", instance |-> i]
    BY <1>3, Types DEF Construct
  <2>5. \A j \in Instance : object'[j] = "live" => j = i
    BY <1>1, <1>3, <2>1, ConstantsAssumption
       DEF ConstantsAssumption, Construct, LinkInv, PartsInv, ControlInv, StateTypeOK
  <2>6. i # Null
    BY <2>1, ConstantsAssumption DEF ConstantsAssumption
  <2>7. ConfiguringLink(s)' /\ ServingLink(s)' /\ FailingLink(s)' /\ ReleasingLink(s)'
    BY <1>3, <2>2 DEF ConfiguringLink, ServingLink, FailingLink, ReleasingLink, Serving, Releasing,
                      ShellP!Active
  <2> QED BY <2>1, <2>3, <2>4, <2>5, <2>6, <2>7 DEF LinkInv
<1> QED BY <1>2, <1>3 DEF Root

(* A step that leaves the shell and who uses what alone keeps the relation  *)
(* if the stage it is at keeps it.                                         *)
LEMMA LinkStage ==
  ASSUME PartsInv, LinkInv, UNCHANGED shellVars, UNCHANGED object, Held # Null,
         NEW s \in Sink, client[s].pc \in Uses, client'[s].pc \in Uses,
         client'[s].instance = client[s].instance,
         \A p \in Sink \ {s} : client'[p] = client[p],
         ConfiguringLink(s)' /\ ServingLink(s)' /\ FailingLink(s)' /\ ReleasingLink(s)'
  PROVE  LinkInv'
<1>1. Held' = Held
  BY DEF Held, shellVars, ShellP!Current, ShellP!UsesLocals
<1>2. \A p \in Sink : client'[p].pc \in Uses => p = s
  BY OneBusy
<1> QED BY <1>1, <1>2 DEF LinkInv

LEMMA LinkConfiguring ==
  ASSUME PartsInv, LinkInv, NEW s \in Sink, Configuring(s)
  PROVE  LinkInv'
<1>1. /\ main.pc = "iConfigure" /\ UNCHANGED shellVars /\ client[s].pc \in Uses
      /\ main'.pc = "iConfigure"
  BY Types DEF Configuring, shellVars
<1>2. Held # Null /\ ConfiguringLink(s)
  BY <1>1 DEF LinkInv
<1>3. ServingLink(s)' /\ FailingLink(s)' /\ ReleasingLink(s)'
  BY <1>1 DEF ServingLink, FailingLink, ReleasingLink, Serving, Releasing, ShellP!Active
<1> SUFFICES /\ UNCHANGED object
             /\ client'[s].pc \in Uses /\ client'[s].instance = client[s].instance
             /\ \A p \in Sink \ {s} : client'[p] = client[p]
             /\ ConfiguringLink(s)'
  BY <1>1, <1>2, <1>3, LinkStage
<1> USE <1>1, <1>2, Types DEF ConfiguringLink
<1>4. CASE /\ \/ Session!Configure \/ Session!Probe \/ Session!InitCheck \/ Session!BusInit
              \/ Session!BusConnect \/ Session!ConnectResult \/ Session!Own
              \/ Session!CheckConnection
           /\ UNCHANGED vars
  BY <1>4 DEF Session!Configure, Session!Probe, Session!InitCheck, Session!BusInit,
       Session!BusConnect, Session!ConnectResult, Session!Own, Session!CheckConnection,
       vars, objects
<1>5. CASE (Session!Disconnect \/ Session!Term) /\ UNCHANGED vars
  BY <1>5 DEF Session!Disconnect, Session!Term, Session!DeinitReturns, vars, objects
<1>6. CASE Session!Retry /\ (IF pc' = "failed" THEN ConfigureFails(s) ELSE UNCHANGED vars)
  BY <1>6 DEF Session!Retry, Session!GiveUp, ConfigureFails, vars, objects, Owner, Uses
<1>7. CASE /\ Session!RegisterHandler
           /\ IF handlersRegistered = 0 /\ handlersRegistered' = 1 THEN Subscribe(s)
                                                                   ELSE UNCHANGED vars
  BY <1>7 DEF Session!RegisterHandler, Session!HandlerRegistered, Subscribe, vars, objects, Owner, Uses
<1>8. CASE Session!RemoveHandlers /\ ConfigureFails(s)
  BY <1>8 DEF Session!RemoveHandlers, ConfigureFails, Owner, Uses
<1> QED BY <1>4, <1>5, <1>6, <1>7, <1>8 DEF Configuring

(* Configure has returned: the stage that follows is the session's result.  *)
LEMMA LinkReturned ==
  ASSUME PartsInv, PartsInv', LinkInv, NEW s \in Sink, ConfigureReturned(s)
  PROVE  LinkInv'
<1>1. main.pc = "iConfigure" /\ Held = main.implementation /\ Held # Null
  BY WhereHeld DEF ConfigureReturned, Shell!InitConfigure, PartsInv, Held, ShellP!Current, ShellP!UsesLocals
<1>2. PICK p \in Sink : client[p].pc \in Uses
  BY <1>1 DEF LinkInv
<1>3. client[p].instance = Held /\ ConfiguringLink(p)
  BY <1>2 DEF LinkInv
<1>4. main'.implementation = main.implementation
  BY Types DEF ConfigureReturned, Shell!InitConfigure
<1>5. UNCHANGED <<pc, after, object, notifications>>
  BY DEF ConfigureReturned, Configured, vars, objects, lists, sessionVars
<1>6. CASE pc = "configured" /\ main'.pc = "iSink" /\ Configured(s)
  <2>1. s = p
    BY <1>2, <1>6, OneBusy DEF Configured, Uses
  <2>2. client' = [client EXCEPT ![s].pc = "holding"]
    BY <1>6 DEF Configured
  <2>3. Held' = Held
    BY <1>1, <1>4, <1>6 DEF Held, ShellP!Current, ShellP!UsesLocals
  <2>4. ConfiguringLink(s)' /\ ServingLink(s)' /\ FailingLink(s)' /\ ReleasingLink(s)'
    BY <1>5, <1>6, <2>2, Types DEF Owner, ConfiguringLink, ServingLink, FailingLink, ReleasingLink, Releasing
  <2>5. \A q \in Sink : client'[q].pc \in Uses => q = s
    BY <1>2, <2>1, <2>2, OneBusy, Types
  <2>6. client'[s].pc = "holding" /\ client'[s].instance = Held
    BY <1>3, <2>1, <2>2, Types DEF Owner
  <2> QED BY <1>1, <1>5, <2>3, <2>4, <2>5, <2>6 DEF LinkInv, Uses
<1>7. CASE pc = "failed" /\ main'.pc = "fReset" /\ UNCHANGED vars
  <2>1. Held' = Held
    BY <1>1, <1>4, <1>7 DEF Held, ShellP!Current, ShellP!UsesLocals
  <2>2. UNCHANGED client /\ client[p].pc = "failed"
    BY <1>1, <1>3, <1>7 DEF vars, ConfiguringLink
  <2>3. ConfiguringLink(p)' /\ ServingLink(p)' /\ FailingLink(p)' /\ ReleasingLink(p)'
    BY <1>5, <1>7, <2>2 DEF ConfiguringLink, ServingLink, FailingLink, ReleasingLink, Releasing,
                            Serving, ShellP!Active
  <2> QED BY <1>2, <1>1, <1>5, <2>1, <2>2, <2>3, OneBusy DEF LinkInv
<1> QED BY <1>6, <1>7 DEF ConfigureReturned

(* The sink is registered while the implementation serves.                 *)
LEMMA LinkSink ==
  ASSUME PartsInv, PartsInv', LinkInv, NEW s \in Sink, RegisterSink(s) \/ UnregisterSink(s)
  PROVE  LinkInv'
<1> DEFINE i == main.implementation
<1>1. client[s].pc = "holding" /\ UNCHANGED <<pc, after, client, object>>
  BY DEF RegisterSink, UnregisterSink, Register, Unregister, objects, sessionVars
<1>2. Held # Null /\ client[s].instance = Held
  BY <1>1 DEF LinkInv, Uses
<1>3. main.pc \in {"iSink", "dSink"} /\ Held = i
  BY DEF RegisterSink, UnregisterSink, Shell!InitSink, Shell!DeinitSink, Shell!Goto,
         Held, ShellP!Current, ShellP!UsesLocals
<1>4. i \in Instance /\ process[i] = "local"
  BY <1>2, <1>3, ConstantsAssumption, Types
     DEF ConstantsAssumption, PartsInv, ShellP!ControlInv, ShellP!ControlTypeOK, ShellP!ProcessInv, Held
<1>5. /\ main'.implementation = i
      /\ \/ main.pc = "iSink" /\ main'.pc = "iPublish" /\ Register(s)
         \/ main.pc = "dSink" /\ main'.pc = "dMethods" /\ UNCHANGED sessionVars
  BY <1>3, <1>4, Types DEF RegisterSink, UnregisterSink, Shell!InitSink, Shell!DeinitSink, Shell!Goto,
         Shell!Reachable
<1>6. Held' = Held /\ Serving
  BY <1>3, <1>5 DEF Held, ShellP!Current, ShellP!UsesLocals, Serving
<1>7. main'.pc = "iPublish" => s \in notifications'[Held]
  BY <1>2, <1>3, <1>4, <1>5, Types DEF Register
<1>8. pc = "configured"
  BY <1>1, <1>6 DEF LinkInv, ServingLink, Uses
<1>9. ConfiguringLink(s)' /\ ServingLink(s)' /\ FailingLink(s)' /\ ReleasingLink(s)'
  BY <1>1, <1>5, <1>6, <1>7, <1>8 DEF ConfiguringLink, ServingLink, FailingLink, ReleasingLink, Releasing
<1> QED BY <1>1, <1>2, <1>6, <1>9, OneBusy DEF LinkInv, Uses

(* The last reference: the destructor begins, and goes on stage by stage.   *)
LEMMA LinkDestructor ==
  ASSUME PartsInv, LinkInv, NEW s \in Sink,
         LastRelease(s) \/ Unpublish(s) \/ RemoveAll(s)
  PROVE  LinkInv'
<1>1. Releasing /\ UNCHANGED <<shellVars, object>> /\ client[s].pc \in Uses
  BY Types DEF LastRelease, Unpublish, RemoveAll, Release, Detach, Unsubscribe, objects, Uses
<1>2. Held # Null /\ ReleasingLink(s)
  BY <1>1 DEF LinkInv
<1>3. ConfiguringLink(s)' /\ ServingLink(s)' /\ FailingLink(s)'
  BY <1>1 DEF ConfiguringLink, ServingLink, FailingLink, Serving, Releasing, ShellP!Active, shellVars
<1> SUFFICES /\ client'[s].pc \in Uses /\ client'[s].instance = client[s].instance
             /\ \A p \in Sink \ {s} : client'[p] = client[p]
             /\ ReleasingLink(s)'
  BY <1>1, <1>2, <1>3, LinkStage
<1> USE <1>1, <1>2, Types DEF ReleasingLink, Owner, Uses
<1>4. CASE LastRelease(s)
  <2>1. \A p \in Observer \ {s} : client[p] # [pc |-> "holding", instance |-> client[s].instance]
    BY <1>4, SystemAssumption, OneBusy DEF SystemAssumption
  <2>2. client' = [client EXCEPT ![s].pc = "detach"]
    BY <1>4, <2>1 DEF LastRelease, Release
  <2>3. pc' = pc /\ client[s].pc \in {"failed", "holding"}
    BY <1>4 DEF LastRelease, Release, sessionVars
  <2> QED BY <2>2, <2>3
<1>5. CASE Unpublish(s)
  BY <1>5 DEF Unpublish, Detach, Session!Destroy, sessionVars
<1>6. CASE RemoveAll(s)
  BY <1>6 DEF RemoveAll, Unsubscribe, Session!RemoveHandlers, sessionVars
<1> QED BY <1>4, <1>5, <1>6

LEMMA LinkLeaveBus ==
  ASSUME PartsInv, LinkInv, LeaveBus
  PROVE  LinkInv'
<1>1. /\ Releasing /\ UNCHANGED <<shellVars, client, object>> /\ pc \in {"disconnect", "term"}
      /\ pc' \in {"term", after}
  BY DEF LeaveBus, Session!Disconnect, Session!Term, Session!DeinitReturns, vars, objects
<1>2. pc' \in {"term", "gone", "failed"}
  BY <1>1 DEF PartsInv, SessionP!SessionInv, SessionP!TypeOK
<1>3. Held # Null
  BY <1>1 DEF LinkInv
<1>4. PICK s \in Sink : client[s].pc \in Uses
  BY <1>3 DEF LinkInv
<1>5. client[s].pc = "clear"
  BY <1>1, <1>4, Types DEF LinkInv, ReleasingLink, Owner, Uses
<1>6. ConfiguringLink(s)' /\ ServingLink(s)' /\ FailingLink(s)' /\ ReleasingLink(s)'
  BY <1>1, <1>2, <1>5 DEF ConfiguringLink, ServingLink, FailingLink, ReleasingLink, Serving,
       Releasing, ShellP!Active, shellVars
<1> QED BY <1>1, <1>3, <1>4, <1>6, LinkStage

(* The object is freed and the shell has let go of it, in one step.         *)
LEMMA LinkFreed ==
  ASSUME PartsInv, PartsInv', LinkInv, NEW s \in Sink, Freed(s)
  PROVE  LinkInv'
<1>1. /\ client[s].pc = "clear" /\ client' = [client EXCEPT ![s].pc = "out"]
      /\ object' = [object EXCEPT ![client[s].instance] = "freed"]
      /\ main'.pc \in {"fTerminate", "dTerminate"} /\ pc' = pc /\ pc \in {"failed", "gone"}
  BY Types DEF Freed, Destroy, Shell!ReleaseImplementation, Shell!Goto, sessionVars
<1>2. Held' = Null
  BY <1>1, WhereHeld DEF PartsInv, Serving, ShellP!Active, Held, ShellP!Current, ShellP!UsesLocals,
       ShellP!ControlInv, ShellP!MembersInv, ShellP!StateInv
<1>3. \A p \in Sink : client'[p].pc \notin Uses
  BY <1>1, OneBusy, Types DEF Uses, Owner
<1>4. \A i \in Instance : object'[i] # "live"
  <2>1. client[s].instance = Held
    BY <1>1 DEF LinkInv, Uses
  <2>2. object \in [Instance -> {"unborn", "live", "freed"}]
    BY DEF PartsInv, ControlInv, StateTypeOK
  <2> QED BY <1>1, <2>1, <2>2 DEF LinkInv
<1> QED BY <1>1, <1>2, <1>3, <1>4 DEF LinkInv

LEMMA LinkNext == PartsInv /\ PartsInv' /\ LinkInv /\ [SystemNext]_systemVars => LinkInv'
<1> SUFFICES ASSUME PartsInv, PartsInv', LinkInv, [SystemNext]_systemVars PROVE LinkInv'
  OBVIOUS
<1>1. CASE ShellStep \/ Activate
  BY <1>1, LinkShell
<1>2. CASE Root
  BY <1>2, LinkRoot
<1>3. ASSUME NEW s \in Sink,
             Configuring(s) \/ ConfigureReturned(s) \/ RegisterSink(s) \/ UnregisterSink(s)
      PROVE  LinkInv'
  BY <1>3, LinkConfiguring, LinkReturned, LinkSink
<1>4. ASSUME NEW s \in Sink, ReleaseImplementation(s) PROVE LinkInv'
  BY <1>4, LinkDestructor, LinkLeaveBus, LinkFreed DEF ReleaseImplementation
<1>5. CASE Delete \/ Others \/ \E t \in Thread : BusDelivers(t) \/ HandlerRuns(t)
  BY <1>5, LinkWorld
<1>6. CASE UNCHANGED systemVars
  BY <1>6, LinkFrame DEF systemVars, vars, sessionVars, objects, lists
<1> QED BY <1>1, <1>2, <1>3, <1>4, <1>5, <1>6 DEF SystemNext, MainStep

LEMMA SystemInvariance == SystemSpec => [](PartsInv /\ LinkInv)
BY PartsInit, PartsNext, LinkInit, LinkNext, PTL DEF SystemSpec

-----------------------------------------------------------------------------
(* Once Initialize has succeeded, every event of the bus reaches the sink   *)
(* of this activation: the handlers, the instance and the list of          *)
(* observers are all its own.                                              *)
THEOREM ActivationCompletes == SystemSpec => []ActivationComplete
<1>1. PartsInv /\ LinkInv => ActivationComplete
  <2> SUFFICES ASSUME PartsInv, LinkInv, main.pc = "idle", state = "activated"
               PROVE  /\ pc = "configured" /\ (maker = "self" => registered = 1 .. Handlers)
                      /\ instance = implementation /\ object[implementation] = "live"
                      /\ \E s \in notifications[implementation] : owned[s]
    BY DEF ActivationComplete
  <2>1. Serving /\ Held = implementation /\ Held # Null
    BY WhereHeld DEF PartsInv, Serving, ShellP!Active, Held, ShellP!Current, ShellP!UsesLocals
  <2>2. PICK s \in Sink : client[s].pc \in Uses
    BY <2>1 DEF LinkInv
  <2>3. /\ pc = "configured" /\ client[s].pc = "holding" /\ client[s].instance = implementation
        /\ s \in notifications[implementation]
    BY <2>1, <2>2 DEF LinkInv, ServingLink
  <2>4. instance = implementation /\ owned[s]
    BY <2>3, SystemAssumption DEF SystemAssumption, PartsInv, ExclusiveInv, Uses
  <2>5. object[implementation] = "live"
    BY <2>1, <2>4 DEF PartsInv, ControlInv, ObjectInv
  <2>6. maker = "self" => registered = 1 .. Handlers
    BY <2>3 DEF PartsInv, SessionP!SessionInv, SessionP!HandlersInv, SessionP!TypeOK
  <2> QED BY <2>3, <2>4, <2>5, <2>6
<1> QED BY <1>1, SystemInvariance, PTL

(* Once Deinitialize, or an Initialize that failed, has returned, nothing   *)
(* of the activation is left in any of the parts, and on the bus only what *)
(* the bus refused to give up.                                             *)
THEOREM DeactivationCompletes == SystemSpec => []DeactivationComplete
<1>1. PartsInv /\ LinkInv => DeactivationComplete
  <2> SUFFICES ASSUME PartsInv, LinkInv, main.pc = "idle", state # "activated"
               PROVE  /\ registered \subseteq unremoved /\ (maker = "self" => unended)
                      /\ instance = Null /\ ~implService
                      /\ \A i \in Instance : object[i] # "live" /\ notifications[i] = {}
                      /\ \A t \in Thread : thread[t].instance = Null
    BY DEF DeactivationComplete
  <2>1. Held = Null
    BY WhereHeld DEF PartsInv, Serving, ShellP!Active
  <2>2. pc \in {"idle", "failed", "gone"}
    BY <2>1 DEF LinkInv
  <2>3. registered \subseteq unremoved
    <3>1. handlersRegistered = 0
      BY <2>2 DEF PartsInv, SessionP!SessionInv, SessionP!HandlersInv
    <3> QED BY <3>1 DEF PartsInv, SessionP!SessionInv, SessionP!HandlersInv
  <2>4. ~implService
    BY <2>2 DEF PartsInv, SessionP!SessionInv, SessionP!ObjectInv, SessionP!Outside
  <2>5. \A i \in Instance : object[i] # "live"
    BY <2>1, ConstantsAssumption DEF ConstantsAssumption, LinkInv
  <2>6. instance = Null
    BY <2>5 DEF PartsInv, ControlInv, StateTypeOK, ObjectInv
  <2>7. \A s \in Sink : client[s].pc \notin Uses
    BY <2>1 DEF LinkInv
  <2>8. \A i \in Instance : notifications[i] = {}
    BY <2>7, SystemAssumption DEF SystemAssumption, PartsInv, ControlInv, StateTypeOK, ExclusiveInv, Uses
  <2>9. \A t \in Thread : thread[t].instance = Null
    BY <2>6 DEF PartsInv, ControlInv, InstanceAlive
  <2>10. maker = "self" => unended
    <3>1. environment = {"shared"}
      BY DEF PartsInv, SessionP!SessionInv, SessionP!TypeOK
    <3>2. SessionP!Steady
      BY <3>1 DEF SessionP!Steady
    <3> QED BY <2>2, <3>2 DEF PartsInv, SessionP!SessionInv, SessionP!SteadyInv, SessionP!Outside
  <2> QED BY <2>3, <2>4, <2>5, <2>6, <2>8, <2>9, <2>10
<1> QED BY <1>1, SystemInvariance, PTL

-----------------------------------------------------------------------------
(* The two locks.                                                          *)

(* A bus thread has the library's lock exactly while it is in a handler,    *)
(* when the library keeps that lock.                                       *)
BusInv ==
  /\ busLock \in Thread \cup {Null}
  /\ IF busLocks THEN \A t \in Thread : thread[t].pc # "idle" <=> busLock = t
                 ELSE busLock = Null

(* The lock of the library changes hands with the handlers only.            *)
LEMMA BusNext == ControlInv /\ BusInv /\ [SystemNext]_systemVars => BusInv'
<1> SUFFICES ASSUME ControlInv, BusInv, [SystemNext]_systemVars PROVE BusInv'
  OBVIOUS
<1> USE ConstantsAssumption DEF ConstantsAssumption
<1>1. ASSUME UNCHANGED <<thread, busLocks, busLock>> PROVE BusInv'
  BY <1>1 DEF BusInv
<1>2. ASSUME MainStep \/ ((Activate \/ Delete \/ Others) /\ UNCHANGED busLocks)
      PROVE  UNCHANGED <<thread, busLocks, busLock>>
  <2>1. CASE MainStep
    BY <2>1 DEF MainStep, ShellStep, Root, Configuring, ConfigureReturned, RegisterSink,
       UnregisterSink, ReleaseImplementation, LastRelease, Unpublish, RemoveAll, LeaveBus, Freed,
       Construct, ConfigureFails, Subscribe, Configured, Register, Unregister, Release, Detach,
       Unsubscribe, Destroy, vars
  <2>2. CASE (Activate \/ Delete \/ Others) /\ UNCHANGED busLocks
    BY <2>2 DEF Activate, Delete, Others, Drop, vars
  <2> QED BY <1>2, <2>1, <2>2
<1>3. ASSUME NEW t \in Thread, BusDelivers(t), UNCHANGED busLocks PROVE BusInv'
  <2>1. /\ thread \in [Thread -> Frame] /\ thread'[t].pc = "enter" /\ busLock = Null
        /\ \A u \in Thread \ {t} : thread'[u] = thread[u]
        /\ busLock' = IF busLocks THEN t ELSE Null
    BY <1>3 DEF BusDelivers, BusFree, Deliver, ControlInv, StateTypeOK, Frame
  <2> QED BY <1>3, <2>1 DEF BusInv
<1>4. ASSUME NEW t \in Thread, HandlerRuns(t) PROVE BusInv'
  <2>1. /\ thread \in [Thread -> Frame] /\ thread[t].pc # "idle" /\ busLocks' = busLocks
        /\ \A u \in Thread \ {t} : thread'[u] = thread[u]
        /\ busLock' = IF thread'[t].pc = "idle" THEN Null ELSE busLock
    BY <1>4 DEF HandlerRuns, Handler, EnterHandler, Snapshot, Call, Return, ReleaseSnapshot,
       ExitHandler, ControlInv, StateTypeOK, FrameInv
  <2> QED BY <2>1 DEF BusInv
<1>5. CASE UNCHANGED systemVars
  BY <1>1, <1>5 DEF systemVars, vars
<1> QED BY <1>1, <1>2, <1>3, <1>4, <1>5 DEF SystemNext

(* Main and the bus threads never wait for each other's locks in a circle,  *)
(* whether or not the library locks its callbacks against its calls.       *)
THEOREM LocksUncircular == SystemSpec => []NoCircularWait
<1>1. SystemInit => BusInv
  BY ConstantsAssumption DEF ConstantsAssumption, SystemInit, Init, IdleThread, BusInv
<1>2. ControlInv /\ BusInv => NoCircularWait
  <2> SUFFICES ASSUME ControlInv, BusInv PROVE NoCircularWait
    OBVIOUS
  <2>1. instanceLock # Null =>
          instanceLock \in Thread /\ thread[instanceLock].pc \in {"snapshot", "notify", "exit"}
    BY DEF ControlInv, StateTypeOK, LockInv
  <2>2. busLock # Null =>
          busLock \in Thread /\ \A t \in Thread : thread[t].pc # "idle" <=> busLock = t
    BY DEF BusInv
  <2> QED BY <2>1, <2>2 DEF NoCircularWait
<1> QED BY <1>1, <1>2, BusNext, PartsInvariance, PTL DEF SystemSpec, PartsInv

-----------------------------------------------------------------------------
(* The refinement of VoiceService.                                         *)

(* What an event that begins now is for, without an implementation.         *)
LEMMA NobodyListens ==
  ASSUME PartsInv, LinkInv, \A s \in Sink : client[s].pc # "holding"
  PROVE  /\ \A i \in Instance : notifications[i] = {}
         /\ Listening = {}
<1>1. \A i \in Instance : notifications[i] = {}
  BY SystemAssumption, Types DEF SystemAssumption, PartsInv, ExclusiveInv
<1> QED BY <1>1 DEF Listening, PartsInv, ControlInv, StateTypeOK

LEMMA NothingHeld ==
  ASSUME PartsInv, LinkInv, Held = Null
  PROVE  instance = Null /\ Listening = {} /\ Current = 0
<1>1. instance = Null
  BY ConstantsAssumption DEF ConstantsAssumption, LinkInv, PartsInv, ControlInv, StateTypeOK, ObjectInv
<1>2. ~Notifying
  BY <1>1 DEF Notifying, PartsInv, ControlInv, StateTypeOK, FrameInv, InstanceAlive
<1> QED BY <1>1, <1>2 DEF Listening, Current

(* The sink of the plugin listens once it is registered.                    *)
LEMMA SinkListens ==
  ASSUME PartsInv, LinkInv, Serving, main.pc \notin {"iSink", "dMethods"}
  PROVE  Listening # {}
<1>1. Held # Null
  BY WhereHeld DEF PartsInv
<1>2. PICK s \in Sink : client[s].pc \in Uses
  BY <1>1 DEF LinkInv
<1>3. client[s].pc = "holding" /\ client[s].instance = Held /\ s \in notifications[Held]
  BY <1>2 DEF LinkInv, ServingLink
<1>4. instance = Held
  BY <1>3, SystemAssumption DEF SystemAssumption, PartsInv, ExclusiveInv, Uses
<1> QED BY <1>1, <1>3, <1>4 DEF Listening

(* Off is where the shell has no implementation.                           *)
LEMMA OffHoldsNothing ==
  ASSUME PartsInv, Phase = "off" \/ main.pc \in {"fUnwatch", "dDone"}
  PROVE  Held = Null
<1>1. main.pc \in {"idle"} \cup ShellP!InitializePoints \cup ShellP!FailurePoints \cup ShellP!DeinitPoints
  BY Types
<1> QED BY <1>1, WhereHeld DEF PartsInv, Phase, Serving, ShellP!Active,
       Shell!InitializePoints, Shell!FailurePoints, Shell!DeinitPoints,
       ShellP!InitializePoints, ShellP!FailurePoints, ShellP!DeinitPoints

(* How the shell alone switches the service.                               *)
PhaseMoves ==
  \/ Phase' = Phase
  \/ Phase = "off" /\ Phase' = "starting"
  \/ Phase = "starting" /\ Phase' = "on" /\ main.pc = "iMethods"
  \/ Phase = "on" /\ Phase' = "stopping"
  \/ Phase \in {"starting", "stopping"} /\ Phase' = "off" /\ main.pc \in {"fUnwatch", "dDone"}

LEMMA PhaseStep ==
  ASSUME ShellP!ControlInv, ShellStep \/ Activate
  PROVE  PhaseMoves
<1> USE DEF PhaseMoves, Phase, Shell!InitializePoints, Shell!FailurePoints, Shell!DeinitPoints, Shell!Goto
<1>0. main \in [pc : {"idle"} \cup ShellP!InitializePoints \cup ShellP!FailurePoints \cup ShellP!DeinitPoints,
                implementation : Instance \cup {Null}, configure : Instance \cup {Null},
                connectionId : Instance \cup {Null}]
  BY DEF ShellP!ControlInv, ShellP!ControlTypeOK
<1>i. ShellP!StateInv /\ ShellP!MembersInv
  BY DEF ShellP!ControlInv
<1> USE DEF ShellP!InitializePoints, ShellP!FailurePoints, ShellP!DeinitPoints
<1>1. CASE Shell!AcquireMain
  BY <1>1 DEF Shell!AcquireMain, Shell!host
<1>2. CASE Shell!InitEnter \/ Shell!InitWatch \/ Shell!InitPublish
  BY <1>2, <1>0 DEF Shell!InitEnter, Shell!InitWatch, Shell!InitPublish
<1>3. CASE Shell!InitMethods
  BY <1>3 DEF Shell!InitMethods, Shell!Idle
<1>4. CASE Shell!FailReset
  BY <1>4, <1>0 DEF Shell!FailReset
<1>5. CASE Shell!Terminate("fTerminate", "fUnwatch") \/ Shell!Terminate("dTerminate", "dShell")
  BY <1>5, <1>0 DEF Shell!Terminate
<1>6. CASE Shell!FailUnwatch
  BY <1>6 DEF Shell!FailUnwatch, Shell!Idle
<1>7. CASE Shell!DeinitDetach
  <2>1. CASE service
    <3>1. main.pc = "dDetach" /\ state = "activated" /\ main'.pc = "dUnwatch"
      BY <1>7, <1>i, <2>1 DEF Shell!DeinitDetach, ShellP!MembersInv, ShellP!Active
    <3> QED BY <3>1
  <2>2. CASE ~service
    <3>1. main.pc = "dDetach" /\ state # "activated" /\ main'.pc = "idle" /\ state' = "deactivated"
      BY <1>7, <1>i, <2>2 DEF Shell!DeinitDetach, Shell!Idle, ShellP!MembersInv, ShellP!Active
    <3> QED BY <3>1
  <2> QED BY <2>1, <2>2
<1>8. CASE Shell!DeinitUnwatch \/ Shell!DeinitMethods \/ Shell!DeinitShell
  BY <1>8, <1>0 DEF Shell!DeinitUnwatch, Shell!DeinitMethods, Shell!DeinitShell
<1>9. CASE Shell!DeinitDone
  BY <1>9 DEF Shell!DeinitDone, Shell!Idle
<1>10. CASE Shell!Transition
  BY <1>10, <1>0 DEF Shell!Transition
<1> QED BY <1>1, <1>2, <1>3, <1>4, <1>5, <1>6, <1>7, <1>8, <1>9, <1>10 DEF ShellStep, Activate

(* So the shell's own steps are those of the service that switch it.        *)
LEMMA ServiceSwitch ==
  ASSUME PartsInv, LinkInv, ShellStep \/ Activate
  PROVE  Service!Start \/ Service!Ready \/ Service!Stop \/ Service!Stopped \/ UNCHANGED Service!vars
<1>1. PhaseMoves
  BY PhaseStep DEF PartsInv
<1>2. UNCHANGED <<Listening, Current, Pending, Count, last>>
  BY FeedStill DEF ShellStep, Activate, vars, objects, lists, Listening
<1>3. main.pc = "iMethods" => Listening # {}
  BY SinkListens DEF Serving
<1>4. main.pc \in {"fUnwatch", "dDone"} => Listening = {} /\ Current = 0
  BY NothingHeld, OffHoldsNothing
<1> QED BY <1>1, <1>2, <1>3, <1>4 DEF PhaseMoves, Service!Start, Service!Ready, Service!Stop,
           Service!Stopped, Service!vars, Service!feed

(* A step that leaves the phase, the bus threads and the list of the        *)
(* instance alone is none of the service's.                                *)
LEMMA ServiceStill ==
  ASSUME UNCHANGED <<Phase, Listening, thread, instanceLock, sent, last>>
  PROVE  UNCHANGED Service!vars
BY FeedStill DEF Service!vars, Service!feed

(* Root makes an implementation that nobody is on the list of.              *)
LEMMA ServiceRoot ==
  ASSUME PartsInv, LinkInv, Root
  PROVE  UNCHANGED Service!vars
<1>1. main.pc = "iRoot" /\ main'.pc \in {"iConfigure", "fReset"}
  BY Types DEF Root, Shell!InitRoot
<1>2. Phase' = Phase
  BY <1>1 DEF Phase, Shell!InitializePoints, Shell!FailurePoints, Shell!DeinitPoints
<1>3. Held = Null
  BY <1>1, WhereHeld DEF PartsInv, Serving, ShellP!Active
<1>4. \A s \in Sink : client[s].pc \notin Uses
  BY <1>3 DEF LinkInv
<1>5. \A i \in Instance : notifications[i] = {}
  BY <1>4, NobodyListens DEF Uses
<1>6. CASE UNCHANGED vars
  BY <1>2, <1>6, ServiceStill DEF vars, objects, lists, Listening
<1>7. ASSUME NEW s \in Sink, main'.pc = "iConfigure", Construct(s, main'.implementation)
      PROVE  UNCHANGED Service!vars
  <2>1. main'.implementation \in Instance
    BY <1>7, Types DEF Root, Shell!InitRoot
  <2>2. instance' \in Instance /\ UNCHANGED <<notifications, thread, instanceLock, sent, last>>
    BY <1>7, <2>1 DEF Construct, lists
  <2>3. Listening = {} /\ Listening' = {}
    BY <1>3, <1>5, <2>2, NothingHeld DEF Listening
  <2> QED BY <1>2, <2>2, <2>3, ServiceStill
<1> QED BY <1>6, <1>7 DEF Root

(* Configure, and the destructor until the object is freed, tell nobody:    *)
(* the destructor unpublishes an object that has no observer any more.      *)
LEMMA ServiceQuiet ==
  ASSUME PartsInv, LinkInv, NEW s \in Sink,
         Configuring(s) \/ ConfigureReturned(s) \/ ReleaseImplementation(s)
  PROVE  UNCHANGED Service!vars
<1> USE DEF Phase, Shell!InitializePoints, Shell!FailurePoints, Shell!DeinitPoints
<1>1. CASE Configuring(s)
  <2>1. UNCHANGED <<instance, notifications, thread, instanceLock, sent, last, shellVars>>
    BY <1>1 DEF Configuring, ConfigureFails, Subscribe, vars, objects, lists
  <2> QED BY <2>1, ServiceStill DEF Listening, shellVars
<1>2. CASE ConfigureReturned(s)
  <2>1. main.pc = "iConfigure" /\ main'.pc \in {"iSink", "fReset"}
    BY <1>2 DEF ConfigureReturned, Shell!InitConfigure
  <2>2. UNCHANGED <<instance, notifications, thread, instanceLock, sent, last>>
    BY <1>2 DEF ConfigureReturned, Configured, vars, objects, lists
  <2> QED BY <2>1, <2>2, ServiceStill DEF Listening
<1>3. CASE LastRelease(s) \/ RemoveAll(s) \/ LeaveBus
  <2>1. UNCHANGED <<instance, notifications, thread, instanceLock, sent, last, shellVars>>
    BY <1>3 DEF LastRelease, RemoveAll, LeaveBus, Release, Unsubscribe, vars, objects, lists
  <2> QED BY <2>1, ServiceStill DEF Listening, shellVars
<1>4. CASE Unpublish(s)
  <2>1. client[s].pc = "detach" /\ instance' = Null
        /\ UNCHANGED <<notifications, thread, instanceLock, sent, last, shellVars>>
    BY <1>4 DEF Unpublish, Detach, lists
  <2>2. \A p \in Sink : client[p].pc # "holding"
    BY <2>1, OneBusy DEF Uses
  <2>3. Listening = {} /\ Listening' = {}
    BY <2>1, <2>2, NobodyListens DEF Listening
  <2> QED BY <2>1, <2>3, ServiceStill DEF shellVars
<1>5. CASE Freed(s)
  <2>1. client[s].pc = "clear" /\ UNCHANGED <<instance, thread, instanceLock, sent, last>>
        /\ notifications' = [notifications EXCEPT ![client[s].instance] = {}]
    BY <1>5 DEF Freed, Destroy
  <2>2. \A p \in Sink : client[p].pc # "holding"
    BY <2>1, OneBusy DEF Uses
  <2>3. Listening = {} /\ \A i \in Instance : notifications[i] = {}
    BY <2>2, NobodyListens
  <2>4. instance \in Instance \cup {Null} /\ notifications \in [Instance -> SUBSET Sink]
    BY Types DEF PartsInv, ControlInv, StateTypeOK
  <2>5. Listening' = {}
    BY <2>1, <2>3, <2>4 DEF Listening
  <2>6. \/ main.pc = "fRelease" /\ main'.pc = "fTerminate"
        \/ main.pc = "dRelease" /\ main'.pc = "dTerminate"
    BY <1>5, Types DEF Freed, Shell!ReleaseImplementation, Shell!Goto
  <2> QED BY <2>1, <2>3, <2>5, <2>6, ServiceStill
<1> QED BY <1>1, <1>2, <1>3, <1>4, <1>5 DEF ReleaseImplementation

(* The sink joins while the plugin starts and leaves while it stops.        *)
LEMMA ServiceAudience ==
  ASSUME PartsInv, LinkInv, NEW s \in Sink, RegisterSink(s) \/ UnregisterSink(s)
  PROVE  Service!Join(s) \/ Service!Leave(s)
<1> USE DEF Phase, Shell!InitializePoints, Shell!FailurePoints, Shell!DeinitPoints
<1>1. client[s].pc = "holding" /\ UNCHANGED <<instance, thread, instanceLock, sent, last>>
  BY DEF RegisterSink, UnregisterSink, Register, Unregister, objects
<1>2. instance = client[s].instance
  BY <1>1, SystemAssumption DEF SystemAssumption, PartsInv, ExclusiveInv, Uses
<1>3. instance \in Instance /\ notifications \in [Instance -> SUBSET Sink]
  BY <1>1, <1>2, SystemAssumption, Types DEF SystemAssumption, PartsInv, ControlInv, StateTypeOK, ObjectInv
<1>4. instance # Null
  BY <1>3, ConstantsAssumption DEF ConstantsAssumption
<1>5. UNCHANGED <<Current, Pending, Count, last>>
  BY <1>1, FeedStill
<1>6. CASE RegisterSink(s)
  <2>1. main.pc = "iSink" /\ main'.pc \in {"iPublish", "fReset"}
    BY <1>6, Types DEF RegisterSink, Shell!InitSink, Shell!Goto
  <2>2. Listening' = Listening \cup {s}
    BY <1>1, <1>2, <1>3, <1>4, <1>6 DEF RegisterSink, Register, Listening
  <2> QED BY <1>5, <2>1, <2>2 DEF Service!Join, Service!feed
<1>7. CASE UnregisterSink(s)
  <2>1. main.pc = "dSink" /\ main'.pc = "dMethods"
    BY <1>7, Types DEF UnregisterSink, Shell!DeinitSink, Shell!Goto
  <2>2. Listening' = Listening \ {s}
    BY <1>1, <1>2, <1>3, <1>4, <1>7 DEF UnregisterSink, Unregister, Listening
  <2> QED BY <1>5, <2>1, <2>2 DEF Service!Leave, Service!feed
<1> QED BY <1>6, <1>7

(* The bus threads broadcast; an event begins only while there is an        *)
(* instance, hence not while the plugin is off.                            *)
LEMMA ServiceBroadcast ==
  ASSUME PartsInv, PartsInv', LinkInv, NEW t \in Thread, BusDelivers(t) \/ HandlerRuns(t)
  PROVE  \/ Service!Begin \/ Service!End \/ (\E o \in Observer : Service!Hand(o))
         \/ UNCHANGED Service!vars
<1>1. UNCHANGED <<instance, notifications, shellVars>>
  BY DEF BusDelivers, HandlerRuns, Deliver, Handler, EnterHandler, Snapshot, Call, Return,
         ReleaseSnapshot, ExitHandler, objects, lists
<1>2. UNCHANGED <<Phase, Listening>>
  BY <1>1 DEF Phase, Listening, shellVars
<1>3. ControlInv /\ ControlInv'
  BY DEF PartsInv
<1>4. ASSUME NEW u \in Thread, Snapshot(u) PROVE Service!Begin
  <2>1. Feed!Begin /\ Pending' = notifications[thread[u].instance]
    BY <1>3, <1>4, FeedBegins
  <2>2. thread[u].instance # Null /\ thread[u].instance = instance
    BY <1>3, <1>4 DEF Snapshot, ControlInv, FrameInv, InstanceAlive
  <2>3. Pending' = Listening
    BY <2>1, <2>2 DEF Listening
  <2>4. Phase # "off"
    BY <2>2, NothingHeld, OffHoldsNothing
  <2> QED BY <1>2, <2>1, <2>3, <2>4 DEF Feed!Begin, Service!Begin
<1>5. ASSUME \A u \in Thread : ~Snapshot(u)
      PROVE  Service!End \/ (\E o \in Observer : Service!Hand(o)) \/ UNCHANGED Service!vars
  <2>1. Next
    BY DEF BusDelivers, HandlerRuns, Next
  <2>2. (\E o \in Observer : Feed!Hand(o)) \/ Feed!End \/ UNCHANGED Feed!vars
    BY <1>3, <1>5, <2>1, FeedGoesOn
  <2> QED BY <1>2, <2>2 DEF Feed!Hand, Feed!End, Feed!vars, Service!Hand, Service!End, Service!vars,
             Service!feed
<1> QED BY <1>4, <1>5

(* The plugin as a whole keeps its promise: the three parts together, with  *)
(* every thread and every failure of theirs, implement VoiceService.       *)
THEOREM SystemServes == SystemSpec => ServiceKept
<1>1. SystemInit => Service!Init
  <2> SUFFICES ASSUME SystemInit PROVE Service!Init
    OBVIOUS
  <2>1. main.pc = "idle" /\ state = "deactivated" /\ instance = Null
    BY DEF SystemInit, Shell!Init, Shell!Idle, Init
  <2>2. Feed!Init
    BY FeedInit DEF SystemInit
  <2> QED BY <2>1, <2>2 DEF Feed!Init, Service!Init, Phase, Listening, Shell!InitializePoints,
             Shell!FailurePoints, Shell!DeinitPoints
<1>2. PartsInv /\ PartsInv' /\ LinkInv /\ [SystemNext]_systemVars => [Service!Next]_(Service!vars)
  <2> SUFFICES ASSUME PartsInv, PartsInv', LinkInv, [SystemNext]_systemVars
               PROVE  [Service!Next]_(Service!vars)
    OBVIOUS
  <2> USE SystemAssumption DEF SystemAssumption, Service!Next
  <2>1. CASE ShellStep \/ Activate
    BY <2>1, ServiceSwitch
  <2>2. CASE Root
    BY <2>2, ServiceRoot
  <2>3. ASSUME NEW s \in Sink, Configuring(s) \/ ConfigureReturned(s) \/ ReleaseImplementation(s)
        PROVE  UNCHANGED Service!vars
    BY <2>3, ServiceQuiet
  <2>4. ASSUME NEW s \in Sink, RegisterSink(s) \/ UnregisterSink(s) PROVE Service!Next
    BY <2>4, ServiceAudience
  <2>5. CASE Delete \/ Others
    <3>1. UNCHANGED <<instance, notifications, thread, instanceLock, sent, last, shellVars>>
      BY <2>5 DEF Delete, Drop, Others, vars, objects, lists
    <3> QED BY <3>1, ServiceStill DEF Listening, Phase, shellVars
  <2>6. ASSUME NEW t \in Thread, BusDelivers(t) \/ HandlerRuns(t)
        PROVE  Service!Next \/ UNCHANGED Service!vars
    BY <2>6, ServiceBroadcast
  <2>7. CASE UNCHANGED systemVars
    BY <2>7, ServiceStill DEF systemVars, vars, objects, lists, shellVars, Listening, Phase
  <2> QED BY <2>1, <2>2, <2>3, <2>4, <2>5, <2>6, <2>7 DEF SystemNext, MainStep
<1> QED BY <1>1, <1>2, SystemInvariance, PTL DEF SystemSpec, ServiceKept, Service!Spec

(* What VoiceServiceProofs proves of every such service holds of this one.  *)
ServiceP == INSTANCE VoiceServiceProofs
              WITH phase <- Phase, listening <- Listening,
                   current <- Current, pending <- Pending, count <- Count

LEMMA SameService == Service!Spec => ServiceP!Spec
BY DEF Service!Spec, ServiceP!Spec,
   Service!Init, ServiceP!Init, Service!Next, ServiceP!Next, Service!Start, ServiceP!Start,
   Service!Ready, ServiceP!Ready, Service!Stop, ServiceP!Stop, Service!Stopped, ServiceP!Stopped,
   Service!Begin, ServiceP!Begin, Service!End, ServiceP!End, Service!Join, ServiceP!Join,
   Service!Leave, ServiceP!Leave, Service!Hand, ServiceP!Hand, Service!vars, ServiceP!vars,
   Service!feed, ServiceP!feed

(* So a deactivated plugin calls no observer, on any thread, whatever was   *)
(* under way when the deactivation began ...                               *)
THEOREM DeactivatedIsSilent == SystemSpec => Service!OffIsSilent
<1>1. ServiceP!OffIsSilent => Service!OffIsSilent
  BY DEF Service!OffIsSilent, ServiceP!OffIsSilent, Service!vars, ServiceP!vars, Service!feed, ServiceP!feed
<1> QED BY <1>1, SameService, ServiceP!SilentWhenOff, SystemServes DEF ServiceKept

(* ... and every event that an activated plugin dispatches reaches one.     *)
THEOREM ActivatedIsHeard == SystemSpec => Service!OnIsHeard
<1>1. ServiceP!OnIsHeard => Service!OnIsHeard
  BY DEF Service!OnIsHeard, ServiceP!OnIsHeard, Service!vars, ServiceP!vars, Service!feed, ServiceP!feed
<1> QED BY <1>1, SameService, ServiceP!HeardWhenOn, SystemServes DEF ServiceKept

-----------------------------------------------------------------------------
(* The steps that main has left.                                           *)

(* The session's share of them is a number.                                *)
RankInv == Session!StepsLeft \in 0 .. Handlers + 4 * MaxRetry + 11

LEMMA SessionRank == PartsInv => RankInv
<1> HAVE PartsInv
<1>1. Session!StepsLeft = SessionP!StepsLeft
  BY DEF Session!StepsLeft, SessionP!StepsLeft
<1>2. SessionP!StepsLeft \in 0 .. Handlers + 4 * MaxRetry + 11
  BY PartsAssumptions, SessionP!StepsLeftBound DEF PartsInv
<1> QED BY <1>1, <1>2 DEF RankInv

(* It falls with every step of Configure and of DeinitializeIARM.           *)
LEMMA SessionDescends ==
  ASSUME PartsInv, pc \notin {"idle", "configured", "failed", "gone"},
         \/ Session!Probe \/ Session!InitCheck \/ Session!BusInit \/ Session!BusConnect
         \/ Session!ConnectResult \/ Session!Retry \/ Session!Own \/ Session!RegisterHandler
         \/ Session!CheckConnection \/ Session!RemoveHandlers \/ Session!Disconnect \/ Session!Term
  PROVE  Session!StepsLeft' < Session!StepsLeft /\ pc' # "idle"
<1>1. SessionP!SessionInv
  BY DEF PartsInv
<1>2. SessionP!Step
  BY DEF SessionP!Step, Session!locals, SessionP!locals, Session!members, SessionP!members,
       Session!library, SessionP!library, Session!refused, SessionP!refused, Session!world,
       SessionP!world, Session!LocalsGone, SessionP!LocalsGone, Session!Disconnected,
       SessionP!Disconnected, Session!DeinitReturns, SessionP!DeinitReturns,
       Session!IsConnected, SessionP!IsConnected, Session!Probe, SessionP!Probe,
       Session!InitCheck, SessionP!InitCheck, Session!BusInit, SessionP!BusInit,
       Session!BusConnect, SessionP!BusConnect, Session!ConnectResult, SessionP!ConnectResult,
       Session!GiveUp, SessionP!GiveUp, Session!Retry, SessionP!Retry, Session!Own, SessionP!Own,
       Session!HandlerRegistered, SessionP!HandlerRegistered, Session!RegisterHandler,
       SessionP!RegisterHandler, Session!CheckConnection, SessionP!CheckConnection,
       Session!RemoveHandlers, SessionP!RemoveHandlers, Session!Disconnect, SessionP!Disconnect,
       Session!Term, SessionP!Term
<1>3. SessionP!StepsLeft' < SessionP!StepsLeft
  BY <1>1, <1>2, PartsAssumptions, SessionP!StepDescends
<1>4. Session!StepsLeft = SessionP!StepsLeft /\ Session!StepsLeft' = SessionP!StepsLeft'
  BY DEF Session!StepsLeft, SessionP!StepsLeft
<1>5. after # "idle"
  BY <1>1 DEF SessionP!SessionInv, SessionP!TypeOK
<1>6. pc' # "idle"
  BY <1>5 DEF Session!Probe, Session!InitCheck, Session!BusInit, Session!BusConnect,
       Session!ConnectResult, Session!Retry, Session!GiveUp, Session!Own, Session!RegisterHandler,
       Session!HandlerRegistered, Session!CheckConnection, Session!RemoveHandlers,
       Session!Disconnect, Session!Term, Session!DeinitReturns
<1> QED BY <1>3, <1>4, <1>6

(* The weight of the stages of the destructor.                             *)
Weight(stage) ==
  IF stage \in {"failed", "holding"} THEN 10
  ELSE IF stage = "detach" THEN 9 ELSE IF stage = "unsubscribe" THEN 5 ELSE 1

LEMMA DestructorAt ==
  ASSUME PartsInv, NEW s \in Sink, client[s].pc \in Uses
  PROVE  DestructorLeft = Session!StepsLeft + Weight(client[s].pc)
<1>1. \A p \in Sink : client[p].pc \in {"failed", "holding", "detach", "unsubscribe"} => p = s
  BY OneBusy DEF Uses
<1> QED BY <1>1 DEF DestructorLeft, At, Weight

LEMMA DestructorGoes ==
  ASSUME PartsInv, NEW s \in Sink, client[s].pc \in Uses, NEW stage,
         client' = [client EXCEPT ![s].pc = stage]
  PROVE  DestructorLeft' = Session!StepsLeft' + Weight(stage)
<1>1. \A p \in Sink \ {s} :
        client'[p] = client[p] /\ client[p].pc \notin {"failed", "holding", "detach", "unsubscribe"}
  BY OneBusy, Types DEF Uses
<1>2. client'[s].pc = stage
  BY Types DEF Owner
<1> QED BY <1>1, <1>2 DEF DestructorLeft, At, Weight

LEMMA MovesStill ==
  ASSUME UNCHANGED <<main, adminLock, pc, retryCount, handlersRegistered, client>>
  PROVE  UNCHANGED MovesLeft
BY DEF MovesLeft, ConfigureLeft, DestructorLeft, At, Session!StepsLeft

LEMMA MovesNat == PartsInv => MovesLeft \in Nat
<1> HAVE PartsInv
<1>1. Handlers \in Nat /\ MaxRetry \in Nat /\ RankInv
  BY SessionRank, SystemAssumption DEF SystemAssumption
<1>2. ConfigureLeft \in Nat /\ DestructorLeft \in Nat
  BY <1>1 DEF ConfigureLeft, DestructorLeft, RankInv
<1> QED BY <1>1, <1>2 DEF MovesLeft

(* The steps of the shell alone.                                           *)
LEMMA ShellAdvances ==
  ASSUME PartsInv, LinkInv, ShellStep
  PROVE  MovesLeft' < MovesLeft
<1> DEFINE lock == IF adminLock = "main" THEN 0 ELSE 1
           start == Handlers + 4 * MaxRetry + 29
<1>1. start \in Nat /\ lock \in 0 .. 1 /\ lock' \in 0 .. 1
  BY SystemAssumption DEF SystemAssumption
<1>2. UNCHANGED <<Session!StepsLeft, DestructorLeft>>
  BY DEF ShellStep, sessionVars, vars, DestructorLeft, At, Session!StepsLeft
<1>3. \A s \in Sink : client[s].pc \in Uses /\ (main.pc = "fReset" \/ main.pc = "dMethods") =>
        DestructorLeft = 10
  <2> SUFFICES ASSUME NEW s \in Sink, client[s].pc \in Uses, main.pc = "fReset" \/ main.pc = "dMethods"
               PROVE  DestructorLeft = 10
    OBVIOUS
  <2>1. pc \in {"failed", "configured"} /\ client[s].pc \in {"failed", "holding"}
    BY DEF LinkInv, FailingLink, ServingLink, Serving
  <2>2. Session!StepsLeft = 0
    BY <2>1 DEF Session!StepsLeft
  <2> QED BY <2>1, <2>2, DestructorAt DEF Weight
<1>4. main \in [pc : {"idle"} \cup ShellP!InitializePoints \cup ShellP!FailurePoints \cup ShellP!DeinitPoints,
                implementation : Instance \cup {Null}, configure : Instance \cup {Null},
                connectionId : Instance \cup {Null}]
  BY Types
<1> USE DEF Shell!Goto
<1>5. CASE Shell!AcquireMain
  <2>1. main' = main /\ main.pc \in {"iEnter", "iPublish", "fReset", "dDetach", "dDone"}
        /\ lock = 1 /\ lock' = 0
    BY <1>5 DEF Shell!AcquireMain, Shell!LockPoints
  <2> QED BY <1>1, <2>1 DEF MovesLeft
<1>6a. CASE Shell!InitEnter
  <2>1. main.pc = "iEnter" /\ main'.pc = "iWatch"
    BY <1>4, <1>6a DEF Shell!InitEnter
  <2> QED BY <1>1, <2>1 DEF MovesLeft
<1>6b. CASE Shell!InitWatch
  <2>1. main.pc = "iWatch" /\ main'.pc = "iRoot"
    BY <1>4, <1>6b DEF Shell!InitWatch
  <2> QED BY <1>1, <2>1 DEF MovesLeft
<1>7a. CASE Shell!InitPublish
  <2>1. main.pc = "iPublish" /\ main'.pc = "iMethods"
    BY <1>4, <1>7a DEF Shell!InitPublish
  <2> QED BY <1>1, <2>1 DEF MovesLeft
<1>7b. CASE Shell!InitMethods
  <2>1. main.pc = "iMethods" /\ main'.pc = "idle"
    BY <1>4, <1>7b DEF Shell!InitMethods, Shell!Idle
  <2> QED BY <1>1, <2>1 DEF MovesLeft
<1>8. CASE Shell!FailReset
  <2>1. main.pc = "fReset"
        /\ main'.pc = IF main.implementation = Null THEN "fUnwatch" ELSE "fRelease"
    BY <1>4, <1>8 DEF Shell!FailReset
  <2>2. main.implementation # Null => DestructorLeft' = 10
    BY <1>2, <1>3, <2>1, WhereHeld DEF LinkInv, PartsInv
  <2> QED BY <1>1, <2>1, <2>2 DEF MovesLeft
<1>9. CASE Shell!Terminate("fTerminate", "fUnwatch") \/ Shell!Terminate("dTerminate", "dShell")
  <2>1. \/ main.pc = "fTerminate" /\ main'.pc = "fUnwatch"
        \/ main.pc = "dTerminate" /\ main'.pc = "dShell"
    BY <1>4, <1>9 DEF Shell!Terminate
  <2> QED BY <2>1 DEF MovesLeft
<1>10. CASE Shell!FailUnwatch \/ Shell!DeinitDone
  <2>1. main.pc \in {"fUnwatch", "dDone"} /\ main'.pc = "idle"
    BY <1>10 DEF Shell!FailUnwatch, Shell!DeinitDone, Shell!Idle
  <2> QED BY <1>1, <2>1 DEF MovesLeft
<1>11. CASE Shell!DeinitDetach
  <2>1. main.pc = "dDetach" /\ main'.pc \in {"dUnwatch", "idle"}
    BY <1>11 DEF Shell!DeinitDetach, Shell!Idle
  <2> QED BY <1>1, <2>1 DEF MovesLeft
<1>12. CASE Shell!DeinitUnwatch \/ Shell!DeinitShell
  <2>1. \/ main.pc = "dUnwatch" /\ main'.pc \in {"dShell", "dSink"}
        \/ main.pc = "dShell" /\ main'.pc = "dDone"
    BY <1>4, <1>12 DEF Shell!DeinitUnwatch, Shell!DeinitShell
  <2> QED BY <1>1, <2>1 DEF MovesLeft
<1>13. CASE Shell!DeinitMethods
  <2>1. main.pc = "dMethods" /\ main'.pc = "dRelease"
    BY <1>4, <1>13 DEF Shell!DeinitMethods
  <2>2. DestructorLeft' = 10
    BY <1>2, <1>3, <2>1, WhereHeld DEF LinkInv, PartsInv, Serving
  <2> QED BY <2>1, <2>2 DEF MovesLeft
<1> QED BY <1>5, <1>6a, <1>6b, <1>7a, <1>7b, <1>8, <1>9, <1>10, <1>11, <1>12, <1>13
    DEF ShellStep

(* Configure and the registration of the sink.                             *)
LEMMA StartAdvances ==
  ASSUME PartsInv, RankInv', NEW s \in Sink,
         Configuring(s) \/ ConfigureReturned(s) \/ RegisterSink(s) \/ UnregisterSink(s)
  PROVE  MovesLeft' < MovesLeft
<1> DEFINE lock == IF adminLock = "main" THEN 0 ELSE 1
           steps == Handlers + 4 * MaxRetry
<1>1. steps \in Nat /\ lock' \in 0 .. 1
  BY SystemAssumption DEF SystemAssumption
<1>2. Session!StepsLeft \in 0 .. steps + 11 /\ Session!StepsLeft' \in 0 .. steps + 11
  BY SessionRank DEF RankInv
<1>3. CASE Configuring(s)
  <2>1. main.pc = "iConfigure" /\ main'.pc = "iConfigure"
    BY <1>3 DEF Configuring, shellVars
  <2>2. CASE Session!Configure
    <3>1. pc = "idle" /\ pc' = "probe"
      BY <2>2 DEF Session!Configure
    <3> QED BY <1>1, <1>2, <2>1, <3>1 DEF MovesLeft, ConfigureLeft
  <2>3. CASE ~Session!Configure
    <3>1. \/ Session!Probe \/ Session!InitCheck \/ Session!BusInit \/ Session!BusConnect
          \/ Session!ConnectResult \/ Session!Retry \/ Session!Own \/ Session!RegisterHandler
          \/ Session!CheckConnection \/ Session!RemoveHandlers \/ Session!Disconnect \/ Session!Term
      BY <1>3, <2>3 DEF Configuring
    <3>2. pc \notin {"idle", "configured", "failed", "gone"}
      BY <3>1 DEF Session!Probe, Session!InitCheck, Session!BusInit, Session!BusConnect,
         Session!ConnectResult, Session!Retry, Session!Own, Session!RegisterHandler,
         Session!CheckConnection, Session!RemoveHandlers, Session!Disconnect, Session!Term
    <3>3. Session!StepsLeft' < Session!StepsLeft /\ pc' # "idle"
      BY <3>1, <3>2, SessionDescends
    <3> QED BY <1>2, <2>1, <3>2, <3>3 DEF MovesLeft, ConfigureLeft
  <2> QED BY <2>2, <2>3
<1>4. CASE ConfigureReturned(s)
  <2>1. main.pc = "iConfigure" /\ pc \in {"configured", "failed"} /\ main'.pc \in {"iSink", "fReset"}
    BY <1>4 DEF ConfigureReturned, Shell!InitConfigure
  <2>2. ConfigureLeft = 0
    BY <2>1 DEF ConfigureLeft, Session!StepsLeft
  <2> QED BY <1>1, <2>1, <2>2 DEF MovesLeft
<1>5. CASE RegisterSink(s)
  <2>1. main.pc = "iSink" /\ main'.pc \in {"iPublish", "fReset"}
    BY <1>5, Types DEF RegisterSink, Shell!InitSink, Shell!Goto
  <2> QED BY <1>1, <2>1 DEF MovesLeft
<1>6. CASE UnregisterSink(s)
  <2>1. main.pc = "dSink" /\ main'.pc = "dMethods"
    BY <1>6, Types DEF UnregisterSink, Shell!DeinitSink, Shell!Goto
  <2> QED BY <2>1 DEF MovesLeft
<1> QED BY <1>3, <1>3, <1>4, <1>5, <1>6

LEMMA Falls ==
  \A a, b, m, n \in Nat :
    /\ a + m \in Nat /\ b + n \in Nat
    /\ b < a /\ n <= m => b + n < a + m
    /\ b <= a /\ n < m => b + n < a + m
    /\ b <= a + 3 /\ n + 3 < m => b + n < a + m
OBVIOUS

(* The destructor.                                                         *)
LEMMA ReleaseAdvances ==
  ASSUME PartsInv, LinkInv, RankInv', NEW s \in Sink, ReleaseImplementation(s)
  PROVE  MovesLeft' < MovesLeft
<1>1. Session!StepsLeft \in Nat /\ Session!StepsLeft' \in Nat
  BY SessionRank, SystemAssumption DEF SystemAssumption, RankInv
<1>2. ASSUME Releasing, UNCHANGED shellVars, DestructorLeft \in Nat, DestructorLeft' \in Nat,
             DestructorLeft' < DestructorLeft
      PROVE  MovesLeft' < MovesLeft
  BY <1>2 DEF Releasing, shellVars, MovesLeft
<1>3. CASE LastRelease(s)
  <2>1. client[s].pc \in {"failed", "holding"} /\ Session!StepsLeft' = Session!StepsLeft
    BY <1>3 DEF LastRelease, Release, sessionVars, Session!StepsLeft
  <2>2. \A p \in Observer \ {s} : client[p] # [pc |-> "holding", instance |-> client[s].instance]
    BY <2>1, SystemAssumption, OneBusy DEF SystemAssumption, Uses
  <2>3. client' = [client EXCEPT ![s].pc = "detach"]
    BY <1>3, <2>2 DEF LastRelease, Release
  <2>4. DestructorLeft = Session!StepsLeft + 10 /\ DestructorLeft' = Session!StepsLeft' + 9
    BY <2>1, <2>3, DestructorAt, DestructorGoes DEF Weight, Uses
  <2> QED BY <1>1, <1>2, <1>3, <2>1, <2>4 DEF LastRelease
<1>4. CASE Unpublish(s)
  <2>1. client[s].pc = "detach" /\ client' = [client EXCEPT ![s].pc = "unsubscribe"]
    BY <1>4 DEF Unpublish, Detach
  <2>2. DestructorLeft = Session!StepsLeft + 9 /\ DestructorLeft' = Session!StepsLeft' + 5
    BY <2>1, DestructorAt, DestructorGoes DEF Weight, Uses
  <2>3. Session!StepsLeft' <= Session!StepsLeft + 3
    BY <1>1, <1>4 DEF Unpublish, Session!Destroy, sessionVars, Session!StepsLeft
  <2>4. DestructorLeft \in Nat /\ DestructorLeft' \in Nat /\ DestructorLeft' < DestructorLeft
    <3>1. 5 \in Nat /\ 9 \in Nat /\ 5 + 3 < 9
      OBVIOUS
    <3>2. Session!StepsLeft' + 5 < Session!StepsLeft + 9
      BY <1>1, <2>3, <3>1, Falls, Zenon
    <3> QED BY <1>1, <2>2, <3>1, <3>2, Falls, Zenon
  <2> QED BY <1>2, <1>4, <2>4 DEF Unpublish
<1>5. CASE RemoveAll(s)
  <2>1. client[s].pc = "unsubscribe" /\ client' = [client EXCEPT ![s].pc = "clear"]
    BY <1>5 DEF RemoveAll, Unsubscribe
  <2>2. DestructorLeft = Session!StepsLeft + 5
    BY <2>1, DestructorAt DEF Weight, Uses
  <2>2a. Weight("clear") = 1
    BY DEF Weight
  <2>2b. DestructorLeft' = Session!StepsLeft' + 1
    BY <2>1, <2>2a, DestructorGoes DEF Uses
  <2>3. Session!StepsLeft' <= Session!StepsLeft
    BY <1>1, <1>5 DEF RemoveAll, Session!RemoveHandlers, sessionVars, Session!StepsLeft
  <2>4. DestructorLeft \in Nat /\ DestructorLeft' \in Nat /\ DestructorLeft' < DestructorLeft
    <3>1. 1 \in Nat /\ 5 \in Nat /\ 1 < 5
      OBVIOUS
    <3>2. Session!StepsLeft' + 1 < Session!StepsLeft + 5
      BY <1>1, <2>3, <3>1, Falls, Zenon
    <3> QED BY <1>1, <2>2, <2>2b, <3>1, <3>2, Falls, Zenon
  <2> QED BY <1>2, <1>5, <2>4 DEF RemoveAll
<1>6. CASE LeaveBus
  <2>1. pc \in {"disconnect", "term"} /\ client' = client
    BY <1>6 DEF LeaveBus, Session!Disconnect, Session!Term, vars
  <2>2. Session!StepsLeft' < Session!StepsLeft
    BY <1>6, <2>1, SessionDescends DEF LeaveBus
  <2>3. DestructorLeft' < DestructorLeft /\ DestructorLeft \in Nat /\ DestructorLeft' \in Nat
    <3> DEFINE stage == IF At({"failed", "holding"}) THEN 10
                        ELSE IF At({"detach"}) THEN 9
                        ELSE IF At({"unsubscribe"}) THEN 5 ELSE 1
    <3>1. stage \in Nat /\ stage' = stage
      BY <2>1 DEF At
    <3>2. DestructorLeft = Session!StepsLeft + stage /\ DestructorLeft' = Session!StepsLeft' + stage'
      BY DEF DestructorLeft
    <3> HIDE DEF stage
    <3>3. stage' \in Nat /\ stage' <= stage
      BY <3>1
    <3>4. Session!StepsLeft' + stage' < Session!StepsLeft + stage
      BY <1>1, <2>2, <3>1, <3>3, Falls, Zenon
    <3> QED BY <1>1, <3>1, <3>2, <3>3, <3>4, Falls, Zenon
  <2> QED BY <1>2, <1>6, <2>3 DEF LeaveBus
<1>7. CASE Freed(s)
  <2>1. \/ main.pc = "fRelease" /\ main'.pc = "fTerminate"
        \/ main.pc = "dRelease" /\ main'.pc = "dTerminate"
    BY <1>7, Types DEF Freed, Shell!ReleaseImplementation, Shell!Goto
  <2>2. DestructorLeft \in Nat \ {0}
    BY <1>1 DEF DestructorLeft
  <2> QED BY <2>1, <2>2 DEF MovesLeft
<1> QED BY <1>3, <1>4, <1>5, <1>6, <1>7 DEF ReleaseImplementation

(* Initialize and Deinitialize, with the Configure and the destructor that  *)
(* they run, go forward only: the bus threads and the other components can  *)
(* hold them up at a lock but never send them back.                        *)
THEOREM TransitionsAdvance == SystemSpec => TransitionAdvances
<1>1. PartsInv /\ LinkInv /\ RankInv' /\ (MovesLeft \in Nat) /\ (MovesLeft \in Nat)' /\ [SystemNext]_systemVars =>
        [main.pc # "idle" =>
           \/ MovesLeft' \in 0 .. MovesLeft - 1
           \/ UNCHANGED <<MovesLeft, main, adminLock, pc, handlersRegistered, client>>]_systemVars
  <2> SUFFICES ASSUME PartsInv, LinkInv, RankInv', MovesLeft \in Nat, MovesLeft' \in Nat, SystemNext,
                      main.pc # "idle"
               PROVE  \/ MovesLeft' < MovesLeft
                      \/ UNCHANGED <<MovesLeft, main, adminLock, pc, handlersRegistered, client>>
    OBVIOUS
  <2>1. CASE ShellStep
    BY <2>1, ShellAdvances
  <2>2. CASE Root
    <3>1. Handlers + 4 * MaxRetry \in Nat
      BY SystemAssumption DEF SystemAssumption
    <3>2. main.pc = "iRoot"
      BY <2>2 DEF Root, Shell!InitRoot
    <3>3. CASE main'.pc = "fReset"
      BY <3>1, <3>2, <3>3 DEF MovesLeft
    <3>4. CASE main'.pc = "iConfigure"
      <4>1. pc' = "idle"
        BY <2>2, <3>4 DEF Root, Session!NextObject, sessionVars
      <4> QED BY <3>1, <3>2, <3>4, <4>1 DEF MovesLeft, ConfigureLeft
    <3> QED BY <2>2, <3>3, <3>4 DEF Root
  <2>3. ASSUME NEW s \in Sink,
               \/ Configuring(s) \/ ConfigureReturned(s) \/ RegisterSink(s) \/ UnregisterSink(s)
               \/ ReleaseImplementation(s)
        PROVE  MovesLeft' < MovesLeft
    BY <2>3, StartAdvances, ReleaseAdvances
  <2>4. ~Activate /\ ~Delete
    BY DEF Activate, Delete, Shell!Transition, Shell!Goto
  <2>5. ASSUME Others \/ \E t \in Thread : BusDelivers(t) \/ HandlerRuns(t)
        PROVE  UNCHANGED <<MovesLeft, main, adminLock, pc, handlersRegistered, client>>
    <3>1. UNCHANGED <<main, adminLock, pc, retryCount, handlersRegistered, client>>
      BY <2>5 DEF Others, Session!OtherConnects, Session!OtherLeaves, BusDelivers, HandlerRuns,
         Deliver, Handler, EnterHandler, Snapshot, Call, Return, ReleaseSnapshot, ExitHandler,
         vars, shellVars, sessionVars, Session!locals, Session!members
    <3> QED BY <3>1, MovesStill
  <2> QED BY <2>1, <2>2, <2>3, <2>4, <2>5 DEF SystemNext, MainStep
<1>2. PartsInv => RankInv /\ MovesLeft \in Nat
  BY SessionRank, MovesNat
<1> QED BY <1>1, <1>2, SystemInvariance, PTL DEF SystemSpec, TransitionAdvances
=============================================================================
