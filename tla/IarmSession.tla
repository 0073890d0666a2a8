---------------------------- MODULE IarmSession ----------------------------
(***************************************************************************)
(* How VoiceControlImplementation attaches itself to the IARM bus and      *)
(* leaves it: Configure, InitializeIARM with Utils::IARM::init, and        *)
(* DeinitializeIARM (plugin/VoiceControlImplementation.cpp and             *)
(* helpers/UtilsIarm.h).  The connection belongs to the process: in the    *)
(* framework's own process other components use it too, and one object     *)
(* after another attaches itself to it; a process of its own ends with     *)
(* the object.  What the bus library does is external: each of its calls   *)
(* may fail.  Those that fail while the object leaves the bus are logged   *)
(* (IARM_CHECK) and forgotten; two history variables remember them.        *)
(***************************************************************************)
EXTENDS Naturals

CONSTANTS
  Handlers,    \* the number of events a handler is registered for (6)
  MaxRetry,    \* the number of retries of Utils::IARM::init (20)
  Environments \* the environments considered: what else happens in each

Disturbances ==
  {"shared",  \* the process is the framework's: others connect to the bus
   "race",    \* they do so while Configure or DeinitializeIARM is running
   "daemon"}  \* the daemon of the bus stops and starts

ASSUME SessionAssumption ==
  Handlers \in Nat \ {0} /\ MaxRetry \in Nat /\ Environments \subseteq SUBSET Disturbances

VARIABLES
  pc,                 \* where the object is in Configure or in its destructor
  after,              \* what DeinitializeIARM returns to
  service,            \* TRUE while it holds a reference on _service
  alreadyConnected,   \* the local variable of InitializeIARM
  retryCount,         \* the local variable of Utils::IARM::init
  hasOwnProcess,      \* _hasOwnProcess
  handlersRegistered, \* _handlersRegistered
  registered,         \* the handlers the bus has
  bus,                \* the connection of the process
  maker,              \* who made it
  unremoved,          \* history: the handlers whose removal the bus refused
  unended,            \* history: TRUE when it refused to end the connection
  daemon,             \* TRUE while the daemon of the bus runs
  environment         \* what else happens: one of Environments, from the start

locals  == <<alreadyConnected, retryCount>>
members == <<service, hasOwnProcess, handlersRegistered>>
refused == <<unremoved, unended>>
library == <<registered, bus, maker, refused>>
world   == <<daemon, environment>>
vars == <<pc, after, locals, members, library, world>>

IsConnected == bus = "connected" /\ daemon

(* The library has no connection any more; its handlers went with it.       *)
Disconnected(state) ==
  /\ bus' = state /\ maker' = "nobody"
  /\ registered' = {} /\ unremoved' = {} /\ unended' = FALSE

Init ==
  /\ pc = "idle" /\ after = "failed" /\ service = FALSE
  /\ alreadyConnected = FALSE /\ retryCount = 0
  /\ hasOwnProcess = FALSE /\ handlersRegistered = 0
  /\ registered = {} /\ bus = "down" /\ maker = "nobody" /\ daemon = TRUE
  /\ unremoved = {} /\ unended = FALSE
  /\ environment \in Environments

-----------------------------------------------------------------------------
(* Configure                                                               *)
Configure ==
  /\ pc = "idle"
  /\ service' = TRUE /\ pc' = "probe"
  /\ UNCHANGED <<after, locals, hasOwnProcess, handlersRegistered, library, world>>

(* InitializeIARM, line 238                                                *)
Probe ==
  /\ pc = "probe"
  /\ alreadyConnected' = IsConnected /\ pc' = "init"
  /\ UNCHANGED <<after, retryCount, members, library, world>>

(* Utils::IARM::init                                                       *)
InitCheck ==
  /\ pc = "init"
  /\ retryCount' = 0 /\ pc' = IF IsConnected THEN "own" ELSE "busInit"
  /\ UNCHANGED <<after, alreadyConnected, members, library, world>>

BusInit ==
  /\ pc = "busInit"
  /\ \/ pc' = "busConnect" /\ bus' = IF bus = "down" THEN "inited" ELSE bus
     \/ bus = "down" /\ pc' = "retry" /\ UNCHANGED bus
  /\ UNCHANGED <<after, locals, members, registered, maker, refused, world>>

(* Connecting again is no error, nor is connecting what is not initialised. *)
BusConnect ==
  /\ pc = "busConnect"
  /\ \/ /\ bus = "inited" /\ daemon
        /\ bus' = "connected" /\ maker' = "self" /\ pc' = "result"
     \/ bus = "inited" /\ pc' = "retry" /\ UNCHANGED <<bus, maker>>
     \/ bus # "inited" /\ pc' = "result" /\ UNCHANGED <<bus, maker>>
  /\ UNCHANGED <<after, locals, members, registered, refused, world>>

ConnectResult ==
  /\ pc = "result"
  /\ pc' = IF IsConnected THEN "own" ELSE "retry"
  /\ UNCHANGED <<after, locals, members, library, world>>

(* The local variables are gone, and have their first values again.         *)
LocalsGone == alreadyConnected' = FALSE /\ retryCount' = 0

GiveUp ==
  /\ hasOwnProcess' = FALSE /\ service' = FALSE /\ pc' = "failed"
  /\ LocalsGone /\ UNCHANGED handlersRegistered

(* Mutants: the retries are not counted; there is one too many.            *)
RetryUncounted ==
  /\ pc = "retry"
  /\ \/ retryCount < MaxRetry /\ pc' = "busInit" /\ UNCHANGED <<members, locals>>
     \/ ~(retryCount < MaxRetry) /\ GiveUp
  /\ UNCHANGED <<after, library, world>>
RetryOneMore ==
  /\ pc = "retry"
  /\ \/ /\ retryCount <= MaxRetry /\ retryCount' = retryCount + 1 /\ pc' = "busInit"
        /\ UNCHANGED <<members, alreadyConnected>>
     \/ ~(retryCount <= MaxRetry) /\ GiveUp
  /\ UNCHANGED <<after, library, world>>

(* The loop of Utils::IARM::init; without a connection Configure fails,    *)
(* and what BusInit and BusConnect did to the bus stays.                   *)
Retry ==
  /\ pc = "retry"
  /\ \/ /\ retryCount < MaxRetry /\ retryCount' = retryCount + 1 /\ pc' = "busInit"
        /\ UNCHANGED <<members, alreadyConnected>>
     \/ ~(retryCount < MaxRetry) /\ GiveUp
  /\ UNCHANGED <<after, library, world>>

(* Mutant: the connection is taken for this object's when it is another's.  *)
OwnOthers ==
  /\ pc = "own"
  /\ hasOwnProcess' = alreadyConnected /\ LocalsGone /\ pc' = "register"
  /\ UNCHANGED <<after, service, handlersRegistered, library, world>>

(* InitializeIARM, line 240                                                *)
Own ==
  /\ pc = "own"
  /\ hasOwnProcess' = ~alreadyConnected /\ LocalsGone /\ pc' = "register"
  /\ UNCHANGED <<after, service, handlersRegistered, library, world>>

(* Mutant: the last event is forgotten.                                    *)
LastForgotten ==
  /\ bus = "connected"
  /\ registered' = registered \cup {handlersRegistered + 1}
  /\ unremoved' = unremoved \ {handlersRegistered + 1}
  /\ handlersRegistered' = handlersRegistered + 1
  /\ pc' = IF handlersRegistered' >= Handlers - 1 THEN "check" ELSE "register"
  /\ UNCHANGED <<after, service>>

HandlerRegistered ==
  /\ bus = "connected"
  /\ registered' = registered \cup {handlersRegistered + 1}
  /\ unremoved' = unremoved \ {handlersRegistered + 1}
  /\ handlersRegistered' = handlersRegistered + 1
  /\ pc' = IF handlersRegistered' = Handlers THEN "check" ELSE "register"
  /\ UNCHANGED <<after, service>>

(* Mutant: a failed registration does not undo the others.                 *)
RegisterStops ==
  /\ pc = "register"
  /\ \/ HandlerRegistered
     \/ pc' = "failed" /\ service' = FALSE
        /\ UNCHANGED <<after, handlersRegistered, registered, unremoved>>
  /\ UNCHANGED <<locals, hasOwnProcess, bus, maker, unended, world>>

(* VC_REGISTER: it fails without a connection, and may fail with one.       *)
RegisterHandler ==
  /\ pc = "register"
  /\ \/ HandlerRegistered
     \/ /\ pc' = "remove" /\ after' = "failed"
        /\ UNCHANGED <<service, handlersRegistered, registered, unremoved>>
  /\ UNCHANGED <<locals, hasOwnProcess, bus, maker, unended, world>>

(* Configure, lines 176-195; the query of the voice status ends it.         *)
CheckConnection ==
  /\ pc = "check"
  /\ \/ IsConnected /\ pc' = "configured" /\ UNCHANGED after
     \/ ~IsConnected /\ pc' = "remove" /\ after' = "failed"
  /\ UNCHANGED <<locals, members, library, world>>

-----------------------------------------------------------------------------
(* ~VoiceControlImplementation calls DeinitializeIARM.  It changes nothing   *)
(* then when Configure has failed, see AllOrNothing.                       *)
Destroy ==
  /\ pc = "configured"
  /\ pc' = "remove" /\ after' = "gone"
  /\ UNCHANGED <<locals, members, library, world>>

(* Mutant: one handler stays.                                              *)
RemoveAllButFirst ==
  /\ pc = "remove"
  /\ \E kept \in SUBSET (registered \cap 2 .. handlersRegistered) :
       /\ registered' = (registered \ (2 .. handlersRegistered)) \cup kept
       /\ unremoved' = unremoved \cup kept
  /\ handlersRegistered' = 0 /\ pc' = "disconnect"
  /\ UNCHANGED <<after, locals, service, hasOwnProcess, bus, maker, unended, world>>

(* DeinitializeIARM.  The bus may refuse to remove any of the handlers,     *)
(* with which the object has done all the same.                            *)
RemoveHandlers ==
  /\ pc = "remove"
  /\ \E kept \in SUBSET (registered \cap 1 .. handlersRegistered) :
       /\ registered' = (registered \ (1 .. handlersRegistered)) \cup kept
       /\ unremoved' = unremoved \cup kept
  /\ handlersRegistered' = 0 /\ pc' = "disconnect"
  /\ UNCHANGED <<after, locals, service, hasOwnProcess, bus, maker, unended, world>>

DeinitReturns == pc' = after /\ after' = "failed" /\ service' = FALSE

(* IARM_Bus_Disconnect, which may fail; IARM_Bus_Term follows all the same. *)
Disconnect ==
  /\ pc = "disconnect"
  /\ \/ /\ hasOwnProcess /\ pc' = "term"
        /\ \/ bus = "connected" /\ Disconnected("inited")
           \/ bus = "connected" /\ unended' = TRUE /\ UNCHANGED <<registered, bus, maker, unremoved>>
           \/ bus # "connected" /\ UNCHANGED library
        /\ UNCHANGED <<after, service>>
     \/ ~hasOwnProcess /\ DeinitReturns /\ UNCHANGED library
  /\ UNCHANGED <<locals, hasOwnProcess, handlersRegistered, world>>

(* IARM_Bus_Term, which may fail, and with which a connection that is still *)
(* there, or was made again meanwhile, may end.                            *)
Term ==
  /\ pc = "term"
  /\ Disconnected("down") \/ UNCHANGED library
  /\ hasOwnProcess' = FALSE /\ DeinitReturns
  /\ UNCHANGED <<locals, handlersRegistered, world>>

Step ==
  \/ Configure \/ Probe \/ InitCheck \/ BusInit \/ BusConnect \/ ConnectResult \/ Retry \/ Own
  \/ RegisterHandler \/ CheckConnection \/ Destroy \/ RemoveHandlers \/ Disconnect \/ Term

-----------------------------------------------------------------------------
(* The environment.                                                        *)

(* The next activation of the plugin makes an object in the same process.   *)
NextObject ==
  /\ "shared" \in environment /\ pc \in {"failed", "gone"}
  /\ pc' = "idle"
  /\ UNCHANGED <<after, locals, members, library, world>>

OthersMayAct ==
  "shared" \in environment /\ (pc \in {"idle", "configured", "failed", "gone"} \/ "race" \in environment)

OtherConnects ==
  /\ OthersMayAct /\ bus # "connected" /\ daemon
  /\ bus' = "connected" /\ maker' = "other"
  /\ UNCHANGED <<pc, after, locals, members, registered, refused, world>>

OtherLeaves ==
  /\ OthersMayAct /\ bus = "connected" /\ maker = "other"
  /\ Disconnected("down")
  /\ UNCHANGED <<pc, after, locals, members, world>>

DaemonTurns ==
  /\ "daemon" \in environment
  /\ daemon' = ~daemon
  /\ UNCHANGED <<pc, after, locals, members, library, environment>>

Next == Step \/ NextObject \/ OtherConnects \/ OtherLeaves \/ DaemonTurns

Spec == Init /\ [][Next]_vars

(* The thread that configures or destroys the object runs on.              *)
FairSpec == Spec /\ WF_vars(Step)

-----------------------------------------------------------------------------
(* Every variable has its type; there are at most MaxRetry retries.         *)
TypeOK ==
  /\ pc \in {"idle", "probe", "init", "busInit", "busConnect", "result", "retry", "own",
             "register", "check", "configured", "failed", "remove", "disconnect", "term", "gone"}
  /\ after \in {"failed", "gone"} /\ service \in BOOLEAN
  /\ alreadyConnected \in BOOLEAN /\ retryCount \in 0 .. MaxRetry
  /\ hasOwnProcess \in BOOLEAN /\ handlersRegistered \in 0 .. Handlers
  /\ registered \subseteq 1 .. Handlers /\ unremoved \subseteq 1 .. Handlers /\ unended \in BOOLEAN
  /\ bus \in {"down", "inited", "connected"} /\ maker \in {"nobody", "self", "other"}
  /\ daemon \in BOOLEAN /\ environment \in Environments

(* All the handlers or none: a configured object has every handler on a     *)
(* connection of its own, and one whose Configure failed, or that is gone, *)
(* wherever it failed, has no reference left, thinks of no handler as       *)
(* registered, and the bus has no handler of it but those that it refused  *)
(* to remove when the object asked it to.                                  *)
AllOrNothing ==
  /\ pc = "configured" =>
       /\ service /\ handlersRegistered = Handlers
       /\ maker = "self" /\ hasOwnProcess => registered = 1 .. Handlers
  /\ pc \in {"failed", "gone"} =>
       registered \subseteq unremoved /\ handlersRegistered = 0 /\ ~service /\ ~hasOwnProcess

(* The object never ends a connection that another component made, as long  *)
(* as the connection does not come or go, nor seem to, while Configure      *)
(* looks at it.                                                            *)
Steady == environment \cap {"race", "daemon"} = {}
OthersKeepConnection ==
  [][Steady /\ maker = "other" /\ pc' # pc => maker' = "other"]_vars

(* The object leaves no connection of its own behind when it goes, but one  *)
(* that it asked the bus to end and the bus did not: with a process of its *)
(* own however often the daemon of the bus went away in between, and in a  *)
(* steady environment in any process, also when Configure has failed.      *)
OwnConnectionReleased ==
  /\ "shared" \notin environment /\ pc = "gone" /\ maker = "self" => unended
  /\ Steady /\ pc \in {"failed", "gone"} /\ maker = "self" => unended

(* "Deinitialize() must clean up all resources acquired during              *)
(* Initialize()": when a configured object has gone, so has every          *)
(* connection that the plugin made, in any environment, or at least the    *)
(* bus was asked to end it.                                                *)
ConnectionReleased == pc = "gone" /\ maker = "self" => unended

(* Configure returns, whatever the bus and its daemon do: the retries of    *)
(* Utils::IARM::init end.                                                  *)
ConfigureReturns == pc = "probe" ~> pc \in {"configured", "failed"}

(* The number of steps that Configure or DeinitializeIARM has left at most. *)
StepsLeft ==
  LET retrying == Handlers + 6 + 4 * (MaxRetry - retryCount)
  IN  CASE pc = "probe" -> Handlers + 11 + 4 * MaxRetry
        [] pc = "init" -> Handlers + 10 + 4 * MaxRetry
        [] pc = "busInit" -> retrying + 3
        [] pc = "busConnect" -> retrying + 2
        [] pc = "result" -> retrying + 1
        [] pc = "retry" -> retrying
        [] pc = "own" -> Handlers + 5
        [] pc = "register" -> 4 + Handlers - handlersRegistered
        [] pc = "check" -> 4
        [] pc = "remove" -> 3
        [] pc = "disconnect" -> 2
        [] pc = "term" -> 1
        [] OTHER -> 0

(* What makes Configure return without any fairness of the bus: once it has *)
(* begun every step of it, and of DeinitializeIARM, leaves fewer to take,   *)
(* from Handlers + 4 * MaxRetry + 11 down, whichever calls fail, and what  *)
(* the other components and the daemon do in between never adds to them.    *)
SessionAdvances ==
  [][pc \notin {"idle", "configured", "failed", "gone"} =>
       IF Step THEN StepsLeft' < StepsLeft /\ StepsLeft' \in Nat ELSE StepsLeft' = StepsLeft]_vars
=============================================================================
