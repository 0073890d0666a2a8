-------------------------- MODULE PluginLifecycle --------------------------
(***************************************************************************)
(* The VoiceControl plugin shell (plugin/VoiceControl.{h,cpp}): what       *)
(* Initialize, Deinitialize and the Deactivated callback do to the         *)
(* plugin's members, to the references it takes and to the process that    *)
(* hosts the implementation, with every other thread of the host free to   *)
(* run between two steps:                                                  *)
(*   - "main", the thread on which the framework activates or deactivates  *)
(*     (it never runs the two at once);                                    *)
(*   - "cb", the thread on which the framework announces closed            *)
(*     connections to the plugin's _connectionNotification;                *)
(*   - the worker pool, which runs the deactivation jobs;                  *)
(*   - the JSON-RPC calls of setVoiceInit.                                 *)
(* A section under _adminLock is one step, taken after an Acquire step.    *)
(***************************************************************************)
EXTENDS Naturals, FiniteSets

CONSTANTS
  Instance,     \* the VoiceControlImplementation objects Root can create
  Foreign,      \* remote connections that belong to other plugins
  Request,      \* concurrent JSON-RPC calls of setVoiceInit
  OutOfProcess, \* TRUE for mode "Local", FALSE for mode "Off"
  Null          \* nullptr, and the connection id 0

ASSUME ConstantsAssumption ==
  /\ Null \notin Instance \cup Foreign
  /\ Instance \cap Foreign = {}
  /\ OutOfProcess \in BOOLEAN

VARIABLES
  service, implementation, configure, connectionId, isShuttingDown,  \* the members
  adminLock,  \* the owner of _adminLock: "free", "main" or "cb"
  main,       \* the frame of Initialize or Deinitialize: program point and locals
  cb,         \* the frame of Deactivated
  call,       \* the frames of the setVoiceInit calls
  shellRefs,  \* references on the IShell: the plugin's, the callback's, the jobs'
  connSink,   \* TRUE while _connectionNotification is registered with the shell
  implRefs,   \* references the plugin holds on each implementation object
  sink,       \* the implementations _notification is registered with
  methods,    \* TRUE while the JSON-RPC methods are registered
  state,      \* the state the framework last settled the plugin in
  process,    \* the life of the process (or in-process object) of an instance
  closing,    \* connections that closed and are not yet announced
  jobs        \* submitted deactivation jobs, named by the connection that closed

plugin == <<service, implementation, configure, connectionId, isShuttingDown>>
frames == <<cb, call>>
held   == <<shellRefs, connSink, implRefs, sink, methods>>
host   == <<state, process, closing, jobs>>
vars   == <<plugin, adminLock, main, frames, held, host>>

-----------------------------------------------------------------------------
(* Program points.  A point of LockPoints waits for _adminLock, which the   *)
(* step taken there releases.                                               *)
InitializePoints == {"iEnter", "iWatch", "iRoot", "iConfigure", "iSink", "iPublish", "iMethods"}
FailurePoints    == {"fReset", "fRelease", "fTerminate", "fUnwatch"}
DeinitPoints     == {"dDetach", "dUnwatch", "dSink", "dMethods", "dRelease", "dTerminate",
                     "dShell", "dDone"}
LockPoints       == {"iEnter", "iPublish", "fReset", "dDetach", "dDone"}

Goto(from, to) == main.pc = from /\ main' = [main EXCEPT !.pc = to]

Idle == [pc |-> "idle", implementation |-> Null, configure |-> Null, connectionId |-> Null]
CallbackIdle == [pc |-> "idle", connection |-> Null]
CallIdle == [pc |-> "idle", implementation |-> Null]

Init ==
  /\ service = FALSE /\ implementation = Null /\ configure = Null
  /\ connectionId = Null /\ isShuttingDown = FALSE
  /\ adminLock = "free" /\ main = Idle /\ cb = CallbackIdle
  /\ call = [r \in Request |-> CallIdle]
  /\ shellRefs = 0 /\ connSink = FALSE
  /\ implRefs = [i \in Instance |-> 0] /\ sink = {} /\ methods = FALSE
  /\ state = "deactivated" /\ process = [i \in Instance |-> "unborn"]
  /\ closing = {} /\ jobs = {}

(* _adminLock.Lock() on the main thread, and _adminLock.Unlock().          *)
AcquireMain ==
  /\ main.pc \in LockPoints /\ adminLock = "free" /\ adminLock' = "main"
  /\ UNCHANGED <<plugin, main, frames, held, host>>

UnlockMain == adminLock = "main" /\ adminLock' = "free"

-----------------------------------------------------------------------------
(* VoiceControl::Initialize, in the order of its statements.               *)

InitEnter ==
  /\ Goto("iEnter", "iWatch") /\ UnlockMain
  /\ isShuttingDown' = FALSE /\ service' = TRUE /\ shellRefs' = shellRefs + 1
  /\ UNCHANGED <<implementation, configure, connectionId, frames,
                 connSink, implRefs, sink, methods, host>>

(* The framework holds its own lock while it calls Deactivated, and takes  *)
(* it to add or remove an observer: both wait for a callback in progress.  *)
InitWatch ==
  /\ Goto("iWatch", "iRoot") /\ cb.pc = "idle"
  /\ connSink' = TRUE
  /\ UNCHANGED <<plugin, adminLock, frames, shellRefs, implRefs, sink, methods, host>>

(* shell->Root: the framework creates the implementation, in a process of  *)
(* its own when the plugin is out of process, or fails to.  An in-process  *)
(* implementation has no connection.                                       *)
InitRoot ==
  /\ main.pc = "iRoot"
  /\ \/ \E i \in Instance :
          /\ process[i] = "unborn"
          /\ process' = [process EXCEPT ![i] = IF OutOfProcess THEN "up" ELSE "local"]
          /\ implRefs' = [implRefs EXCEPT ![i] = 1]
          /\ main' = [main EXCEPT !.pc = "iConfigure", !.implementation = i,
                                  !.connectionId = IF OutOfProcess THEN i ELSE Null]
     \/ main' = [main EXCEPT !.pc = "fReset"] /\ UNCHANGED <<process, implRefs>>
  /\ UNCHANGED <<plugin, adminLock, frames, shellRefs, connSink, sink, methods,
                 state, closing, jobs>>

(* A COM-RPC call on the implementation reaches it.                        *)
Reachable == process[main.implementation] \in {"up", "local"}

(* QueryInterface<IConfiguration> and Configure: the interface may be       *)
(* missing or out of reach, and Configure fails by itself or as an RPC.    *)
InitConfigure ==
  LET i == main.implementation IN
  /\ main.pc = "iConfigure"
  /\ \/ /\ Reachable
        /\ \E next \in {"iSink", "fReset"} :
             main' = [main EXCEPT !.pc = next, !.configure = i]
        /\ implRefs' = [implRefs EXCEPT ![i] = @ + 1]
     \/ main' = [main EXCEPT !.pc = "fReset"] /\ UNCHANGED implRefs
  /\ UNCHANGED <<plugin, adminLock, frames, shellRefs, connSink, sink, methods, host>>

(* implementation->Register(&_notification) fails only as an RPC.          *)
InitSink ==
  /\ \/ Goto("iSink", "iPublish") /\ Reachable /\ sink' = sink \cup {main.implementation}
     \/ Goto("iSink", "fReset") /\ ~Reachable /\ UNCHANGED sink
  /\ UNCHANGED <<plugin, adminLock, frames, shellRefs, connSink, implRefs, methods, host>>

InitPublish ==
  /\ Goto("iPublish", "iMethods") /\ UnlockMain
  /\ implementation' = main.implementation /\ configure' = main.configure
  /\ connectionId' = main.connectionId
  /\ UNCHANGED <<service, isShuttingDown, frames, held, host>>

(* JVoiceControl::Register and Register("setVoiceInit"); Initialize         *)
(* returns "".                                                             *)
InitMethods ==
  /\ main.pc = "iMethods"
  /\ methods' = TRUE /\ main' = Idle /\ state' = "activated"
  /\ UNCHANGED <<plugin, adminLock, frames, shellRefs, connSink, implRefs, sink,
                 process, closing, jobs>>

Initialize ==
  InitEnter \/ InitWatch \/ InitRoot \/ InitConfigure \/ InitSink \/ InitPublish \/ InitMethods

-----------------------------------------------------------------------------
(* Statements that the failure path of Initialize and Deinitialize share.  *)

(* Mutant: neither interface is released.                                  *)
KeepImplementation(from, to) ==
  Goto(from, to) /\ UNCHANGED <<plugin, adminLock, frames, held, host>>

(* configure->Release() when there is one, and implementation->Release():   *)
(* those were the last references, so an in-process object is destroyed.   *)
ReleaseImplementation(from, to) ==
  LET i == main.implementation IN
  /\ Goto(from, to)
  /\ implRefs' = [implRefs EXCEPT ![i] = @ - (IF main.configure = Null THEN 1 ELSE 2)]
  /\ process' = [process EXCEPT ![i] = IF @ = "local" THEN "gone" ELSE @]
  /\ UNCHANGED <<plugin, adminLock, frames, shellRefs, connSink, sink, methods,
                 state, closing, jobs>>

(* connection->Terminate(), on the connection looked up before the          *)
(* releases: the process goes and its connection closes, unless it had     *)
(* crashed before or after the look-up, and then nothing happens.          *)
Terminate(from, to) ==
  LET c == main.connectionId IN
  /\ Goto(from, to)
  /\ IF c # Null /\ process[c] = "up"
       THEN /\ process' = [process EXCEPT ![c] = "gone"]
            /\ closing' = closing \cup {c}
       ELSE UNCHANGED <<process, closing>>
  /\ UNCHANGED <<plugin, adminLock, frames, held, state, jobs>>

-----------------------------------------------------------------------------
(* The failure path of Initialize.                                         *)

(* Mutant: _service is not reset.                                          *)
FailResetKeepsService ==
  /\ Goto("fReset", IF main.implementation = Null THEN "fUnwatch" ELSE "fRelease")
  /\ UnlockMain
  /\ connectionId' = Null /\ isShuttingDown' = FALSE
  /\ UNCHANGED <<service, implementation, configure, frames, held, host>>

FailReset ==
  /\ Goto("fReset", IF main.implementation = Null THEN "fUnwatch" ELSE "fRelease")
  /\ UnlockMain
  /\ service' = FALSE /\ connectionId' = Null /\ isShuttingDown' = FALSE
  /\ UNCHANGED <<implementation, configure, frames, held, host>>

(* Mutants: the failure path keeps its reference on the shell; it leaves    *)
(* its observer registered.                                                *)
FailKeepsShell ==
  /\ main.pc = "fUnwatch" /\ cb.pc = "idle"
  /\ connSink' = FALSE /\ main' = Idle /\ state' = "failed"
  /\ UNCHANGED <<plugin, adminLock, frames, shellRefs, implRefs, sink, methods,
                 process, closing, jobs>>
FailStaysRegistered ==
  /\ main.pc = "fUnwatch"
  /\ shellRefs' = shellRefs - 1 /\ main' = Idle /\ state' = "failed"
  /\ UNCHANGED <<plugin, adminLock, frames, connSink, implRefs, sink, methods,
                 process, closing, jobs>>

(* shell->Unregister(&_connectionNotification), shell->Release(), and       *)
(* Initialize returns its message.                                         *)
FailUnwatch ==
  /\ main.pc = "fUnwatch" /\ cb.pc = "idle"
  /\ connSink' = FALSE /\ shellRefs' = shellRefs - 1
  /\ main' = Idle /\ state' = "failed"
  /\ UNCHANGED <<plugin, adminLock, frames, implRefs, sink, methods, process, closing, jobs>>

InitializeFailure ==
  \/ FailReset
  \/ ReleaseImplementation("fRelease", "fTerminate")
  \/ Terminate("fTerminate", "fUnwatch")
  \/ FailUnwatch

-----------------------------------------------------------------------------
(* VoiceControl::Deinitialize.                                             *)

(* The framework passes its own shell: _service differs from it only when  *)
(* _service is nullptr, and then the call returns at once.                 *)
DeinitDetach ==
  /\ main.pc = "dDetach" /\ UnlockMain
  /\ IF service
       THEN /\ main' = [pc |-> "dUnwatch", implementation |-> implementation,
                        configure |-> configure, connectionId |-> connectionId]
            /\ isShuttingDown' = TRUE /\ service' = FALSE
            /\ implementation' = Null /\ configure' = Null /\ connectionId' = Null
            /\ UNCHANGED state
       ELSE main' = Idle /\ state' = "deactivated" /\ UNCHANGED plugin
  /\ UNCHANGED <<frames, held, process, closing, jobs>>

(* shell->Unregister(&_connectionNotification)                             *)
DeinitUnwatch ==
  /\ Goto("dUnwatch", IF main.implementation = Null THEN "dShell" ELSE "dSink")
  /\ cb.pc = "idle"
  /\ connSink' = FALSE
  /\ UNCHANGED <<plugin, adminLock, frames, shellRefs, implRefs, sink, methods, host>>

(* implementation->Unregister(&_notification)                              *)
DeinitSink ==
  /\ Goto("dSink", "dMethods")
  /\ sink' = sink \ {main.implementation}
  /\ UNCHANGED <<plugin, adminLock, frames, shellRefs, connSink, implRefs, methods, host>>

DeinitMethods ==
  /\ Goto("dMethods", "dRelease")
  /\ methods' = FALSE
  /\ UNCHANGED <<plugin, adminLock, frames, shellRefs, connSink, implRefs, sink, host>>

DeinitShell ==
  /\ Goto("dShell", "dDone")
  /\ shellRefs' = shellRefs - 1
  /\ UNCHANGED <<plugin, adminLock, frames, connSink, implRefs, sink, methods, host>>

DeinitDone ==
  /\ main.pc = "dDone" /\ UnlockMain
  /\ isShuttingDown' = FALSE /\ main' = Idle /\ state' = "deactivated"
  /\ UNCHANGED <<service, implementation, configure, connectionId, frames, held,
                 process, closing, jobs>>

Deinitialize ==
  \/ DeinitDetach \/ DeinitUnwatch \/ DeinitSink \/ DeinitMethods
  \/ ReleaseImplementation("dRelease", "dTerminate")
  \/ Terminate("dTerminate", "dShell")
  \/ DeinitShell \/ DeinitDone

-----------------------------------------------------------------------------
(* VoiceControl::Deactivated, on the thread that announces closings.       *)

AcquireCallback ==
  /\ cb.pc = "check" /\ adminLock = "free" /\ adminLock' = "cb"
  /\ UNCHANGED <<plugin, main, frames, held, host>>

(* Mutant: the connection is not compared.                                 *)
IsActive(c) == ~isShuttingDown /\ service

(* The connection is the plugin's, and the plugin is not on its way out.   *)
IsOurs(c) == ~isShuttingDown /\ service /\ c = connectionId

(* Mutants: the shell is used without a reference of its own; the lock is   *)
(* kept when the connection is another's.                                  *)
CheckWithoutAddRef ==
  /\ cb.pc = "check" /\ adminLock = "cb" /\ adminLock' = "free"
  /\ cb' = IF IsOurs(cb.connection) THEN [cb EXCEPT !.pc = "submit"] ELSE CallbackIdle
  /\ UNCHANGED <<plugin, main, call, held, host>>
CheckKeepsLock ==
  /\ cb.pc = "check" /\ adminLock = "cb"
  /\ IF IsOurs(cb.connection)
       THEN cb' = [cb EXCEPT !.pc = "submit"] /\ shellRefs' = shellRefs + 1 /\ adminLock' = "free"
       ELSE cb' = CallbackIdle /\ UNCHANGED <<adminLock, shellRefs>>
  /\ UNCHANGED <<plugin, main, call, connSink, implRefs, sink, methods, host>>

DeactivatedCheck ==
  /\ cb.pc = "check" /\ adminLock = "cb" /\ adminLock' = "free"
  /\ IF IsOurs(cb.connection)
       THEN cb' = [cb EXCEPT !.pc = "submit"] /\ shellRefs' = shellRefs + 1
       ELSE cb' = CallbackIdle /\ UNCHANGED shellRefs
  /\ UNCHANGED <<plugin, main, call, connSink, implRefs, sink, methods, host>>

(* Mutant: no job is submitted.                                            *)
SubmitNothing ==
  /\ cb.pc = "submit" /\ cb' = [cb EXCEPT !.pc = "release"]
  /\ UNCHANGED <<plugin, adminLock, main, call, held, host>>

(* The job keeps a reference on the shell of its own.                      *)
DeactivatedSubmit ==
  /\ cb.pc = "submit" /\ cb' = [cb EXCEPT !.pc = "release"]
  /\ jobs' = jobs \cup {cb.connection} /\ shellRefs' = shellRefs + 1
  /\ UNCHANGED <<plugin, adminLock, main, call, connSink, implRefs, sink, methods,
                 state, process, closing>>

DeactivatedRelease ==
  /\ cb.pc = "release" /\ cb' = CallbackIdle
  /\ shellRefs' = shellRefs - 1
  /\ UNCHANGED <<plugin, adminLock, main, call, connSink, implRefs, sink, methods, host>>

Deactivated == DeactivatedCheck \/ DeactivatedSubmit \/ DeactivatedRelease

-----------------------------------------------------------------------------
(* The "setVoiceInit" lambda: it reads _implementation without _adminLock  *)
(* and calls through what it read.  The framework accepts a call only while *)
(* the plugin is activated, and does not wait for it when it deactivates.  *)

InvokeMethod(r) ==
  /\ call[r].pc = "idle" /\ methods /\ state = "activated" /\ main.pc = "idle"
  /\ call' = [call EXCEPT ![r].pc = "entered"]
  /\ UNCHANGED <<plugin, adminLock, main, cb, held, host>>

ReadImplementation(r) ==
  /\ call[r].pc = "entered"
  /\ call' = [call EXCEPT ![r] = [pc |-> "calling", implementation |-> implementation]]
  /\ UNCHANGED <<plugin, adminLock, main, cb, held, host>>

ReturnFromMethod(r) ==
  /\ call[r].pc = "calling" /\ call' = [call EXCEPT ![r] = CallIdle]
  /\ UNCHANGED <<plugin, adminLock, main, cb, held, host>>

SetVoiceInitCall ==
  \E r \in Request : InvokeMethod(r) \/ ReadImplementation(r) \/ ReturnFromMethod(r)

-----------------------------------------------------------------------------
(* The framework and the remote processes (external).                      *)

(* It initializes a deactivated plugin, deinitializes an activated one, and *)
(* after a failed Initialize calls Deinitialize or not, depending on its   *)
(* version.                                                                *)
Transition ==
  /\ \/ state = "deactivated" /\ Goto("idle", "iEnter") /\ UNCHANGED state
     \/ state \in {"activated", "failed"} /\ Goto("idle", "dDetach") /\ UNCHANGED state
     \/ state = "failed" /\ main.pc = "idle" /\ state' = "deactivated" /\ UNCHANGED main
  /\ UNCHANGED <<plugin, adminLock, frames, held, process, closing, jobs>>

(* The worker pool runs a job: it deactivates an activated plugin, waits   *)
(* for a transition in progress, and is void otherwise.                    *)
RunJob(c) ==
  /\ c \in jobs /\ main.pc = "idle"
  /\ jobs' = jobs \ {c} /\ shellRefs' = shellRefs - 1
  /\ main' = IF state = "activated" THEN [main EXCEPT !.pc = "dDetach"] ELSE main
  /\ UNCHANGED <<plugin, adminLock, frames, connSink, implRefs, sink, methods,
                 state, process, closing>>

Crash(i) ==
  /\ process[i] = "up"
  /\ process' = [process EXCEPT ![i] = "crashed"] /\ closing' = closing \cup {i}
  /\ UNCHANGED <<plugin, adminLock, main, frames, held, state, jobs>>

ForeignCloses(f) ==
  /\ f \notin closing /\ closing' = closing \cup {f}
  /\ UNCHANGED <<plugin, adminLock, main, frames, held, state, process, jobs>>

(* A closed connection is announced to whoever observes at that moment.    *)
Announce(c) ==
  /\ c \in closing /\ cb.pc = "idle"
  /\ closing' = closing \ {c}
  /\ cb' = IF connSink THEN [pc |-> "check", connection |-> c] ELSE cb
  /\ UNCHANGED <<plugin, adminLock, main, call, held, state, process, jobs>>

Framework ==
  \/ Transition
  \/ \E i \in Instance : RunJob(i) \/ Crash(i) \/ Announce(i)
  \/ \E f \in Foreign : ForeignCloses(f) \/ Announce(f)

Main == AcquireMain \/ Initialize \/ InitializeFailure \/ Deinitialize
Callback == AcquireCallback \/ Deactivated

Next == Main \/ Callback \/ SetVoiceInitCall \/ Framework

Spec == Init /\ [][Next]_vars

(* The host serves every waiter: each thread of the plugin runs on, a lock  *)
(* and the framework's announcements reach everyone who waits for them     *)
(* (hence SF where the condition can flicker), and the worker pool runs    *)
(* its jobs.  Nothing forces an activation, a crash or a call.             *)
Fairness ==
  /\ SF_vars(Main) /\ SF_vars(Callback)
  /\ \A c \in Instance \cup Foreign : SF_vars(Announce(c))
  /\ \A c \in Instance : SF_vars(RunJob(c))

FairSpec == Spec /\ Fairness

-----------------------------------------------------------------------------
FlagsTypeOK == service \in BOOLEAN /\ isShuttingDown \in BOOLEAN
               /\ connSink \in BOOLEAN /\ methods \in BOOLEAN
ControlTypeOK ==
  /\ FlagsTypeOK
  /\ implementation \in Instance \cup {Null}
  /\ configure \in Instance \cup {Null}
  /\ connectionId \in Instance \cup {Null}
  /\ adminLock \in {"free", "main", "cb"}
  /\ main \in [pc : {"idle"} \cup InitializePoints \cup FailurePoints \cup DeinitPoints,
               implementation : Instance \cup {Null}, configure : Instance \cup {Null},
               connectionId : Instance \cup {Null}]
  /\ cb \in [pc : {"idle", "check", "submit", "release"},
             connection : Instance \cup Foreign \cup {Null}]
  /\ call \in [Request -> [pc : {"idle", "entered", "calling"},
                           implementation : Instance \cup {Null}]]
  /\ implRefs \in [Instance -> 0 .. 2]
  /\ sink \subseteq Instance
  /\ state \in {"deactivated", "activated", "failed"}
  /\ process \in [Instance -> {"unborn", "up", "local", "crashed", "gone"}]
  /\ closing \subseteq Instance \cup Foreign /\ jobs \subseteq Instance

(* Every variable has its type; in particular no reference count of the     *)
(* plugin ever drops below zero (AddRef/Release in VoiceControl.cpp).      *)
TypeOK == ControlTypeOK /\ shellRefs \in Nat

(* The assertions of Initialize (VoiceControl.cpp:53-56) hold whenever it   *)
(* enters: no earlier Initialize or Deinitialize, on any of their paths,   *)
(* leaves a member behind.                                                 *)
InitializeAsserts ==
  main.pc = "iEnter" =>
    ~service /\ implementation = Null /\ configure = Null /\ connectionId = Null

(* The plugin's reference on the shell, the callback's and one per job      *)
(* account for every reference on it, whatever way the failure path,       *)
(* Deinitialize and Deactivated interleave (AddRef at 59 and 218, Release  *)
(* at 147, 204 and 226).                                                   *)
OwnsShell ==
  service \/ main.pc \in (FailurePoints \ {"fReset"}) \cup (DeinitPoints \ {"dDetach", "dDone"})
ShellAccounting ==
  shellRefs = (IF OwnsShell THEN 1 ELSE 0) + Cardinality(jobs)
              + (IF cb.pc \in {"submit", "release"} THEN 1 ELSE 0)

(* Between two activations nothing of the last one is left: no observer or  *)
(* method registered, no reference on an implementation, and none still    *)
(* running, although its process may have crashed at any point.            *)
QuiescentClean ==
  main.pc = "idle" /\ state = "deactivated" =>
    /\ ~connSink /\ sink = {} /\ ~methods
    /\ \A i \in Instance : implRefs[i] = 0 /\ process[i] \notin {"up", "local"}

(* A process is terminated only after every reference on its object was     *)
(* released (lines 135-142 and 186-201), never under a live one.           *)
TerminatedUnreferenced == \A i \in Instance : process[i] = "gone" => implRefs[i] = 0

(* Deactivated submits a job for a process that died by itself and was the  *)
(* plugin's: never for another plugin's connection, nor for the closing    *)
(* that Deinitialize or a failed Initialize causes with Terminate, even    *)
(* when it is announced while they run.                                    *)
NoSpuriousJob == \A c \in jobs : c \in Instance /\ process[c] = "crashed"

(* Initialize and Deinitialize return: no wait for _adminLock and no wait  *)
(* for a callback in progress lasts for ever.                              *)
ActivationReturns == main.pc # "idle" ~> main.pc = "idle"

(* A crash of the process the plugin is connected to, announced to it,      *)
(* ends in the plugin's letting go of that connection.                     *)
CrashHandled ==
  \A i \in Instance :
    (connectionId = i /\ i \in closing) ~> connectionId # i

(* An activated plugin whose process died will hear of it: the closing is   *)
(* to be announced, is being handled, or has its job.  The guide says      *)
(* "If it matches your plugin's connectionId, the plugin should submit a   *)
(* deactivation job to handle the out-of-process failure gracefully."      *)
CrashNoticed ==
  main.pc = "idle" /\ state = "activated" /\ process[connectionId] = "crashed"
    => connectionId \in closing \cup jobs \cup {cb.connection}

(* What keeps CrashHandled true without any fairness: while the plugin stays *)
(* connected to a process that was up when it published the connection, a  *)
(* crash of it is in good hands at every step: to be announced, in the     *)
(* callback, with a job, or already the reason for a Deinitialize.  No     *)
(* lock, shutdown flag or earlier closing makes the plugin lose it.        *)
InHand(i) ==
  \/ i \in closing \cup jobs \/ main.pc = "dDetach"
  \/ cb.pc \in {"check", "submit"} /\ cb.connection = i
NoticeKept ==
  [][\A i \in Instance :
       connectionId = i /\ connectionId' = i /\ (process[i] = "up" \/ InHand(i))
         => process'[i] = "up" \/ InHand(i)']_vars

(* Nobody waits in a circle: whoever holds _adminLock is inside a section    *)
(* that ends by itself, and never at a point where Initialize or           *)
(* Deinitialize wait for the callback in progress, which itself waits for   *)
(* _adminLock (Register and Unregister of _connectionNotification, outside *)
(* the sections of Initialize and Deinitialize).                           *)
NoWaitUnderLock ==
  /\ adminLock = "main" => main.pc \in LockPoints
  /\ adminLock = "cb" => cb.pc = "check"

(* A setVoiceInit call is made through an object the plugin still           *)
(* references (line 110).                                                  *)
CallsThroughLiveObject ==
  \A r \in Request : call[r].pc = "calling" =>
    call[r].implementation # Null /\ implRefs[call[r].implementation] > 0
=============================================================================
