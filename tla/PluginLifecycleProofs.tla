----------------------- MODULE PluginLifecycleProofs -----------------------
(***************************************************************************)
(* Proofs about PluginLifecycle, for any number of activations, foreign    *)
(* connections and calls, in and out of process.  The invariant ties what  *)
(* the plugin holds to the program point of its main thread.               *)
(***************************************************************************)
EXTENDS PluginLifecycle, FiniteSetTheorems, TLAPS

(* Initialize has returned "" and Deinitialize has not detached yet.       *)
Active == main.pc \in {"idle", "dDetach"} /\ state = "activated"

(* The implementation the plugin has references on, and its configure.     *)
UsesLocals == main.pc \in {"iConfigure", "iSink", "iPublish", "iMethods", "fReset", "fRelease",
                           "dUnwatch", "dSink", "dMethods", "dRelease"}
Current          == IF UsesLocals THEN main.implementation ELSE implementation
CurrentConfigure == IF UsesLocals THEN main.configure ELSE configure
IdOf(i) == IF OutOfProcess THEN i ELSE Null

StateInv ==
  /\ main.pc \in InitializePoints \cup FailurePoints => state = "deactivated"
  /\ main.pc = "dDetach" => state \in {"activated", "failed"}
  /\ main.pc \in DeinitPoints \ {"dDetach"} => state = "activated"

MembersInv ==
  /\ service <=> Active \/ main.pc \in (InitializePoints \ {"iEnter"}) \cup {"fReset"}
  /\ implementation # Null <=> Active \/ main.pc = "iMethods"
  /\ configure = implementation /\ connectionId = IdOf(implementation)

LocalsInv ==
  /\ main.pc \in {"idle", "iEnter", "iWatch", "iRoot", "dDetach"} => main.implementation = Null
  /\ main.pc \in {"iConfigure", "iSink", "iPublish", "iMethods", "fRelease", "fTerminate"}
                 \cup (DeinitPoints \ {"dDetach"}) => main.implementation # Null
  /\ main.configure \in {Null, main.implementation}
  /\ main.pc = "iConfigure" => main.configure = Null
  /\ main.pc \in {"iSink", "iPublish", "iMethods", "dUnwatch", "dSink", "dMethods", "dRelease"}
       => main.configure = main.implementation
  /\ main.pc = "iMethods" => implementation = main.implementation
  /\ main.connectionId = IdOf(main.implementation)

HeldInv ==
  /\ connSink <=> Active \/ main.pc \in (InitializePoints \ {"iEnter", "iWatch"})
                                        \cup FailurePoints \cup {"dUnwatch"}
  /\ methods <=> Active \/ main.pc \in {"dUnwatch", "dSink", "dMethods"}
  /\ sink = IF Active \/ main.pc \in {"iPublish", "iMethods", "dUnwatch", "dSink"}
              THEN {Current} ELSE {}
  /\ \A i \in Instance :
       implRefs[i] = IF i # Current THEN 0 ELSE IF CurrentConfigure = Null THEN 1 ELSE 2

ProcessInv ==
  /\ \A i \in Instance :
       /\ process[i] \in {"up", "local"} =>
            i = Current \/ (main.pc \in {"fTerminate", "dTerminate"} /\ i = main.implementation
                            /\ process[i] = "up")
       /\ process[i] = "local" => ~OutOfProcess
       /\ process[i] \in {"up", "crashed"} => OutOfProcess
       /\ i = Current => process[i] \notin {"unborn", "gone"}

(* A connection closes once: it is to be announced, being handled or named  *)
(* by a job, and a job is the plugin's and comes from a crash.             *)
ClosingInv ==
  /\ cb.pc = "idle" <=> cb.connection = Null
  /\ \A i \in Instance :
       /\ i \in closing \cup jobs \cup {cb.connection} => process[i] \in {"crashed", "gone"}
       /\ i \in closing => i \notin jobs /\ i # cb.connection
       /\ i \in jobs => i # cb.connection \/ cb.pc = "release"
       /\ i \in jobs => process[i] = "crashed"
  /\ cb.pc \in {"submit", "release"} =>
       cb.connection \in Instance /\ process[cb.connection] = "crashed"

ControlInv == /\ ControlTypeOK /\ StateInv /\ MembersInv /\ LocalsInv /\ HeldInv
              /\ ProcessInv /\ ClosingInv

Accounting == IsFiniteSet(jobs) /\ ShellAccounting

-----------------------------------------------------------------------------
(* The invariant holds initially.                                          *)
LEMMA ControlInit == Init => ControlInv
<1> SUFFICES ASSUME Init PROVE ControlInv
  OBVIOUS
<1> USE ConstantsAssumption DEF ConstantsAssumption, Init, Idle, CallbackIdle, CallIdle
<1>1. ControlTypeOK
  <2>1. FlagsTypeOK
    BY Zenon DEF FlagsTypeOK
  <2>2. main.pc = "idle" /\ cb.pc = "idle"
    OBVIOUS
  <2> QED BY <2>1, <2>2 DEF ControlTypeOK
<1>2. StateInv /\ MembersInv /\ LocalsInv
  BY DEF StateInv, MembersInv, LocalsInv, Active, IdOf, InitializePoints, FailurePoints,
         DeinitPoints
<1>3. HeldInv /\ ProcessInv /\ ClosingInv
  BY DEF HeldInv, ProcessInv, ClosingInv, Active, UsesLocals, Current, CurrentConfigure,
         InitializePoints, FailurePoints
<1> QED BY <1>1, <1>2, <1>3 DEF ControlInv

(* The steps of Initialize on its successful path preserve it.              *)
LEMMA MainInitialize ==
  ControlInv /\ (AcquireMain \/ Initialize) => ControlInv'
<1> SUFFICES ASSUME ControlInv, AcquireMain \/ Initialize PROVE ControlInv'
  OBVIOUS
<1> USE ConstantsAssumption DEF ConstantsAssumption, ControlInv, Active, UsesLocals, IdOf,
      InitializePoints, FailurePoints, DeinitPoints, plugin, frames, held, host, Goto,
      Idle, CallbackIdle, CallIdle, UnlockMain
<1>1. CASE AcquireMain
  <2> USE <1>1 DEF AcquireMain, LockPoints
  <2>1. FlagsTypeOK'
    BY Zenon DEF ControlTypeOK, FlagsTypeOK
  <2> QED
    BY <2>1 DEF ControlTypeOK, StateInv, MembersInv, LocalsInv, HeldInv, ProcessInv, ClosingInv,
           Current, CurrentConfigure
<1>2. CASE InitEnter
  <2> USE <1>2 DEF InitEnter
  <2>1. FlagsTypeOK'
    BY Zenon DEF ControlTypeOK, FlagsTypeOK
  <2> QED
    BY <2>1 DEF ControlTypeOK, StateInv, MembersInv, LocalsInv, HeldInv, ProcessInv, ClosingInv,
           Current, CurrentConfigure
<1>3. CASE InitWatch
  <2> USE <1>3 DEF InitWatch
  <2>1. FlagsTypeOK'
    BY Zenon DEF ControlTypeOK, FlagsTypeOK
  <2> QED
    BY <2>1 DEF ControlTypeOK, StateInv, MembersInv, LocalsInv, HeldInv, ProcessInv, ClosingInv,
           Current, CurrentConfigure
<1>4. CASE InitRoot
  <2>1. FlagsTypeOK'
    BY <1>4, Zenon DEF InitRoot, ControlTypeOK, FlagsTypeOK
  <2>2. main.pc = "iRoot"
        /\ UNCHANGED <<plugin, adminLock, frames, shellRefs, connSink, sink, methods,
                       state, closing, jobs>>
    BY <1>4 DEF InitRoot
  <2>3. ASSUME main' = [main EXCEPT !.pc = "fReset"], process' = process, implRefs' = implRefs
        PROVE ControlInv'
    <3> USE <2>3, <2>2
    <3>1. ControlTypeOK'
      BY <2>1 DEF ControlTypeOK, LocalsInv
    <3>2. StateInv' /\ MembersInv' /\ LocalsInv'
      BY DEF ControlTypeOK, StateInv, MembersInv, LocalsInv
    <3>3. HeldInv' /\ ProcessInv' /\ ClosingInv'
      BY DEF ControlTypeOK, StateInv, MembersInv, LocalsInv, HeldInv, ProcessInv, ClosingInv,
             Current, CurrentConfigure
    <3> QED BY <3>1, <3>2, <3>3
  <2>4. ASSUME NEW i \in Instance, process[i] = "unborn",
               process' = [process EXCEPT ![i] = IF OutOfProcess THEN "up" ELSE "local"],
               implRefs' = [implRefs EXCEPT ![i] = 1],
               main' = [main EXCEPT !.pc = "iConfigure", !.implementation = i,
                                    !.connectionId = IF OutOfProcess THEN i ELSE Null]
        PROVE ControlInv'
    <3> USE <2>4, <2>2
    <3>1. main' \in [pc : {"iConfigure"}, implementation : Instance \cup {Null},
                    configure : Instance \cup {Null}, connectionId : Instance \cup {Null}]
      BY DEF ControlTypeOK
    <3>2. implRefs' \in [Instance -> 0 .. 2]
      BY DEF ControlTypeOK
    <3>3. process' \in [Instance -> {"unborn", "up", "local", "crashed", "gone"}]
      BY DEF ControlTypeOK
    <3>4. ControlTypeOK'
      BY <2>1, <3>1, <3>2, <3>3 DEF ControlTypeOK
    <3>5. StateInv' /\ MembersInv' /\ LocalsInv'
      BY DEF ControlTypeOK, StateInv, MembersInv, LocalsInv
    <3>6. HeldInv' /\ ProcessInv' /\ ClosingInv'
      BY DEF ControlTypeOK, StateInv, MembersInv, LocalsInv, HeldInv, ProcessInv, ClosingInv,
             Current, CurrentConfigure
    <3> QED BY <3>4, <3>5, <3>6
  <2> QED BY <1>4, <2>3, <2>4 DEF InitRoot
<1>5. CASE InitConfigure
  <2>1. FlagsTypeOK'
    BY <1>5, Zenon DEF InitConfigure, ControlTypeOK, FlagsTypeOK
  <2>2. main.pc = "iConfigure"
        /\ UNCHANGED <<plugin, adminLock, frames, shellRefs, connSink, sink, methods, host>>
    BY <1>5 DEF InitConfigure
  <2>3. ASSUME main' = [main EXCEPT !.pc = "fReset"], implRefs' = implRefs
        PROVE ControlInv'
    <3> USE <2>3, <2>2
    <3>1. ControlTypeOK'
      BY <2>1, SMTT(30) DEF ControlTypeOK, LocalsInv
    <3>2. StateInv' /\ MembersInv' /\ LocalsInv'
      BY DEF ControlTypeOK, StateInv, MembersInv, LocalsInv
    <3>3. HeldInv' /\ ProcessInv' /\ ClosingInv'
      BY DEF ControlTypeOK, StateInv, MembersInv, LocalsInv, HeldInv, ProcessInv, ClosingInv,
             Current, CurrentConfigure
    <3> QED BY <3>1, <3>2, <3>3
  <2>4. ASSUME NEW next \in {"iSink", "fReset"},
               main' = [main EXCEPT !.pc = next, !.configure = main.implementation],
               implRefs' = [implRefs EXCEPT ![main.implementation] = @ + 1]
        PROVE ControlInv'
    <3> USE <2>4, <2>2
    <3>1. main.implementation \in Instance
      BY DEF ControlTypeOK, LocalsInv
    <3> USE <3>1
    <3>2. implRefs' \in [Instance -> 0 .. 2]
      BY DEF ControlTypeOK, LocalsInv, HeldInv, Current, CurrentConfigure
    <3>3. main' \in [pc : {"iSink", "fReset"}, implementation : Instance \cup {Null},
                    configure : Instance \cup {Null}, connectionId : Instance \cup {Null}]
      BY DEF ControlTypeOK
    <3>4. ControlTypeOK'
      BY <2>1, <3>2, <3>3 DEF ControlTypeOK
    <3>5. StateInv' /\ MembersInv' /\ LocalsInv'
      BY DEF ControlTypeOK, StateInv, MembersInv, LocalsInv
    <3>6. HeldInv' /\ ProcessInv' /\ ClosingInv'
      BY DEF ControlTypeOK, StateInv, MembersInv, LocalsInv, HeldInv, ProcessInv, ClosingInv,
             Current, CurrentConfigure
    <3> QED BY <3>4, <3>5, <3>6
  <2> QED BY <1>5, <2>3, <2>4 DEF InitConfigure
<1>6. CASE InitSink
  <2> USE <1>6 DEF InitSink, Reachable
  <2>1. FlagsTypeOK'
    BY Zenon DEF ControlTypeOK, FlagsTypeOK
  <2> QED
    BY <2>1 DEF ControlTypeOK, StateInv, MembersInv, LocalsInv, HeldInv, ProcessInv, ClosingInv,
           Current, CurrentConfigure
<1>7. CASE InitPublish
  <2> USE <1>7 DEF InitPublish
  <2>1. FlagsTypeOK'
    BY Zenon DEF ControlTypeOK, FlagsTypeOK
  <2> QED
    BY <2>1 DEF ControlTypeOK, StateInv, MembersInv, LocalsInv, HeldInv, ProcessInv, ClosingInv,
           Current, CurrentConfigure
<1>8. CASE InitMethods
  <2> USE <1>8 DEF InitMethods
  <2>1. FlagsTypeOK'
    BY Zenon DEF ControlTypeOK, FlagsTypeOK
  <2> QED
    BY <2>1 DEF ControlTypeOK, StateInv, MembersInv, LocalsInv, HeldInv, ProcessInv, ClosingInv,
           Current, CurrentConfigure
<1> QED BY <1>1, <1>2, <1>3, <1>4, <1>5, <1>6, <1>7, <1>8 DEF Initialize

(* The steps of the failure path of Initialize preserve it.                 *)
LEMMA MainFailure ==
  ControlInv /\ InitializeFailure => ControlInv'
<1> SUFFICES ASSUME ControlInv, InitializeFailure PROVE ControlInv'
  OBVIOUS
<1> USE ConstantsAssumption DEF ConstantsAssumption, ControlInv, Active, UsesLocals, IdOf,
      InitializePoints, FailurePoints, DeinitPoints, plugin, frames, held, host, Goto,
      Idle, CallbackIdle, CallIdle, UnlockMain
<1>1. CASE FailReset
  <2> USE <1>1 DEF FailReset
  <2>1. FlagsTypeOK'
    BY Zenon DEF ControlTypeOK, FlagsTypeOK
  <2> QED
    BY <2>1 DEF ControlTypeOK, StateInv, MembersInv, LocalsInv, HeldInv, ProcessInv, ClosingInv,
           Current, CurrentConfigure
<1>2. CASE ReleaseImplementation("fRelease", "fTerminate")
  <2> USE <1>2 DEF ReleaseImplementation
  <2>1. FlagsTypeOK'
    BY Zenon DEF ControlTypeOK, FlagsTypeOK
  <2> QED
    BY <2>1 DEF ControlTypeOK, StateInv, MembersInv, LocalsInv, HeldInv, ProcessInv, ClosingInv,
           Current, CurrentConfigure
<1>3. CASE Terminate("fTerminate", "fUnwatch")
  <2> USE <1>3 DEF Terminate
  <2>1. FlagsTypeOK'
    BY Zenon DEF ControlTypeOK, FlagsTypeOK
  <2> QED
    BY <2>1 DEF ControlTypeOK, StateInv, MembersInv, LocalsInv, HeldInv, ProcessInv, ClosingInv,
           Current, CurrentConfigure
<1>4. CASE FailUnwatch
  <2> USE <1>4 DEF FailUnwatch
  <2>1. FlagsTypeOK'
    BY Zenon DEF ControlTypeOK, FlagsTypeOK
  <2> QED
    BY <2>1 DEF ControlTypeOK, StateInv, MembersInv, LocalsInv, HeldInv, ProcessInv, ClosingInv,
           Current, CurrentConfigure
<1> QED BY <1>1, <1>2, <1>3, <1>4 DEF InitializeFailure

(* The steps of Deinitialize preserve it.                                   *)
LEMMA MainDeinitialize ==
  ControlInv /\ Deinitialize => ControlInv'
<1> SUFFICES ASSUME ControlInv, Deinitialize PROVE ControlInv'
  OBVIOUS
<1> USE ConstantsAssumption DEF ConstantsAssumption, ControlInv, Active, UsesLocals, IdOf,
      InitializePoints, FailurePoints, DeinitPoints, plugin, frames, held, host, Goto,
      Idle, CallbackIdle, CallIdle, UnlockMain
<1>1. CASE DeinitDetach
  <2> USE <1>1 DEF DeinitDetach
  <2>1. FlagsTypeOK'
    BY Zenon DEF ControlTypeOK, FlagsTypeOK
  <2>2. ControlTypeOK' /\ StateInv' /\ MembersInv' /\ LocalsInv'
    BY <2>1 DEF ControlTypeOK, StateInv, MembersInv, LocalsInv
  <2>3. HeldInv' /\ ProcessInv' /\ ClosingInv'
    BY DEF ControlTypeOK, StateInv, MembersInv, LocalsInv, HeldInv, ProcessInv, ClosingInv,
           Current, CurrentConfigure
  <2> QED BY <2>2, <2>3
<1>2. CASE DeinitUnwatch
  <2> USE <1>2 DEF DeinitUnwatch
  <2>1. FlagsTypeOK'
    BY Zenon DEF ControlTypeOK, FlagsTypeOK
  <2> QED
    BY <2>1 DEF ControlTypeOK, StateInv, MembersInv, LocalsInv, HeldInv, ProcessInv, ClosingInv,
           Current, CurrentConfigure
<1>3. CASE DeinitSink
  <2> USE <1>3 DEF DeinitSink
  <2>1. FlagsTypeOK'
    BY Zenon DEF ControlTypeOK, FlagsTypeOK
  <2> QED
    BY <2>1 DEF ControlTypeOK, StateInv, MembersInv, LocalsInv, HeldInv, ProcessInv, ClosingInv,
           Current, CurrentConfigure
<1>4. CASE DeinitMethods
  <2> USE <1>4 DEF DeinitMethods
  <2>1. FlagsTypeOK'
    BY Zenon DEF ControlTypeOK, FlagsTypeOK
  <2> QED
    BY <2>1 DEF ControlTypeOK, StateInv, MembersInv, LocalsInv, HeldInv, ProcessInv, ClosingInv,
           Current, CurrentConfigure
<1>5. CASE ReleaseImplementation("dRelease", "dTerminate")
  <2> USE <1>5 DEF ReleaseImplementation
  <2>1. FlagsTypeOK'
    BY Zenon DEF ControlTypeOK, FlagsTypeOK
  <2> QED
    BY <2>1 DEF ControlTypeOK, StateInv, MembersInv, LocalsInv, HeldInv, ProcessInv, ClosingInv,
           Current, CurrentConfigure
<1>6. CASE Terminate("dTerminate", "dShell")
  <2> USE <1>6 DEF Terminate
  <2>1. FlagsTypeOK'
    BY Zenon DEF ControlTypeOK, FlagsTypeOK
  <2> QED
    BY <2>1 DEF ControlTypeOK, StateInv, MembersInv, LocalsInv, HeldInv, ProcessInv, ClosingInv,
           Current, CurrentConfigure
<1>7. CASE DeinitShell
  <2> USE <1>7 DEF DeinitShell
  <2>1. FlagsTypeOK'
    BY Zenon DEF ControlTypeOK, FlagsTypeOK
  <2> QED
    BY <2>1 DEF ControlTypeOK, StateInv, MembersInv, LocalsInv, HeldInv, ProcessInv, ClosingInv,
           Current, CurrentConfigure
<1>8. CASE DeinitDone
  <2> USE <1>8 DEF DeinitDone
  <2>1. FlagsTypeOK'
    BY Zenon DEF ControlTypeOK, FlagsTypeOK
  <2> QED
    BY <2>1 DEF ControlTypeOK, StateInv, MembersInv, LocalsInv, HeldInv, ProcessInv, ClosingInv,
           Current, CurrentConfigure
<1> QED BY <1>1, <1>2, <1>3, <1>4, <1>5, <1>6, <1>7, <1>8 DEF Deinitialize

(* The steps of Deactivated preserve it.                                    *)
LEMMA Callbacks ==
  ControlInv /\ Callback => ControlInv'
<1> SUFFICES ASSUME ControlInv, Callback PROVE ControlInv'
  OBVIOUS
<1> USE ConstantsAssumption DEF ConstantsAssumption, ControlInv, Active, UsesLocals, IdOf,
      InitializePoints, FailurePoints, DeinitPoints, plugin, frames, held, host, Goto,
      Idle, CallbackIdle, CallIdle, UnlockMain
<1>1. CASE AcquireCallback
  <2> USE <1>1 DEF AcquireCallback
  <2>1. FlagsTypeOK'
    BY Zenon DEF ControlTypeOK, FlagsTypeOK
  <2> QED
    BY <2>1 DEF ControlTypeOK, StateInv, MembersInv, LocalsInv, HeldInv, ProcessInv, ClosingInv,
           Current, CurrentConfigure
<1>2. CASE DeactivatedCheck
  <2> USE <1>2 DEF DeactivatedCheck, IsOurs
  <2>1. FlagsTypeOK'
    BY Zenon DEF ControlTypeOK, FlagsTypeOK
  <2> QED
    BY <2>1 DEF ControlTypeOK, StateInv, MembersInv, LocalsInv, HeldInv, ProcessInv, ClosingInv,
           Current, CurrentConfigure
<1>3. CASE DeactivatedSubmit
  <2> USE <1>3 DEF DeactivatedSubmit
  <2>1. FlagsTypeOK'
    BY Zenon DEF ControlTypeOK, FlagsTypeOK
  <2> QED
    BY <2>1 DEF ControlTypeOK, StateInv, MembersInv, LocalsInv, HeldInv, ProcessInv, ClosingInv,
           Current, CurrentConfigure
<1>4. CASE DeactivatedRelease
  <2> USE <1>4 DEF DeactivatedRelease
  <2>1. FlagsTypeOK'
    BY Zenon DEF ControlTypeOK, FlagsTypeOK
  <2> QED
    BY <2>1 DEF ControlTypeOK, StateInv, MembersInv, LocalsInv, HeldInv, ProcessInv, ClosingInv,
           Current, CurrentConfigure
<1> QED BY <1>1, <1>2, <1>3, <1>4 DEF Callback, Deactivated

(* The calls of setVoiceInit preserve it.                                  *)
LEMMA Calls ==
  ControlInv /\ SetVoiceInitCall => ControlInv'
<1> SUFFICES ASSUME ControlInv, NEW r \in Request,
                    InvokeMethod(r) \/ ReadImplementation(r) \/ ReturnFromMethod(r)
             PROVE  ControlInv'
  BY DEF SetVoiceInitCall
<1> USE ConstantsAssumption DEF ConstantsAssumption, ControlInv, Active, UsesLocals, IdOf,
      InitializePoints, FailurePoints, DeinitPoints, plugin, frames, held, host, Goto,
      Idle, CallbackIdle, CallIdle, UnlockMain
<1>1. CASE InvokeMethod(r)
  <2> USE <1>1 DEF InvokeMethod
  <2>1. FlagsTypeOK'
    BY Zenon DEF ControlTypeOK, FlagsTypeOK
  <2> QED
    BY <2>1 DEF ControlTypeOK, StateInv, MembersInv, LocalsInv, HeldInv, ProcessInv, ClosingInv,
           Current, CurrentConfigure
<1>2. CASE ReadImplementation(r)
  <2> USE <1>2 DEF ReadImplementation
  <2>1. FlagsTypeOK'
    BY Zenon DEF ControlTypeOK, FlagsTypeOK
  <2> QED
    BY <2>1 DEF ControlTypeOK, StateInv, MembersInv, LocalsInv, HeldInv, ProcessInv, ClosingInv,
           Current, CurrentConfigure
<1>3. CASE ReturnFromMethod(r)
  <2> USE <1>3 DEF ReturnFromMethod
  <2>1. FlagsTypeOK'
    BY Zenon DEF ControlTypeOK, FlagsTypeOK
  <2> QED
    BY <2>1 DEF ControlTypeOK, StateInv, MembersInv, LocalsInv, HeldInv, ProcessInv, ClosingInv,
           Current, CurrentConfigure
<1> QED BY <1>1, <1>2, <1>3

(* The framework and the remote processes preserve it.                     *)
LEMMA Environment ==
  ControlInv /\ Framework => ControlInv'
<1> SUFFICES ASSUME ControlInv, Framework PROVE ControlInv'
  OBVIOUS
<1> USE ConstantsAssumption DEF ConstantsAssumption, ControlInv, Active, UsesLocals, IdOf,
      InitializePoints, FailurePoints, DeinitPoints, plugin, frames, held, host, Goto,
      Idle, CallbackIdle, CallIdle, UnlockMain
<1>1. CASE Transition
  <2> USE <1>1 DEF Transition
  <2>1. FlagsTypeOK'
    BY Zenon DEF ControlTypeOK, FlagsTypeOK
  <2>2. ControlTypeOK'
    BY <2>1 DEF ControlTypeOK
  <2>3. StateInv' /\ MembersInv'
    BY DEF ControlTypeOK, StateInv, MembersInv, LocalsInv
  <2>4. LocalsInv'
    BY DEF ControlTypeOK, MembersInv, LocalsInv
  <2>5. HeldInv'
    <3>1. ~UsesLocals /\ ~UsesLocals' /\ Active' = Active
      BY DEF StateInv, ControlTypeOK
    <3> QED
      BY <3>1 DEF ControlTypeOK, StateInv, HeldInv, Current, CurrentConfigure
  <2>6. ProcessInv' /\ ClosingInv'
    BY DEF ControlTypeOK, StateInv, MembersInv, LocalsInv, ProcessInv, ClosingInv,
           Current, CurrentConfigure
  <2> QED BY <2>2, <2>3, <2>4, <2>5, <2>6
<1>2. ASSUME NEW i \in Instance, RunJob(i) PROVE ControlInv'
  <2> USE <1>2 DEF RunJob
  <2>1. FlagsTypeOK'
    BY Zenon DEF ControlTypeOK, FlagsTypeOK
  <2>2. ControlTypeOK' /\ StateInv' /\ MembersInv' /\ LocalsInv'
    BY <2>1 DEF ControlTypeOK, StateInv, MembersInv, LocalsInv
  <2>3. HeldInv'
    <3>1. /\ ~UsesLocals /\ ~UsesLocals' /\ (Active' <=> Active)
          /\ main.pc = "idle" /\ main'.pc \in {"idle", "dDetach"}
      BY DEF ControlTypeOK
    <3>2. Current' = Current /\ CurrentConfigure' = CurrentConfigure
      BY <3>1 DEF Current, CurrentConfigure
    <3>3. UNCHANGED <<connSink, methods, sink, implRefs>>
      OBVIOUS
    <3> HIDE <1>2 DEF RunJob, Active, UsesLocals
    <3> QED BY <3>1, <3>2, <3>3 DEF HeldInv
  <2>4. ProcessInv'
    BY SMTT(30) DEF ControlTypeOK, StateInv, ProcessInv, Current, CurrentConfigure
  <2>5. ClosingInv'
    BY SMTT(30) DEF ControlTypeOK, StateInv, ClosingInv, Current
  <2> QED BY <2>2, <2>3, <2>4, <2>5
<1>3. ASSUME NEW i \in Instance, Crash(i) PROVE ControlInv'
  <2> USE <1>3 DEF Crash
  <2>1. FlagsTypeOK'
    BY Zenon DEF ControlTypeOK, FlagsTypeOK
  <2> QED
    BY <2>1 DEF ControlTypeOK, StateInv, MembersInv, LocalsInv, HeldInv, ProcessInv, ClosingInv,
           Current, CurrentConfigure
<1>4. ASSUME NEW f \in Foreign, ForeignCloses(f) PROVE ControlInv'
  <2> USE <1>4 DEF ForeignCloses
  <2>1. FlagsTypeOK'
    BY Zenon DEF ControlTypeOK, FlagsTypeOK
  <2> QED
    BY <2>1 DEF ControlTypeOK, StateInv, MembersInv, LocalsInv, HeldInv, ProcessInv, ClosingInv,
           Current, CurrentConfigure
<1>5. ASSUME NEW c \in Instance \cup Foreign, Announce(c) PROVE ControlInv'
  <2> USE <1>5 DEF Announce
  <2>1. FlagsTypeOK'
    BY Zenon DEF ControlTypeOK, FlagsTypeOK
  <2> QED
    BY <2>1 DEF ControlTypeOK, StateInv, MembersInv, LocalsInv, HeldInv, ProcessInv, ClosingInv,
           Current, CurrentConfigure
<1> QED BY <1>1, <1>2, <1>3, <1>4, <1>5 DEF Framework

(* The invariant of control is inductive.                                  *)
LEMMA ControlNext == ControlInv /\ [Next]_vars => ControlInv'
<1> SUFFICES ASSUME ControlInv, [Next]_vars PROVE ControlInv'
  OBVIOUS
<1>1. CASE UNCHANGED vars
  BY <1>1 DEF vars, plugin, frames, held, host, ControlInv, ControlTypeOK, FlagsTypeOK,
     StateInv, MembersInv, LocalsInv, HeldInv, ProcessInv, ClosingInv, Active, UsesLocals,
     Current, CurrentConfigure
<1>2. CASE Next
  BY <1>2, MainInitialize, MainFailure, MainDeinitialize, Callbacks, Calls, Environment
     DEF Next, Main
<1> QED BY <1>1, <1>2

(* Every way to take, hand on or drop a reference on the shell keeps the   *)
(* account of references balanced.                                         *)
LEMMA AccountingNext == ControlInv /\ Accounting /\ [Next]_vars => Accounting'
<1> SUFFICES ASSUME ControlInv, Accounting, [Next]_vars PROVE Accounting'
  OBVIOUS
<1> USE DEF Accounting, ControlInv, ControlTypeOK, plugin, frames, held, host, Goto
<1>1. Cardinality(jobs) \in Nat
  BY FS_CardinalityType
<1>2. ASSUME jobs' = jobs,
             shellRefs' - shellRefs = (IF OwnsShell' THEN 1 ELSE 0) - (IF OwnsShell THEN 1 ELSE 0)
               + (IF cb'.pc \in {"submit", "release"} THEN 1 ELSE 0)
               - (IF cb.pc \in {"submit", "release"} THEN 1 ELSE 0),
             shellRefs' \in Int
      PROVE  Accounting'
  BY <1>1, <1>2 DEF ShellAccounting
<1> HIDE DEF Accounting
<1>3. shellRefs \in Nat
  BY <1>1 DEF Accounting, ShellAccounting
<1> USE <1>3 DEF OwnsShell, FailurePoints, DeinitPoints
<1>4. CASE AcquireMain \/ Initialize
  <2> USE <1>2 DEF MembersInv, Active, InitializePoints
  <2>1. CASE AcquireMain \/ InitEnter \/ InitWatch
    BY <2>1 DEF AcquireMain, InitEnter, InitWatch
  <2>2. CASE InitRoot
    <3>1. /\ main.pc = "iRoot" /\ main'.pc \in {"iConfigure", "fReset"}
          /\ UNCHANGED <<service, shellRefs, cb, jobs>>
      BY <2>2 DEF InitRoot
    <3> QED BY <3>1
  <2>3. CASE InitConfigure
    BY <2>3 DEF InitConfigure
  <2>4. CASE InitSink \/ InitPublish \/ InitMethods
    BY <2>4 DEF InitSink, InitPublish, InitMethods, Idle
  <2> QED BY <1>4, <2>1, <2>2, <2>3, <2>4 DEF Initialize
<1>5. CASE InitializeFailure
  BY <1>2, <1>5 DEF InitializeFailure, FailReset, ReleaseImplementation, Terminate, FailUnwatch,
     MembersInv, Active, InitializePoints, Idle
<1>6. CASE Deinitialize
  BY <1>2, <1>6 DEF Deinitialize, DeinitDetach, DeinitUnwatch, DeinitSink, DeinitMethods,
     ReleaseImplementation, Terminate, DeinitShell, DeinitDone, Idle, MembersInv, Active,
     InitializePoints
<1>7. CASE AcquireCallback \/ DeactivatedCheck \/ DeactivatedRelease
  BY <1>2, <1>7 DEF AcquireCallback, DeactivatedCheck, DeactivatedRelease, CallbackIdle
<1>8. CASE DeactivatedSubmit
  <2>1. cb.connection \notin jobs /\ jobs' = jobs \cup {cb.connection}
    BY <1>8 DEF DeactivatedSubmit, ClosingInv
  <2>2. IsFiniteSet(jobs') /\ Cardinality(jobs') = Cardinality(jobs) + 1
    BY <2>1, FS_AddElement DEF Accounting
  <2> QED BY <1>1, <1>8, <2>2 DEF Accounting, ShellAccounting, DeactivatedSubmit
<1>9. CASE SetVoiceInitCall \/ UNCHANGED vars
  BY <1>2, <1>9 DEF SetVoiceInitCall, InvokeMethod, ReadImplementation, ReturnFromMethod, vars
<1>10. ASSUME NEW i \in Instance, RunJob(i) PROVE Accounting'
  <2>1. i \in jobs /\ jobs' = jobs \ {i}
    BY <1>10 DEF RunJob
  <2>2. IsFiniteSet(jobs') /\ Cardinality(jobs') = Cardinality(jobs) - 1
    BY <2>1, FS_RemoveElement DEF Accounting
  <2>3. OwnsShell' = OwnsShell
    BY <1>10 DEF RunJob
  <2>4. shellRefs' = shellRefs - 1 /\ cb' = cb
    BY <1>10 DEF RunJob
  <2> HIDE DEF OwnsShell
  <2> QED BY <1>1, <2>2, <2>3, <2>4 DEF Accounting, ShellAccounting
<1>11. CASE Framework /\ ~(\E i \in Instance : RunJob(i))
  BY <1>2, <1>11 DEF Framework, Transition, Crash, ForeignCloses, Announce, ClosingInv
<1> QED
  BY <1>4, <1>5, <1>6, <1>7, <1>8, <1>9, <1>10, <1>11 DEF Next, Main, Callback, Deactivated

(* The invariant of control and the account of references hold in every    *)
(* reachable state.                                                        *)
THEOREM Invariance == Spec => [](ControlInv /\ Accounting)
<1>1. Init => ControlInv /\ Accounting
  BY ControlInit, FS_EmptySet DEF Init, Accounting, ShellAccounting, OwnsShell, Idle,
     CallbackIdle, FailurePoints, DeinitPoints
<1>2. ControlInv /\ Accounting /\ [Next]_vars => ControlInv' /\ Accounting'
  BY ControlNext, AccountingNext
<1> QED BY <1>1, <1>2, PTL DEF Spec

(* Every reachable state is well typed; no count of references is negative. *)
THEOREM TypeCorrect == Spec => []TypeOK
<1>1. ControlInv /\ Accounting => TypeOK
  BY FS_CardinalityType DEF ControlInv, TypeOK, Accounting, ShellAccounting
<1> QED BY <1>1, Invariance, PTL

(* The references on the shell are exactly those that somebody will drop.   *)
THEOREM ShellAccounted == Spec => []ShellAccounting
<1>1. Accounting => ShellAccounting
  BY DEF Accounting
<1> QED BY <1>1, Invariance, PTL

(* The assertions at the start of Initialize never fail.                   *)
THEOREM AssertsHold == Spec => []InitializeAsserts
<1>1. ControlInv => InitializeAsserts
  BY ConstantsAssumption DEF ControlInv, InitializeAsserts, MembersInv, Active, IdOf,
     InitializePoints, ConstantsAssumption
<1> QED BY <1>1, Invariance, PTL

(* A deactivated plugin holds nothing and runs nothing.                    *)
THEOREM NothingLeft == Spec => []QuiescentClean
<1>1. ControlInv => QuiescentClean
  BY ConstantsAssumption DEF ControlInv, QuiescentClean, ControlTypeOK, MembersInv, HeldInv,
     ProcessInv, Active, UsesLocals, Current, InitializePoints, FailurePoints,
     ConstantsAssumption
<1> QED BY <1>1, Invariance, PTL

(* Terminate never hits a process whose object is still referenced.        *)
THEOREM TerminationLast == Spec => []TerminatedUnreferenced
<1>1. ControlInv => TerminatedUnreferenced
  BY DEF ControlInv, TerminatedUnreferenced, HeldInv, ProcessInv
<1> QED BY <1>1, Invariance, PTL

(* Jobs are for crashes of the plugin's own process, and for nothing else.  *)
THEOREM JobsAreCrashes == Spec => []NoSpuriousJob
<1>1. ControlInv => NoSpuriousJob
  BY DEF ControlInv, NoSpuriousJob, ControlTypeOK, ClosingInv
<1> QED BY <1>1, Invariance, PTL

(* Nobody waits for the lock's holder in a circle.                         *)
THEOREM LockHolderRuns == Spec => []NoWaitUnderLock
<1>1. Init => NoWaitUnderLock
  BY DEF Init, NoWaitUnderLock
<1>2. NoWaitUnderLock /\ [Next]_vars => NoWaitUnderLock'
  <2> SUFFICES ASSUME NoWaitUnderLock, [Next]_vars PROVE NoWaitUnderLock'
    OBVIOUS
  <2> USE DEF NoWaitUnderLock, LockPoints, Goto, plugin, frames, held, host
  <2>1. CASE AcquireMain \/ Initialize
    BY <2>1 DEF AcquireMain, Initialize, InitEnter, InitWatch, InitRoot, InitConfigure, InitSink,
       InitPublish, InitMethods, UnlockMain
  <2>2. CASE InitializeFailure
    BY <2>2 DEF InitializeFailure, FailReset, ReleaseImplementation, Terminate, FailUnwatch, UnlockMain
  <2>3. CASE Deinitialize
    BY <2>3 DEF Deinitialize, DeinitDetach, DeinitUnwatch, DeinitSink, DeinitMethods,
       ReleaseImplementation, Terminate, DeinitShell, DeinitDone, UnlockMain
  <2>4. CASE Callback
    BY <2>4 DEF Callback, AcquireCallback, Deactivated, DeactivatedCheck, DeactivatedSubmit,
       DeactivatedRelease
  <2>5. CASE SetVoiceInitCall \/ UNCHANGED vars
    BY <2>5 DEF SetVoiceInitCall, InvokeMethod, ReadImplementation, ReturnFromMethod, vars
  <2>6. CASE Framework
    BY <2>6 DEF Framework, Transition, RunJob, Crash, ForeignCloses, Announce
  <2> QED BY <2>1, <2>2, <2>3, <2>4, <2>5, <2>6 DEF Next, Main
<1> QED BY <1>1, <1>2, PTL DEF Spec

-----------------------------------------------------------------------------
(* A plugin with a shell is not shutting down.                             *)
ShutdownInv == service => ~isShuttingDown

LEMMA ShutdownNext == ShutdownInv /\ [Next]_vars => ShutdownInv'
<1> SUFFICES ASSUME ShutdownInv, [Next]_vars PROVE ShutdownInv'
  OBVIOUS
<1> USE DEF ShutdownInv, plugin, frames, held, host
<1>1. CASE AcquireMain \/ Initialize
  BY <1>1 DEF AcquireMain, Initialize, InitEnter, InitWatch, InitRoot, InitConfigure, InitSink,
     InitPublish, InitMethods
<1>2. CASE InitializeFailure
  BY <1>2 DEF InitializeFailure, FailReset, ReleaseImplementation, Terminate, FailUnwatch
<1>3. CASE Deinitialize
  BY <1>3 DEF Deinitialize, DeinitDetach, DeinitUnwatch, DeinitSink, DeinitMethods,
     ReleaseImplementation, Terminate, DeinitShell, DeinitDone
<1>4. CASE Callback \/ SetVoiceInitCall \/ Framework \/ UNCHANGED vars
  BY <1>4 DEF Callback, AcquireCallback, Deactivated, DeactivatedCheck, DeactivatedSubmit,
     DeactivatedRelease, SetVoiceInitCall, InvokeMethod, ReadImplementation, ReturnFromMethod,
     Framework, Transition, RunJob, Crash, ForeignCloses, Announce, vars
<1> QED BY <1>1, <1>2, <1>3, <1>4 DEF Next, Main

(* While the plugin has a connection it observes the closings, and takes    *)
(* the one of its own connection for its own.                              *)
LEMMA ConnectedListens ==
  ASSUME ControlInv, ShutdownInv, NEW i \in Instance, connectionId = i
  PROVE  /\ connSink /\ IsOurs(i)
         /\ main.pc \in {"idle", "dDetach", "iMethods"}
         /\ main.pc = "idle" => state = "activated"
BY ConstantsAssumption DEF ControlInv, ShutdownInv, MembersInv, HeldInv, IdOf, Active, IsOurs,
   InitializePoints, ConstantsAssumption

(* A crash of the connected process stays in good hands, step by step.      *)
THEOREM ClosingNotLost == Spec => NoticeKept
<1>1. ControlInv /\ ShutdownInv /\ [Next]_vars =>
        [\A i \in Instance :
           connectionId = i /\ connectionId' = i /\ (process[i] = "up" \/ InHand(i))
             => process'[i] = "up" \/ InHand(i)']_vars
  <2> SUFFICES ASSUME ControlInv, ShutdownInv, Next, NEW i \in Instance,
                      connectionId = i, connectionId' = i, process[i] = "up" \/ InHand(i)
               PROVE  process'[i] = "up" \/ InHand(i)'
    OBVIOUS
  <2>1. /\ connSink /\ IsOurs(i)
        /\ main.pc \in {"idle", "dDetach", "iMethods"}
        /\ main.pc = "idle" => state = "activated"
    BY ConnectedListens
  <2>2. i # Null /\ ControlTypeOK
    BY ConstantsAssumption DEF ConstantsAssumption, ControlInv
  <2> USE <2>2 DEF ControlTypeOK, InHand, plugin, frames, held, host, Goto
  <2>3. CASE AcquireMain \/ Initialize
    BY <2>1, <2>3 DEF AcquireMain, Initialize, InitEnter, InitWatch, InitRoot, InitConfigure,
       InitSink, InitPublish, InitMethods
  <2>4. CASE InitializeFailure
    BY <2>1, <2>4 DEF InitializeFailure, FailReset, ReleaseImplementation, Terminate, FailUnwatch
  <2>5. CASE Deinitialize
    BY <2>1, <2>5 DEF Deinitialize, DeinitDetach, DeinitUnwatch, DeinitSink, DeinitMethods,
       ReleaseImplementation, Terminate, DeinitShell, DeinitDone, IsOurs
  <2>6. CASE Callback
    BY <2>1, <2>6 DEF Callback, AcquireCallback, Deactivated, DeactivatedCheck, DeactivatedSubmit,
       DeactivatedRelease
  <2>7. CASE SetVoiceInitCall
    BY <2>7 DEF SetVoiceInitCall, InvokeMethod, ReadImplementation, ReturnFromMethod
  <2>8. CASE Transition \/ \E f \in Foreign : ForeignCloses(f)
    BY <2>8 DEF Transition, ForeignCloses
  <2>9. ASSUME NEW j \in Instance, RunJob(j) \/ Crash(j) PROVE process'[i] = "up" \/ InHand(i)'
    BY <2>1, <2>9 DEF RunJob, Crash
  <2>10. ASSUME NEW c \in Instance \cup Foreign, Announce(c)
         PROVE  process'[i] = "up" \/ InHand(i)'
    BY <2>1, <2>10 DEF Announce
  <2> QED BY <2>3, <2>4, <2>5, <2>6, <2>7, <2>8, <2>9, <2>10 DEF Next, Main, Framework
<1>2. Init => ShutdownInv
  BY DEF Init, ShutdownInv
<1> QED BY <1>1, <1>2, Invariance, ShutdownNext, PTL DEF Spec, NoticeKept
=============================================================================
