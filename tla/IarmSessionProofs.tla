------------------------- MODULE IarmSessionProofs -------------------------
(***************************************************************************)
(* Proofs about IarmSession, for any number of handlers and retries and in *)
(* any environments.  The invariant relates what the bus has of the object *)
(* to the point of Configure or of the destructor it has reached.          *)
(***************************************************************************)
EXTENDS IarmSession, TLAPS

Attaching == {"init", "busInit", "busConnect", "result", "retry", "own"}
Attached  == {"register", "check", "configured", "remove", "disconnect"}
Outside   == {"idle", "failed", "gone"}

LibraryInv ==
  /\ bus = "connected" <=> maker # "nobody"
  /\ bus # "connected" => registered = {} /\ unremoved = {} /\ ~unended

HandlersInv ==
  /\ pc \in {"check", "configured"} => handlersRegistered = Handlers
  /\ pc = "register" => handlersRegistered < Handlers
  /\ pc \notin {"register", "check", "configured", "remove"} => handlersRegistered = 0
  /\ registered \subseteq 1 .. handlersRegistered \cup unremoved
  /\ pc \in {"register", "check", "configured"} /\ maker = "self" =>
       1 .. handlersRegistered \subseteq registered

ObjectInv ==
  /\ service <=> pc \notin Outside
  /\ hasOwnProcess => pc \in Attached \cup {"term"}

(* In a process of its own there is nobody else's connection to find.       *)
OwnProcessInv ==
  "shared" \notin environment =>
    /\ ~alreadyConnected /\ maker # "other"
    /\ pc \in {"idle", "probe"} => maker = "nobody"
    /\ pc \in Attached => hasOwnProcess
    /\ pc \in {"term", "gone"} => maker = "nobody" \/ unended

(* In a steady environment what Configure has read of the connection stays  *)
(* true: the object takes the connection for its own exactly when it has    *)
(* made it, and has none, when it is outside or about to leave the bus, but *)
(* one that the bus refused to end.                                        *)
SteadyInv ==
  Steady =>
    /\ daemon
    /\ pc \in {"busInit", "busConnect", "retry"} => maker = "nobody"
    /\ pc \in Attaching => (alreadyConnected <=> maker = "other" \/ unended)
    /\ pc = "own" => bus = "connected"
    /\ pc \in Attached => (hasOwnProcess <=> maker = "self" /\ ~unended)
    /\ pc \in Outside \cup {"probe", "term"} /\ maker = "self" => unended
    /\ unended => maker = "self"
    /\ pc = "term" => maker # "other"

SessionInv == TypeOK /\ LibraryInv /\ HandlersInv /\ ObjectInv /\ OwnProcessInv /\ SteadyInv

-----------------------------------------------------------------------------
(* The invariant holds initially.                                          *)
LEMMA SessionInit == Init => SessionInv
<1> SUFFICES ASSUME Init PROVE SessionInv
  OBVIOUS
<1> USE SessionAssumption DEF SessionAssumption, Init
<1>1. TypeOK
  <2>1. retryCount \in 0 .. MaxRetry /\ handlersRegistered \in 0 .. Handlers
    OBVIOUS
  <2> QED BY <2>1 DEF TypeOK
<1>2. LibraryInv /\ HandlersInv
  BY DEF LibraryInv, HandlersInv
<1>3. ObjectInv /\ OwnProcessInv /\ SteadyInv
  BY DEF ObjectInv, OwnProcessInv, SteadyInv, Attaching, Attached, Outside
<1> QED BY <1>1, <1>2, <1>3 DEF SessionInv

LEMMA SessionNext == SessionInv /\ [Next]_vars => SessionInv'
<1> SUFFICES ASSUME SessionInv, [Next]_vars PROVE SessionInv'
  OBVIOUS
<1> USE SessionAssumption DEF SessionAssumption, SessionInv, Steady, locals, members, library, refused, world,
        Attaching, Attached, Outside
<1>1. CASE Configure
  <2> USE <1>1 DEF Configure
  <2>1. TypeOK'
    BY DEF TypeOK, HandlersInv
  <2>2. LibraryInv' /\ HandlersInv'
    BY DEF TypeOK, LibraryInv, HandlersInv
  <2>3. ObjectInv' /\ OwnProcessInv' /\ SteadyInv'
    BY DEF TypeOK, LibraryInv, ObjectInv, OwnProcessInv, SteadyInv
  <2> QED BY <2>1, <2>2, <2>3
<1>2. CASE Probe
  <2> USE <1>2 DEF Probe, IsConnected
  <2>1. TypeOK'
    BY DEF TypeOK, HandlersInv
  <2>2. LibraryInv' /\ HandlersInv'
    BY DEF TypeOK, LibraryInv, HandlersInv
  <2>3. ObjectInv' /\ OwnProcessInv' /\ SteadyInv'
    BY DEF TypeOK, LibraryInv, ObjectInv, OwnProcessInv, SteadyInv
  <2> QED BY <2>1, <2>2, <2>3
<1>3. CASE InitCheck
  <2> USE <1>3 DEF InitCheck, IsConnected
  <2>1. TypeOK'
    BY DEF TypeOK, HandlersInv
  <2>2. LibraryInv' /\ HandlersInv'
    BY DEF TypeOK, LibraryInv, HandlersInv
  <2>3. ObjectInv' /\ OwnProcessInv' /\ SteadyInv'
    BY DEF TypeOK, LibraryInv, ObjectInv, OwnProcessInv, SteadyInv
  <2> QED BY <2>1, <2>2, <2>3
<1>4. CASE BusInit
  <2> USE <1>4 DEF BusInit
  <2>1. TypeOK'
    BY DEF TypeOK, HandlersInv
  <2>2. LibraryInv' /\ HandlersInv'
    BY DEF TypeOK, LibraryInv, HandlersInv
  <2>3. ObjectInv' /\ OwnProcessInv' /\ SteadyInv'
    BY DEF TypeOK, LibraryInv, ObjectInv, OwnProcessInv, SteadyInv
  <2> QED BY <2>1, <2>2, <2>3
<1>5. CASE BusConnect
  <2> USE <1>5 DEF BusConnect
  <2>1. TypeOK'
    BY DEF TypeOK, HandlersInv
  <2>2. LibraryInv' /\ HandlersInv'
    BY DEF TypeOK, LibraryInv, HandlersInv
  <2>3. ObjectInv' /\ OwnProcessInv' /\ SteadyInv'
    BY DEF TypeOK, LibraryInv, ObjectInv, OwnProcessInv, SteadyInv
  <2> QED BY <2>1, <2>2, <2>3
<1>6. CASE ConnectResult
  <2> USE <1>6 DEF ConnectResult, IsConnected
  <2>1. TypeOK'
    BY DEF TypeOK, HandlersInv
  <2>2. LibraryInv' /\ HandlersInv'
    BY DEF TypeOK, LibraryInv, HandlersInv
  <2>3. ObjectInv' /\ OwnProcessInv' /\ SteadyInv'
    BY DEF TypeOK, LibraryInv, ObjectInv, OwnProcessInv, SteadyInv
  <2> QED BY <2>1, <2>2, <2>3
<1>7. CASE Retry
  <2> USE <1>7 DEF Retry
  <2>1. CASE /\ retryCount < MaxRetry /\ retryCount' = retryCount + 1 /\ pc' = "busInit"
             /\ UNCHANGED <<members, alreadyConnected>>
    <3> USE <2>1
    <3>1. retryCount' \in 0 .. MaxRetry
      BY DEF TypeOK
    <3>2. TypeOK'
      BY <3>1 DEF TypeOK
    <3>3. LibraryInv' /\ HandlersInv' /\ ObjectInv' /\ OwnProcessInv' /\ SteadyInv'
      BY DEF LibraryInv, HandlersInv, ObjectInv, OwnProcessInv, SteadyInv
    <3> QED BY <3>2, <3>3
  <2>2. CASE GiveUp
    <3> USE <2>2 DEF GiveUp, LocalsGone
    <3>1. TypeOK'
      <4>1. 0 \in 0 .. MaxRetry
        OBVIOUS
      <4> QED BY <4>1 DEF TypeOK
    <3>2. LibraryInv' /\ HandlersInv' /\ ObjectInv' /\ OwnProcessInv' /\ SteadyInv'
      BY DEF LibraryInv, HandlersInv, ObjectInv, OwnProcessInv, SteadyInv
    <3> QED BY <3>1, <3>2
  <2> QED BY <2>1, <2>2
<1>8. CASE Own
  <2> USE <1>8 DEF Own, LocalsGone
  <2>1. TypeOK'
    <3>1. 0 \in 0 .. MaxRetry
      OBVIOUS
    <3> QED BY <3>1 DEF TypeOK
  <2>2. LibraryInv' /\ HandlersInv'
    BY DEF TypeOK, LibraryInv, HandlersInv
  <2>3. ObjectInv' /\ OwnProcessInv' /\ SteadyInv'
    BY DEF TypeOK, LibraryInv, ObjectInv, OwnProcessInv, SteadyInv
  <2> QED BY <2>1, <2>2, <2>3
<1>9. CASE RegisterHandler
  <2> USE <1>9 DEF RegisterHandler
  <2>1. CASE HandlerRegistered
    <3> USE <2>1 DEF HandlerRegistered
    <3>1. /\ handlersRegistered' \in 1 .. Handlers /\ handlersRegistered' = handlersRegistered + 1
          /\ pc' = "register" => handlersRegistered' < Handlers
          /\ pc' = "check" => handlersRegistered' = Handlers
          /\ pc' \in {"register", "check"}
      BY DEF TypeOK, HandlersInv
    <3> DEFINE h == handlersRegistered'
    <3>2. 1 .. h = (1 .. handlersRegistered) \cup {h} /\ h \in 1 .. Handlers
      BY <3>1 DEF TypeOK
    <3>3. /\ registered' \subseteq 1 .. Handlers /\ unremoved' \subseteq 1 .. Handlers
          /\ registered' \subseteq 1 .. h \cup unremoved'
          /\ 1 .. handlersRegistered \subseteq registered => 1 .. h \subseteq registered'
      <4>1. registered' = registered \cup {h} /\ unremoved' = unremoved \ {h}
        BY <3>1
      <4> HIDE DEF h
      <4> QED BY <3>2, <4>1 DEF TypeOK, HandlersInv
    <3> HIDE DEF h
    <3>4. TypeOK'
      BY <3>1, <3>3 DEF TypeOK, h
    <3>5. LibraryInv' /\ ObjectInv' /\ OwnProcessInv' /\ SteadyInv'
      BY <3>1 DEF LibraryInv, ObjectInv, OwnProcessInv, SteadyInv
    <3>6. HandlersInv'
      BY <3>1, <3>3 DEF HandlersInv, h
    <3> QED BY <3>4, <3>5, <3>6
  <2>2. CASE pc' = "remove" /\ after' = "failed" /\ UNCHANGED <<service, handlersRegistered, registered, unremoved>>
    <3>1. TypeOK'
      BY <2>2 DEF TypeOK
    <3>2. LibraryInv' /\ HandlersInv' /\ ObjectInv' /\ OwnProcessInv' /\ SteadyInv'
      BY <2>2 DEF LibraryInv, HandlersInv, ObjectInv, OwnProcessInv, SteadyInv
    <3> QED BY <3>1, <3>2
  <2> QED BY <2>1, <2>2
<1>10. CASE CheckConnection
  <2> USE <1>10 DEF CheckConnection, IsConnected
  <2>1. TypeOK'
    BY DEF TypeOK, HandlersInv
  <2>2. LibraryInv' /\ HandlersInv'
    BY DEF TypeOK, LibraryInv, HandlersInv
  <2>3. ObjectInv' /\ OwnProcessInv' /\ SteadyInv'
    BY DEF TypeOK, LibraryInv, ObjectInv, OwnProcessInv, SteadyInv
  <2> QED BY <2>1, <2>2, <2>3
<1>11. CASE Destroy
  <2> USE <1>11 DEF Destroy
  <2>1. TypeOK'
    BY DEF TypeOK, HandlersInv
  <2>2. LibraryInv' /\ HandlersInv'
    BY DEF TypeOK, LibraryInv, HandlersInv
  <2>3. ObjectInv' /\ OwnProcessInv' /\ SteadyInv'
    BY DEF TypeOK, LibraryInv, ObjectInv, OwnProcessInv, SteadyInv
  <2> QED BY <2>1, <2>2, <2>3
<1>12. CASE RemoveHandlers
  <2> USE <1>12 DEF RemoveHandlers
  <2>1. PICK kept \in SUBSET (registered \cap 1 .. handlersRegistered) :
          /\ registered' = (registered \ (1 .. handlersRegistered)) \cup kept
          /\ unremoved' = unremoved \cup kept
    OBVIOUS
  <2>2. /\ registered' \subseteq registered /\ unremoved' \subseteq unremoved \cup registered
        /\ registered' \subseteq unremoved'
    BY <2>1 DEF HandlersInv
  <2>3. TypeOK'
    BY <2>2 DEF TypeOK
  <2>4. LibraryInv'
    BY <2>2 DEF LibraryInv
  <2>5. HandlersInv'
    BY <2>2 DEF HandlersInv
  <2>6. ObjectInv' /\ OwnProcessInv' /\ SteadyInv'
    BY DEF TypeOK, ObjectInv, OwnProcessInv, SteadyInv
  <2> QED BY <2>3, <2>4, <2>5, <2>6
<1>13. CASE Disconnect
  <2> USE <1>13 DEF Disconnect, Disconnected, DeinitReturns
  <2>1. TypeOK'
    BY DEF TypeOK, HandlersInv
  <2>2. LibraryInv'
    BY DEF LibraryInv
  <2>3. HandlersInv'
    <3>1. handlersRegistered = 0 /\ pc' \in {"term", "failed", "gone"}
      BY DEF HandlersInv, TypeOK
    <3>2. registered \subseteq unremoved
      BY <3>1 DEF HandlersInv
    <3>3. registered' \subseteq unremoved'
      BY <3>2
    <3> QED BY <3>1, <3>3 DEF HandlersInv
  <2>4. ObjectInv'
    BY DEF TypeOK, ObjectInv
  <2>5. OwnProcessInv'
    BY DEF TypeOK, LibraryInv, ObjectInv, OwnProcessInv
  <2>6. SteadyInv'
    BY DEF TypeOK, LibraryInv, ObjectInv, SteadyInv
  <2> QED BY <2>1, <2>2, <2>3, <2>4, <2>5, <2>6
<1>14. CASE Term
  <2> USE <1>14 DEF Term, Disconnected, DeinitReturns
  <2>1. TypeOK'
    BY DEF TypeOK, HandlersInv
  <2>2. LibraryInv'
    BY DEF LibraryInv
  <2>3. HandlersInv'
    <3>1. handlersRegistered = 0 /\ pc' \in {"failed", "gone"}
      BY DEF HandlersInv, TypeOK
    <3>2. registered \subseteq unremoved
      BY <3>1 DEF HandlersInv
    <3>3. registered' \subseteq unremoved'
      BY <3>2
    <3> QED BY <3>1, <3>3 DEF HandlersInv
  <2>4. ObjectInv'
    BY DEF TypeOK, ObjectInv
  <2>5. OwnProcessInv'
    BY DEF TypeOK, LibraryInv, ObjectInv, OwnProcessInv
  <2>6. SteadyInv'
    BY DEF TypeOK, LibraryInv, ObjectInv, SteadyInv
  <2> QED BY <2>1, <2>2, <2>3, <2>4, <2>5, <2>6
<1>15. CASE NextObject
  <2> USE <1>15 DEF NextObject
  <2>1. TypeOK'
    BY DEF TypeOK, HandlersInv
  <2>2. LibraryInv' /\ HandlersInv'
    BY DEF TypeOK, LibraryInv, HandlersInv
  <2>3. ObjectInv' /\ OwnProcessInv' /\ SteadyInv'
    BY DEF TypeOK, LibraryInv, ObjectInv, OwnProcessInv, SteadyInv
  <2> QED BY <2>1, <2>2, <2>3
<1>16. CASE OtherConnects
  <2> USE <1>16 DEF OtherConnects, OthersMayAct
  <2>1. TypeOK'
    BY DEF TypeOK, HandlersInv
  <2>2. LibraryInv' /\ HandlersInv'
    BY DEF TypeOK, LibraryInv, HandlersInv
  <2>3. ObjectInv' /\ OwnProcessInv' /\ SteadyInv'
    BY DEF TypeOK, LibraryInv, ObjectInv, OwnProcessInv, SteadyInv
  <2> QED BY <2>1, <2>2, <2>3
<1>17. CASE OtherLeaves
  <2> USE <1>17 DEF OtherLeaves, OthersMayAct, Disconnected
  <2>1. TypeOK'
    BY DEF TypeOK, HandlersInv
  <2>2. LibraryInv' /\ HandlersInv'
    BY DEF TypeOK, LibraryInv, HandlersInv
  <2>3. ObjectInv' /\ OwnProcessInv' /\ SteadyInv'
    BY DEF TypeOK, LibraryInv, ObjectInv, OwnProcessInv, SteadyInv
  <2> QED BY <2>1, <2>2, <2>3
<1>18. CASE DaemonTurns
  <2> USE <1>18 DEF DaemonTurns
  <2>1. TypeOK'
    BY DEF TypeOK, HandlersInv
  <2>2. LibraryInv' /\ HandlersInv'
    BY DEF TypeOK, LibraryInv, HandlersInv
  <2>3. ObjectInv' /\ OwnProcessInv' /\ SteadyInv'
    BY DEF TypeOK, LibraryInv, ObjectInv, OwnProcessInv, SteadyInv
  <2> QED BY <2>1, <2>2, <2>3
<1>19. CASE UNCHANGED vars
  BY <1>19 DEF vars, TypeOK, LibraryInv, HandlersInv, ObjectInv, OwnProcessInv, SteadyInv
<1> QED
  BY <1>1, <1>2, <1>3, <1>4, <1>5, <1>6, <1>7, <1>8, <1>9, <1>10, <1>11, <1>12, <1>13, <1>14, <1>15, <1>16, <1>17, <1>18, <1>19
  DEF Next, Step

(* The invariant holds in every reachable state.                           *)
THEOREM Invariance == Spec => []SessionInv
BY SessionInit, SessionNext, PTL DEF Spec

(* All the handlers or none, whatever fails and whoever interferes: an      *)
(* object that has none leaves on the bus only what the bus refused to      *)
(* remove.                                                                 *)
THEOREM HandlersAllOrNone == Spec => []AllOrNothing
<1>1. SessionInv => AllOrNothing
  <2> SUFFICES ASSUME SessionInv PROVE AllOrNothing
    OBVIOUS
  <2>1. pc = "configured" => service /\ handlersRegistered = Handlers
    BY DEF SessionInv, HandlersInv, ObjectInv, Outside
  <2>2. pc = "configured" /\ maker = "self" => registered = 1 .. Handlers
    BY <2>1 DEF SessionInv, HandlersInv, TypeOK
  <2>3. pc \in {"failed", "gone"} => handlersRegistered = 0 /\ ~service /\ ~hasOwnProcess
    BY DEF SessionInv, HandlersInv, ObjectInv, Attached, Outside
  <2>4. handlersRegistered = 0 => registered \subseteq unremoved
    BY DEF SessionInv, HandlersInv
  <2> QED BY <2>1, <2>2, <2>3, <2>4 DEF AllOrNothing
<1> QED BY <1>1, Invariance, PTL

(* Every variable has its type; the retries are at most MaxRetry.           *)
THEOREM TypeCorrect == Spec => []TypeOK
<1>1. SessionInv => TypeOK
  BY DEF SessionInv
<1> QED BY <1>1, Invariance, PTL

(* The object ends the connection it made, or has asked the bus to: in a    *)
(* process of its own, and in any process when the environment is steady.  *)
THEOREM ReleasesOwnConnection == Spec => []OwnConnectionReleased
<1>1. SessionInv => OwnConnectionReleased
  BY DEF SessionInv, OwnProcessInv, SteadyInv, Outside, OwnConnectionReleased
<1> QED BY <1>1, Invariance, PTL

(* In a steady environment the object ends nobody else's connection.        *)
THEOREM KeepsOthersConnection == Spec => OthersKeepConnection
<1>1. SessionInv /\ [Next]_vars =>
        [Steady /\ maker = "other" /\ pc' # pc => maker' = "other"]_vars
  <2> SUFFICES ASSUME SessionInv, Next, Steady, maker = "other", pc' # pc
               PROVE  maker' = "other"
    OBVIOUS
  <2>1. bus = "connected"
    BY DEF SessionInv, LibraryInv
  <2>2. CASE Disconnect
    BY <2>2 DEF Disconnect, SessionInv, SteadyInv, Attached, library
  <2>3. CASE OtherConnects \/ OtherLeaves \/ DaemonTurns
    BY <2>3 DEF OtherConnects, OtherLeaves, DaemonTurns, OthersMayAct
  <2>4. CASE BusConnect
    BY <2>1, <2>4 DEF BusConnect
  <2>5. CASE Term
    BY <2>5 DEF Term, SessionInv, SteadyInv
  <2> QED
    BY <2>2, <2>3, <2>4, <2>5
    DEF Next, Step, NextObject, Configure, Probe, InitCheck, BusInit, ConnectResult, Retry, Own,
        RegisterHandler, HandlerRegistered, CheckConnection, Destroy, RemoveHandlers, library
<1> QED BY <1>1, Invariance, PTL DEF Spec, OthersKeepConnection

(* StepsLeft is a number of steps at most 4 * MaxRetry + Handlers + 11.     *)
LEMMA StepsLeftBound == SessionInv => StepsLeft \in 0 .. Handlers + 4 * MaxRetry + 11
<1> SUFFICES ASSUME SessionInv PROVE StepsLeft \in 0 .. Handlers + 4 * MaxRetry + 11
  OBVIOUS
<1>1. /\ Handlers \in Nat \ {0} /\ MaxRetry \in Nat /\ retryCount \in 0 .. MaxRetry
      /\ handlersRegistered \in 0 .. Handlers
  BY SessionAssumption DEF SessionAssumption, SessionInv, TypeOK
<1>2. 4 * (MaxRetry - retryCount) \in 0 .. 4 * MaxRetry
  BY <1>1
<1> QED BY <1>1, <1>2 DEF StepsLeft

(* A step of Configure or of DeinitializeIARM that is not its first one     *)
(* leaves fewer steps to take.                                             *)
LEMMA StepDescends ==
  SessionInv /\ Step /\ pc \notin {"idle", "configured", "failed", "gone"} => StepsLeft' < StepsLeft
<1> SUFFICES ASSUME SessionInv, Step, pc \notin {"idle", "configured", "failed", "gone"}
             PROVE  StepsLeft' < StepsLeft
  OBVIOUS
<1> DEFINE more == 4 * (MaxRetry - retryCount)
<1>1. /\ Handlers \in Nat \ {0} /\ MaxRetry \in Nat /\ retryCount \in 0 .. MaxRetry
      /\ handlersRegistered \in 0 .. Handlers
  BY SessionAssumption DEF SessionAssumption, SessionInv, TypeOK
<1>2. more \in Nat
  BY <1>1
<1>3. CASE Probe
  BY <1>1, <1>3 DEF Probe, StepsLeft
<1>4. CASE InitCheck
  BY <1>1, <1>4 DEF InitCheck, StepsLeft
<1>5. CASE BusInit \/ BusConnect \/ ConnectResult
  <2>1. UNCHANGED retryCount /\ pc' \in {"busConnect", "result", "retry", "own"}
    BY <1>5 DEF BusInit, BusConnect, ConnectResult, locals, members
  <2> QED BY <1>1, <1>2, <1>5, <2>1 DEF BusInit, BusConnect, ConnectResult, StepsLeft
<1>6. CASE Retry
  <2>1. CASE pc' = "busInit"
    <3>1. retryCount' = retryCount + 1
      BY <1>6, <2>1 DEF Retry, GiveUp
    <3>2. 4 * (MaxRetry - (retryCount + 1)) + 4 = more
      BY <1>1
    <3> QED BY <1>1, <1>2, <1>6, <2>1, <3>1, <3>2 DEF Retry, StepsLeft
  <2>2. CASE pc' = "failed"
    BY <1>1, <1>2, <1>6, <2>2 DEF Retry, StepsLeft
  <2> QED BY <1>6, <2>1, <2>2 DEF Retry, GiveUp
<1>7. CASE Own
  BY <1>1, <1>7 DEF Own, StepsLeft, SessionInv, HandlersInv
<1>8. CASE RegisterHandler
  <2>1. CASE HandlerRegistered
    BY <1>1, <1>8, <2>1 DEF RegisterHandler, HandlerRegistered, StepsLeft, SessionInv, HandlersInv
  <2>2. CASE pc' = "remove"
    BY <1>1, <1>8, <2>2 DEF RegisterHandler, StepsLeft, SessionInv, HandlersInv
  <2> QED BY <1>8, <2>1, <2>2 DEF RegisterHandler
<1>9. CASE CheckConnection \/ RemoveHandlers
  BY <1>9 DEF CheckConnection, RemoveHandlers, StepsLeft
<1>10. CASE Disconnect \/ Term
  BY <1>10 DEF Disconnect, Term, DeinitReturns, StepsLeft, SessionInv, TypeOK
<1> QED BY <1>3, <1>4, <1>5, <1>6, <1>7, <1>8, <1>9, <1>10 DEF Step, Configure, Destroy

(* Configure and DeinitializeIARM end within a number of steps that no      *)
(* failing call and no other component adds to.                            *)
THEOREM SessionEnds == Spec => SessionAdvances
<1>1. SessionInv /\ (StepsLeft \in Nat)' /\ [Next]_vars =>
        [pc \notin {"idle", "configured", "failed", "gone"} =>
           IF Step THEN StepsLeft' < StepsLeft /\ StepsLeft' \in Nat ELSE StepsLeft' = StepsLeft]_vars
  <2> SUFFICES ASSUME SessionInv, StepsLeft' \in Nat, Next,
                      pc \notin {"idle", "configured", "failed", "gone"}
               PROVE  IF Step THEN StepsLeft' < StepsLeft /\ StepsLeft' \in Nat ELSE StepsLeft' = StepsLeft
    OBVIOUS
  <2>1. CASE Step
    BY <2>1, StepDescends
  <2>2. CASE ~Step
    <3>1. UNCHANGED <<pc, retryCount, handlersRegistered>>
      BY <2>2 DEF Next, NextObject, OtherConnects, OtherLeaves, DaemonTurns, locals, members
    <3> QED BY <2>2, <3>1 DEF StepsLeft
  <2> QED BY <2>1, <2>2
<1>2. SessionInv => StepsLeft \in Nat
  <2> HAVE SessionInv
  <2>1. StepsLeft \in 0 .. Handlers + 4 * MaxRetry + 11
    BY StepsLeftBound
  <2> QED BY <2>1, SessionAssumption DEF SessionAssumption
<1> QED BY <1>1, <1>2, Invariance, PTL DEF Spec, SessionAdvances
=============================================================================
