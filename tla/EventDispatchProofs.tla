------------------------ MODULE EventDispatchProofs ------------------------
(***************************************************************************)
(* Proofs about EventDispatch, for any number of implementations,          *)
(* observers, threads and events.  The invariant says who may use which    *)
(* implementation object, and what holding _instanceLock means.            *)
(***************************************************************************)
EXTENDS EventDispatch, FiniteSetTheorems, TLAPS

(* The owner has a reference on its object, or is destroying it.           *)
Uses == {"fresh", "configuring", "holding", "failed", "detach", "unsubscribe", "clear"}

(* Nobody else has one.                                                    *)
Alone == Uses \ {"holding"}

LockInv == \A t \in Thread : thread[t].pc \in {"snapshot", "notify", "exit"} <=> instanceLock = t

FrameInv ==
  \A t \in Thread :
    /\ thread[t].instance # Null => thread[t].pc \in {"snapshot", "notify", "exit"}
    /\ thread[t].pc \in {"snapshot", "notify"} =>
         thread[t].instance # Null /\ thread[t].event = sent /\ sent > 0
    /\ thread[t].pc # "notify" =>
         thread[t].snapshot = {} /\ thread[t].pending = {} /\ thread[t].calling = Null
    /\ thread[t].pending \subseteq thread[t].snapshot
    /\ thread[t].calling \in thread[t].snapshot \cup {Null}

ObjectInv ==
  /\ instance # Null => object[instance] = "live"
  /\ \A o \in Observer :
       /\ client[o].pc = "new" <=> client[o].instance = Null
       /\ client[o].pc # "new" => object[client[o].instance] # "unborn"
       /\ client[o].pc \in Uses => object[client[o].instance] = "live"
       /\ client[o].pc \in {"unsubscribe", "clear"} => client[o].instance # instance
       /\ client[o].pc \in Alone =>
            \A p \in Observer \ {o} :
              client[p].pc \in Uses => client[p].instance # client[o].instance

ControlInv == StateTypeOK /\ LockInv /\ FrameInv /\ ObjectInv /\ InstanceAlive

-----------------------------------------------------------------------------
(* The invariant holds initially.                                          *)
LEMMA ControlInit == Init => ControlInv
BY ConstantsAssumption DEF ConstantsAssumption, Init, IdleThread, ControlInv, StateTypeOK, Owner, Frame, LockInv, FrameInv,
   ObjectInv, InstanceAlive, Uses, Alone

(* An owner at another stage is one.                                       *)
LEMMA OwnerMoves ==
  ASSUME StateTypeOK, NEW o \in Observer,
         NEW stage \in {"configuring", "holding", "failed", "detach", "unsubscribe", "clear", "out"},
         client' = [client EXCEPT ![o].pc = stage]
  PROVE  client' \in [Observer -> Owner]
BY DEF StateTypeOK, Owner

(* What the owners of the observers do preserves it, save destruction.      *)
LEMMA OwnerSteps ==
  ASSUME ControlInv, NEW o \in Observer,
         \/ \E i \in Instance : Construct(o, i)
         \/ \E s \in Sink : Acquire(o, s)
         \/ Subscribe(o) \/ Configured(o) \/ ConfigureFails(o) \/ Register(o)
         \/ Unregister(o) \/ Release(o) \/ Drop(o)
  PROVE  ControlInv'
<1> USE ConstantsAssumption DEF ConstantsAssumption, ControlInv, objects, lists
<1>1. ASSUME NEW i \in Instance, Construct(o, i) PROVE ControlInv'
  <2> USE <1>1 DEF Construct
  <2>1. StateTypeOK'
    BY DEF StateTypeOK, Owner, Frame
  <2>2. LockInv' /\ FrameInv'
    BY DEF LockInv, FrameInv
  <2>3. InstanceAlive'
    BY DEF StateTypeOK, Owner, Frame, LockInv, FrameInv, InstanceAlive
  <2>4. ObjectInv'
    BY DEF StateTypeOK, Owner, Frame, ObjectInv, Uses, Alone
  <2> QED BY <2>1, <2>2, <2>3, <2>4
<1>2. ASSUME NEW s \in Sink, Acquire(o, s) PROVE ControlInv'
  <2> USE <1>2 DEF Acquire
  <2>1. StateTypeOK'
    BY DEF StateTypeOK, Owner, Frame
  <2>2. LockInv' /\ FrameInv' /\ InstanceAlive'
    BY DEF LockInv, FrameInv, InstanceAlive
  <2>3. ObjectInv'
    BY DEF StateTypeOK, Owner, Frame, ObjectInv, Uses, Alone
  <2> QED BY <2>1, <2>2, <2>3
<1>3. CASE Subscribe(o) \/ Configured(o) \/ ConfigureFails(o)
  <2> USE <1>3 DEF Subscribe, Configured, ConfigureFails
  <2>1. client[o].instance \in Instance
    BY DEF StateTypeOK, Owner, Frame, ObjectInv
  <2>2. PICK stage \in {"configuring", "holding", "failed"} :
          client' = [client EXCEPT ![o].pc = stage]
    BY Zenon
  <2>3. StateTypeOK'
    <3>1. client' \in [Observer -> Owner]
      BY <2>2, OwnerMoves, Zenon
    <3>2. subscribed' \subseteq Instance
      BY <2>1 DEF StateTypeOK, RemoveSubscription
    <3> QED BY <3>1, <3>2 DEF StateTypeOK
  <2>4. LockInv' /\ FrameInv' /\ InstanceAlive'
    BY DEF LockInv, FrameInv, InstanceAlive
  <2>5. ObjectInv'
    <3>1. client[o].pc \in {"fresh", "configuring"} /\ UNCHANGED <<instance, object>>
      OBVIOUS
    <3>2. client' = [client EXCEPT ![o].pc = stage]
      BY <2>2
    <3> QED BY ONLY <3>1, <3>2, StateTypeOK, ObjectInv DEF StateTypeOK, Owner, ObjectInv, Uses, Alone
  <2> QED BY <2>3, <2>4, <2>5
<1>4. CASE Register(o) \/ Unregister(o)
  <2> USE <1>4 DEF Register, Unregister
  <2>1. notifications' \in [Instance -> SUBSET Observer]
    BY DEF StateTypeOK
  <2>2. StateTypeOK'
    BY <2>1 DEF StateTypeOK
  <2>3. LockInv' /\ FrameInv' /\ InstanceAlive' /\ ObjectInv'
    BY DEF LockInv, FrameInv, InstanceAlive, ObjectInv
  <2> QED BY <2>2, <2>3
<1>5. CASE Release(o)
  <2> USE <1>5 DEF Release
  <2>1. StateTypeOK'
    BY DEF StateTypeOK, Owner, Frame
  <2>2. LockInv' /\ FrameInv' /\ InstanceAlive'
    BY DEF LockInv, FrameInv, InstanceAlive
  <2>3. ASSUME NEW p \in Observer \ {o}, client[p].pc \in Uses, client'[o].pc = "detach"
        PROVE  client[p].instance # client[o].instance
    <3>1. client[p].instance = client[o].instance => client[p].pc = "holding"
      BY <2>3 DEF ObjectInv, Uses, Alone, StateTypeOK, Owner, Frame
    <3>2. client[p] # [pc |-> "holding", instance |-> client[o].instance]
      BY <2>3 DEF StateTypeOK, Owner, Frame
    <3> QED BY <3>1, <3>2 DEF StateTypeOK, Owner, Frame
  <2>4. ObjectInv'
    BY <2>3 DEF StateTypeOK, Owner, Frame, ObjectInv, Uses, Alone
  <2> QED BY <2>1, <2>2, <2>4
<1>6. CASE Drop(o)
  BY <1>6 DEF Drop, StateTypeOK, Owner, Frame, LockInv, FrameInv, InstanceAlive, ObjectInv
<1> QED BY <1>1, <1>2, <1>3, <1>4, <1>5, <1>6

(* The destructor preserves it: it unpublishes the object under the lock    *)
(* before it frees it.                                                     *)
LEMMA DestructorSteps ==
  ASSUME ControlInv, NEW o \in Observer, Destructor(o)
  PROVE  ControlInv'
<1> USE ConstantsAssumption DEF ConstantsAssumption, ControlInv, objects, lists, Destructor
<1>0. client[o].pc \in {"detach", "unsubscribe", "clear"} => client[o].instance \in Instance
  BY DEF StateTypeOK, Owner, Frame, ObjectInv
<1>1. CASE Detach(o)
  <2> USE <1>1 DEF Detach
  <2>1. StateTypeOK' /\ LockInv' /\ FrameInv'
    <3>1. client' \in [Observer -> Owner]
      BY OwnerMoves
    <3>2. StateTypeOK'
      BY <3>1 DEF StateTypeOK
    <3>3. LockInv' /\ FrameInv'
      BY DEF LockInv, FrameInv
    <3> QED BY <3>2, <3>3
  <2>2. InstanceAlive'
    BY DEF LockInv, FrameInv, InstanceAlive, StateTypeOK, Owner, Frame
  <2>3. ObjectInv'
    BY <1>0 DEF StateTypeOK, Owner, Frame, ObjectInv, Uses, Alone
  <2> QED BY <2>1, <2>2, <2>3
<1>2. CASE Unsubscribe(o)
  <2> USE <1>2 DEF Unsubscribe
  <2>1. StateTypeOK' /\ LockInv' /\ FrameInv' /\ InstanceAlive'
    <3>1. client' \in [Observer -> Owner]
      BY OwnerMoves
    <3>2. StateTypeOK'
      BY <3>1 DEF StateTypeOK, RemoveSubscription
    <3>3. LockInv' /\ FrameInv' /\ InstanceAlive'
      BY DEF LockInv, FrameInv, InstanceAlive
    <3> QED BY <3>2, <3>3
  <2>2. ObjectInv'
    BY DEF StateTypeOK, Owner, Frame, ObjectInv, Uses, Alone
  <2> QED BY <2>1, <2>2
<1>3. CASE Destroy(o)
  <2> USE <1>3 DEF Destroy
  <2>1. StateTypeOK' /\ LockInv' /\ FrameInv'
    <3>1. client' \in [Observer -> Owner]
      BY OwnerMoves
    <3>2. StateTypeOK'
      BY <1>0, <3>1 DEF StateTypeOK
    <3>3. LockInv' /\ FrameInv'
      BY DEF LockInv, FrameInv
    <3> QED BY <3>2, <3>3
  <2>2. InstanceAlive'
    BY <1>0 DEF StateTypeOK, Owner, Frame, InstanceAlive, ObjectInv
  <2>3. ObjectInv'
    BY <1>0 DEF StateTypeOK, Owner, Frame, ObjectInv, Uses, Alone
  <2> QED BY <2>1, <2>2, <2>3
<1> QED BY <1>1, <1>2, <1>3

(* So does the delivery of an event, which holds the lock throughout.       *)
LEMMA HandlerSteps ==
  ASSUME ControlInv, NEW t \in Thread, Deliver(t) \/ Handler(t)
  PROVE  ControlInv'
<1> USE ConstantsAssumption DEF ConstantsAssumption, ControlInv, objects, lists
<1>0. ASSUME UNCHANGED <<instance, object, client>> PROVE ObjectInv'
  BY <1>0 DEF ObjectInv
<1>1. CASE Deliver(t)
  BY <1>0, <1>1 DEF Deliver, StateTypeOK, Owner, Frame, LockInv, FrameInv, InstanceAlive
<1>2. CASE EnterHandler(t)
  <2>1. CASE instance # Null /\ sent' = sent + 1 /\ thread'[t].pc = "snapshot"
    <3> USE <1>2, <2>1 DEF EnterHandler
    <3>1. /\ thread' = [thread EXCEPT ![t].pc = "snapshot", ![t].instance = instance,
                                      ![t].event = sent']
          /\ UNCHANGED <<instance, object, client>>
      BY DEF StateTypeOK, Owner, Frame
    <3>2. StateTypeOK'
      <4>1. thread' = [thread EXCEPT ![t] = [thread[t] EXCEPT !.pc = "snapshot",
                                             !.instance = instance, !.event = sent']]
        BY <3>1 DEF StateTypeOK, Frame
      <4>2. [thread[t] EXCEPT !.pc = "snapshot", !.instance = instance, !.event = sent'] \in Frame
        <5>1. thread[t] \in Frame /\ instance \in Instance \cup {Null} /\ sent' \in Nat
          BY DEF StateTypeOK
        <5>2. \A f \in Frame, i \in Instance \cup {Null}, n \in Nat :
                [f EXCEPT !.pc = "snapshot", !.instance = i, !.event = n] \in Frame
          BY DEF Frame
        <5> QED BY <5>1, <5>2
      <4>3. thread' \in [Thread -> Frame]
        BY <4>1, <4>2 DEF StateTypeOK
      <4> QED BY <3>1, <4>3 DEF StateTypeOK
    <3>3. LockInv'
      BY <3>1 DEF StateTypeOK, Owner, Frame, LockInv
    <3>4. \A u \in Thread : thread[u].pc \notin {"snapshot", "notify", "exit"}
      BY DEF LockInv
    <3>5. FrameInv'
      BY <3>1, <3>4 DEF StateTypeOK, Owner, Frame, FrameInv
    <3>6. InstanceAlive'
      BY <3>1, <3>4 DEF StateTypeOK, Owner, Frame, FrameInv, InstanceAlive, ObjectInv
    <3> QED BY <1>0, <3>1, <3>2, <3>3, <3>5, <3>6
  <2>2. CASE thread' = [thread EXCEPT ![t].pc = "exit"] /\ UNCHANGED sent
    <3> USE <1>2, <2>2 DEF EnterHandler
    <3>1. StateTypeOK' /\ LockInv' /\ FrameInv'
      BY DEF StateTypeOK, Owner, Frame, LockInv, FrameInv
    <3>2. InstanceAlive'
      BY DEF StateTypeOK, Owner, Frame, InstanceAlive
    <3> QED BY <1>0, <3>1, <3>2
  <2> QED BY <1>2, <2>1, <2>2 DEF EnterHandler, StateTypeOK, Owner, Frame
<1>3. CASE Snapshot(t)
  <2> USE <1>3 DEF Snapshot
  <2>1. thread[t].instance \in Instance
    BY DEF StateTypeOK, Owner, Frame, FrameInv
  <2>2. StateTypeOK'
    <3>1. \A f \in Frame, l \in SUBSET Observer :
            [f EXCEPT !.pc = "notify", !.snapshot = l, !.pending = l] \in Frame
      BY DEF Frame
    <3>2. thread[t] \in Frame /\ notifications[thread[t].instance] \in SUBSET Observer
      BY <2>1 DEF StateTypeOK
    <3>3. thread' = [thread EXCEPT ![t] = [thread[t] EXCEPT !.pc = "notify",
                       !.snapshot = notifications[thread[t].instance],
                       !.pending = notifications[thread[t].instance]]]
      BY DEF StateTypeOK, Frame
    <3>4. thread' \in [Thread -> Frame]
      <4>1. [thread[t] EXCEPT !.pc = "notify", !.snapshot = notifications[thread[t].instance],
                              !.pending = notifications[thread[t].instance]] \in Frame
        BY <3>1, <3>2
      <4>2. thread \in [Thread -> Frame]
        BY DEF StateTypeOK
      <4> QED BY <3>3, <4>1, <4>2
    <3> QED BY <3>4 DEF StateTypeOK
  <2>3. \A u \in Thread \ {t} : thread'[u] = thread[u]
    BY DEF StateTypeOK
  <2>4. /\ thread'[t].pc = "notify" /\ thread'[t].snapshot = thread'[t].pending
        /\ thread'[t].instance = thread[t].instance /\ thread'[t].event = thread[t].event
        /\ thread'[t].calling = thread[t].calling
    BY DEF StateTypeOK, Frame
  <2>5. LockInv'
    BY <2>3, <2>4 DEF LockInv
  <2>6. FrameInv'
    <3>1. thread[t].instance # Null /\ thread[t].event = sent /\ sent > 0 /\ thread[t].calling = Null
      BY DEF FrameInv
    <3>2. ASSUME NEW u \in Thread
          PROVE  /\ thread'[u].instance # Null => thread'[u].pc \in {"snapshot", "notify", "exit"}
                 /\ thread'[u].pc \in {"snapshot", "notify"} =>
                      thread'[u].instance # Null /\ thread'[u].event = sent' /\ sent' > 0
                 /\ thread'[u].pc # "notify" =>
                      /\ thread'[u].snapshot = {} /\ thread'[u].pending = {}
                      /\ thread'[u].calling = Null
                 /\ thread'[u].pending \subseteq thread'[u].snapshot
                 /\ thread'[u].calling \in thread'[u].snapshot \cup {Null}
      <4>1. CASE u = t
        BY <2>4, <3>1, <4>1
      <4>2. CASE u # t
        BY <2>3, <4>2 DEF FrameInv
      <4> QED BY <4>1, <4>2
    <3> QED BY <3>2 DEF FrameInv
  <2>7. InstanceAlive'
    BY <2>3, <2>4 DEF InstanceAlive
  <2> QED BY <1>0, <2>2, <2>5, <2>6, <2>7
<1>4. ASSUME NEW o \in Observer, Call(t, o) PROVE ControlInv'
  <2> USE <1>4 DEF Call
  <2>1. StateTypeOK'
    <3>0. \A f \in Frame : [f EXCEPT !.calling = o, !.pending = f.pending \ {o}] \in Frame
      BY DEF Frame
    <3>1. /\ thread[t] \in Frame
          /\ thread' = [thread EXCEPT ![t] = [thread[t] EXCEPT !.calling = o,
                                               !.pending = thread[t].pending \ {o}]]
      BY DEF StateTypeOK, Frame
    <3>2. thread' \in [Thread -> Frame]
      <4>1. [thread[t] EXCEPT !.calling = o, !.pending = thread[t].pending \ {o}] \in Frame
        BY <3>0, <3>1
      <4>2. thread \in [Thread -> Frame]
        BY DEF StateTypeOK
      <4> HIDE <1>4 DEF Call
      <4> QED BY <3>1, <4>1, <4>2
    <3>3. last' \in [Observer -> Nat]
      BY DEF StateTypeOK, Frame
    <3> QED BY <3>2, <3>3 DEF StateTypeOK
  <2>2. LockInv' /\ FrameInv' /\ InstanceAlive'
    BY DEF StateTypeOK, Owner, Frame, LockInv, FrameInv, InstanceAlive
  <2> QED BY <1>0, <2>1, <2>2
<1>5. CASE Return(t)
  <2> USE <1>5 DEF Return
  <2>1. StateTypeOK'
    <3>1. \A f \in Frame : [f EXCEPT !.calling = Null] \in Frame
      BY DEF Frame
    <3>2. thread' = [thread EXCEPT ![t] = [thread[t] EXCEPT !.calling = Null]]
      BY DEF StateTypeOK, Frame
    <3>3. thread' \in [Thread -> Frame]
      BY <3>1, <3>2 DEF StateTypeOK
    <3> QED BY <3>3 DEF StateTypeOK
  <2>2. LockInv' /\ FrameInv' /\ InstanceAlive'
    BY DEF StateTypeOK, Frame, LockInv, FrameInv, InstanceAlive
  <2> QED BY <1>0, <2>1, <2>2
<1>6. CASE ReleaseSnapshot(t)
  <2> USE <1>6 DEF ReleaseSnapshot
  <2>0. \A f \in Frame : [f EXCEPT !.pc = "exit", !.snapshot = {}] \in Frame
    BY DEF Frame
  <2>1. [thread[t] EXCEPT !.pc = "exit", !.snapshot = {}] \in Frame
    BY <2>0 DEF StateTypeOK
  <2>2. StateTypeOK'
    BY <2>1 DEF StateTypeOK, Frame
  <2>3. LockInv' /\ FrameInv' /\ InstanceAlive'
    BY DEF StateTypeOK, Frame, LockInv, FrameInv, InstanceAlive
  <2> QED BY <1>0, <2>2, <2>3
<1>7. CASE ExitHandler(t)
  <2> USE <1>7 DEF ExitHandler, IdleThread
  <2>1. StateTypeOK'
    <3>1. IdleThread \in Frame
      BY DEF Frame
    <3>2. thread' \in [Thread -> Frame]
      BY <3>1 DEF StateTypeOK
    <3> QED BY <3>2 DEF StateTypeOK
  <2>2. LockInv' /\ FrameInv'
    BY DEF StateTypeOK, Frame, LockInv, FrameInv
  <2>3. InstanceAlive'
    BY DEF StateTypeOK, Frame, InstanceAlive
  <2> QED BY <1>0, <2>1, <2>2, <2>3
<1> QED BY <1>1, <1>2, <1>3, <1>4, <1>5, <1>6, <1>7 DEF Handler

LEMMA ControlNext == ControlInv /\ [Next]_vars => ControlInv'
<1> SUFFICES ASSUME ControlInv, [Next]_vars PROVE ControlInv'
  OBVIOUS
<1>1. CASE UNCHANGED vars
  BY <1>1 DEF vars, objects, lists, ControlInv, StateTypeOK, Owner, Frame, LockInv, FrameInv, ObjectInv, InstanceAlive
<1>2. CASE Next
  BY <1>2, OwnerSteps, DestructorSteps, HandlerSteps DEF Next
<1> QED BY <1>1, <1>2

(* The control invariant holds in every reachable state.                   *)
THEOREM Invariance == Spec => []ControlInv
BY ControlInit, ControlNext, PTL DEF Spec

(* While an event is dispatched the object it is dispatched by is live.     *)
THEOREM HandlerUsesLiveObject == Spec => []InstanceAlive
<1>1. ControlInv => InstanceAlive
  BY DEF ControlInv
<1> QED BY <1>1, Invariance, PTL

-----------------------------------------------------------------------------
(* The counts of references.                                               *)

Lists(o) == {i \in Instance : o \in notifications[i]}
Snaps(o) == {t \in Thread : o \in thread[t].snapshot}
Own(o) == IF owned[o] THEN 1 ELSE 0

RefsInv == refs \in [Observer -> Int] /\ RefsBalanced

(* The sets whose sizes are counted are finite.                            *)
LEMMA Countable ==
  \A o \in Observer :
    /\ IsFiniteSet(Lists(o)) /\ Cardinality(Lists(o)) \in Nat
    /\ IsFiniteSet(Snaps(o)) /\ Cardinality(Snaps(o)) \in Nat
<1> SUFFICES ASSUME NEW o \in Observer
             PROVE  /\ IsFiniteSet(Lists(o)) /\ Cardinality(Lists(o)) \in Nat
                    /\ IsFiniteSet(Snaps(o)) /\ Cardinality(Snaps(o)) \in Nat
  OBVIOUS
<1>1. Lists(o) \subseteq Instance /\ Snaps(o) \subseteq Thread
  BY DEF Lists, Snaps
<1>2. IsFiniteSet(Lists(o)) /\ IsFiniteSet(Snaps(o))
  BY <1>1, FS_Subset, ConstantsAssumption DEF ConstantsAssumption
<1> QED BY <1>2, FS_CardinalityType

(* One more element, one less: what it does to the size of a finite set.    *)
LEMMA OneMore ==
  ASSUME NEW S, IsFiniteSet(S), NEW x, x \notin S
  PROVE  Cardinality(S \cup {x}) = Cardinality(S) + 1
BY FS_AddElement

LEMMA OneLess ==
  ASSUME NEW S, IsFiniteSet(S), NEW x \in S
  PROVE  Cardinality(S \ {x}) = Cardinality(S) - 1
BY FS_RemoveElement

(* What the invariant says of one observer, by its lists and snapshots.     *)
LEMMA Balance ==
  RefsBalanced <=>
    \A o \in Observer : refs[o] = Own(o) + Cardinality(Lists(o)) + Cardinality(Snaps(o))
BY DEF RefsBalanced, Own, Lists, Snaps

LEMMA RefsInit == Init => RefsInv
<1> SUFFICES ASSUME Init PROVE RefsInv
  OBVIOUS
<1>1. \A o \in Observer : Lists(o) = {} /\ Snaps(o) = {} /\ Own(o) = 1 /\ refs[o] = 1
  BY DEF Init, IdleThread, Lists, Snaps, Own
<1>2. Cardinality({}) = 0
  BY FS_EmptySet
<1>3. RefsBalanced
  BY <1>1, <1>2, Balance
<1> QED BY <1>3 DEF RefsInv, Init

(* A step that leaves lists, snapshots, owners and counts alone.            *)
LEMMA RefsFrame ==
  ASSUME RefsInv, UNCHANGED <<refs, owned, notifications>>,
         \A t \in Thread : thread'[t].snapshot = thread[t].snapshot
  PROVE  RefsInv'
<1>1. \A o \in Observer : Own(o)' = Own(o) /\ Lists(o)' = Lists(o) /\ Snaps(o)' = Snaps(o)
  BY DEF Own, Lists, Snaps
<1>2. RefsBalanced'
  <2> SUFFICES ASSUME NEW o \in Observer
               PROVE  refs[o]' = Own(o)' + Cardinality(Lists(o))' + Cardinality(Snaps(o))'
    BY DEF RefsBalanced, Own, Lists, Snaps
  <2>1. Cardinality(Lists(o))' = Cardinality(Lists(o))
    BY <1>1
  <2>2. Cardinality(Snaps(o))' = Cardinality(Snaps(o))
    BY <1>1
  <2> QED BY <1>1, <2>1, <2>2, Balance DEF RefsInv
<1> QED BY <1>2 DEF RefsInv

(* The steps that add to or take from the counts.                          *)
LEMMA RegisterSteps ==
  ASSUME ControlInv, RefsInv, NEW o \in Observer, Register(o) \/ Unregister(o)
  PROVE  RefsInv'
<1> DEFINE i == client[o].instance
<1> USE DEF Register, Unregister
<1>1. i \in Instance /\ notifications \in [Instance -> SUBSET Observer]
  BY DEF ControlInv, StateTypeOK, Owner, ObjectInv
<1>2. refs' \in [Observer -> Int]
  BY DEF RefsInv
<1>3. ASSUME NEW p \in Observer
      PROVE  refs'[p] = Own(p)' + Cardinality(Lists(p))' + Cardinality(Snaps(p))'
  <2>1. Own(p)' = Own(p) /\ Cardinality(Snaps(p))' = Cardinality(Snaps(p))
    BY DEF Own, Snaps
  <2>2. refs[p] = Own(p) + Cardinality(Lists(p)) + Cardinality(Snaps(p)) /\ refs[p] \in Int
    BY Balance DEF RefsInv
  <2>3. CASE p # o
    <3>1. Lists(p)' = Lists(p)
      BY <1>1, <2>3 DEF Lists
    <3>2. Cardinality(Lists(p))' = Cardinality(Lists(p))
      BY <3>1
    <3> QED BY <2>1, <2>2, <2>3, <3>2 DEF RefsInv
  <2>4. CASE p = o /\ Register(o)
    <3>1. Lists(p)' = Lists(p) \cup {i} /\ i \notin Lists(p)
      BY <1>1, <2>4 DEF Lists
    <3>2. Cardinality(Lists(p) \cup {i}) = Cardinality(Lists(p)) + 1
      BY <3>1, Countable, OneMore
    <3>3. Cardinality(Lists(p))' = Cardinality(Lists(p)) + 1
      BY <3>1, <3>2
    <3>4. refs'[p] = refs[p] + 1
      BY <2>4 DEF RefsInv
    <3> QED BY <2>1, <2>2, <3>3, <3>4, Countable DEF Own
  <2>5. CASE p = o /\ Unregister(o)
    <3>1. Lists(p)' = Lists(p) \ {i} /\ i \in Lists(p)
      BY <1>1, <2>5 DEF Lists
    <3>2. Cardinality(Lists(p) \ {i}) = Cardinality(Lists(p)) - 1
      BY <3>1, Countable, OneLess
    <3>3. Cardinality(Lists(p))' = Cardinality(Lists(p)) - 1
      BY <3>1, <3>2
    <3>4. refs'[p] = refs[p] - 1
      BY <2>5 DEF RefsInv
    <3> QED BY <2>1, <2>2, <3>3, <3>4, Countable DEF Own
  <2> QED BY <2>3, <2>4, <2>5
<1> QED BY <1>2, <1>3 DEF RefsInv, RefsBalanced, Own, Lists, Snaps

LEMMA DestroyStep ==
  ASSUME ControlInv, RefsInv, NEW o \in Observer, Destroy(o)
  PROVE  RefsInv'
<1> DEFINE i == client[o].instance
<1> USE DEF Destroy
<1>1. i \in Instance /\ notifications \in [Instance -> SUBSET Observer]
  BY DEF ControlInv, StateTypeOK, Owner, ObjectInv
<1>2. refs' \in [Observer -> Int]
  BY DEF RefsInv
<1>3. ASSUME NEW p \in Observer
      PROVE  refs'[p] = Own(p)' + Cardinality(Lists(p))' + Cardinality(Snaps(p))'
  <2>1. Own(p)' = Own(p) /\ Cardinality(Snaps(p))' = Cardinality(Snaps(p))
    BY DEF Own, Snaps
  <2>2. refs[p] = Own(p) + Cardinality(Lists(p)) + Cardinality(Snaps(p)) /\ refs[p] \in Int
    BY Balance DEF RefsInv
  <2>3. Lists(p)' = Lists(p) \ {i} /\ (i \in Lists(p) <=> p \in notifications[i])
    BY <1>1 DEF Lists
  <2>4. CASE p \in notifications[i]
    <3>1. Cardinality(Lists(p) \ {i}) = Cardinality(Lists(p)) - 1
      BY <2>3, <2>4, Countable, OneLess
    <3>2. Cardinality(Lists(p))' = Cardinality(Lists(p)) - 1
      BY <2>3, <3>1
    <3>3. refs'[p] = refs[p] - 1
      BY <2>4
    <3> QED BY <2>1, <2>2, <3>2, <3>3, Countable DEF Own
  <2>5. CASE p \notin notifications[i]
    <3>1. Lists(p)' = Lists(p)
      BY <2>3, <2>5
    <3>2. Cardinality(Lists(p))' = Cardinality(Lists(p)) /\ refs'[p] = refs[p]
      BY <2>2, <2>5, <3>1
    <3> QED BY <2>1, <2>2, <3>2
  <2> QED BY <2>4, <2>5
<1> QED BY <1>2, <1>3 DEF RefsInv, RefsBalanced, Own, Lists, Snaps

LEMMA DropStep ==
  ASSUME ControlInv, RefsInv, NEW o \in Observer, Drop(o)
  PROVE  RefsInv'
<1> USE DEF Drop
<1>1. refs' \in [Observer -> Int]
  BY DEF RefsInv
<1>2. ASSUME NEW p \in Observer
      PROVE  refs'[p] = Own(p)' + Cardinality(Lists(p))' + Cardinality(Snaps(p))'
  <2>1. Cardinality(Lists(p))' = Cardinality(Lists(p)) /\ Cardinality(Snaps(p))' = Cardinality(Snaps(p))
    BY DEF Lists, Snaps
  <2>2. refs[p] = Own(p) + Cardinality(Lists(p)) + Cardinality(Snaps(p)) /\ refs[p] \in Int
    BY Balance DEF RefsInv
  <2>3. owned \in [Observer -> BOOLEAN]
    BY DEF ControlInv, StateTypeOK
  <2>4. refs'[p] - refs[p] = Own(p)' - Own(p) /\ Own(p) \in Nat /\ Own(p)' \in Nat
    BY <2>3 DEF Own, RefsInv
  <2> QED BY <2>1, <2>2, <2>4, Countable
<1> QED BY <1>1, <1>2 DEF RefsInv, RefsBalanced, Own, Lists, Snaps

LEMMA SnapshotSteps ==
  ASSUME ControlInv, RefsInv, NEW t \in Thread, Snapshot(t) \/ ReleaseSnapshot(t)
  PROVE  RefsInv'
<1> USE DEF Snapshot, ReleaseSnapshot
<1>1. /\ thread \in [Thread -> Frame]
      /\ thread[t].pc # "notify" => thread[t].snapshot = {}
  BY DEF ControlInv, StateTypeOK, FrameInv
<1>2. refs' \in [Observer -> Int]
  BY DEF RefsInv
<1>3. ASSUME NEW p \in Observer
      PROVE  refs'[p] = Own(p)' + Cardinality(Lists(p))' + Cardinality(Snaps(p))'
  <2>1. Own(p)' = Own(p) /\ Cardinality(Lists(p))' = Cardinality(Lists(p))
    BY DEF Own, Lists
  <2>2. refs[p] = Own(p) + Cardinality(Lists(p)) + Cardinality(Snaps(p)) /\ refs[p] \in Int
    BY Balance DEF RefsInv
  <2>3. CASE refs'[p] = refs[p] + 1 /\ Snaps(p)' = Snaps(p) \cup {t} /\ t \notin Snaps(p)
    <3>1. Cardinality(Snaps(p) \cup {t}) = Cardinality(Snaps(p)) + 1
      BY <2>3, Countable, OneMore
    <3>2. Cardinality(Snaps(p))' = Cardinality(Snaps(p)) + 1
      BY <2>3, <3>1
    <3> QED BY <2>1, <2>2, <2>3, <3>2, Countable DEF Own
  <2>4. CASE refs'[p] = refs[p] - 1 /\ Snaps(p)' = Snaps(p) \ {t} /\ t \in Snaps(p)
    <3>1. Cardinality(Snaps(p) \ {t}) = Cardinality(Snaps(p)) - 1
      BY <2>4, Countable, OneLess
    <3>2. Cardinality(Snaps(p))' = Cardinality(Snaps(p)) - 1
      BY <2>4, <3>1
    <3> QED BY <2>1, <2>2, <2>4, <3>2, Countable DEF Own
  <2>5. CASE refs'[p] = refs[p] /\ Snaps(p)' = Snaps(p)
    <3>1. Cardinality(Snaps(p))' = Cardinality(Snaps(p))
      BY <2>5
    <3> QED BY <2>1, <2>2, <2>5, <3>1
  <2>6. CASE Snapshot(t)
    BY <1>1, <2>2, <2>3, <2>5, <2>6 DEF Snaps, Frame
  <2>7. CASE ReleaseSnapshot(t)
    BY <1>1, <2>2, <2>4, <2>5, <2>7 DEF Snaps, Frame
  <2> QED BY <2>6, <2>7
<1> QED BY <1>2, <1>3 DEF RefsInv, RefsBalanced, Own, Lists, Snaps

LEMMA RefsNext == ControlInv /\ RefsInv /\ [Next]_vars => RefsInv'
<1> SUFFICES ASSUME ControlInv, RefsInv, [Next]_vars PROVE RefsInv'
  OBVIOUS
<1> USE DEF vars, objects, lists
<1>1. CASE UNCHANGED vars
  BY <1>1, RefsFrame
<1>2. ASSUME NEW o \in Observer,
             \/ \E i \in Instance : Construct(o, i)
             \/ \E s \in Sink : Acquire(o, s)
             \/ Subscribe(o) \/ Configured(o) \/ ConfigureFails(o) \/ Release(o)
             \/ Detach(o) \/ Unsubscribe(o)
      PROVE  RefsInv'
  <2>1. UNCHANGED <<refs, owned, notifications, thread>>
    BY <1>2 DEF Construct, Acquire, Subscribe, Configured, ConfigureFails, Release, Detach, Unsubscribe
  <2> QED BY <2>1, RefsFrame
<1>3. ASSUME NEW t \in Thread,
             \/ Deliver(t) \/ EnterHandler(t) \/ (\E o \in Observer : Call(t, o))
             \/ Return(t) \/ ExitHandler(t)
      PROVE  RefsInv'
  <2>1. thread \in [Thread -> Frame] /\ (thread[t].pc # "notify" => thread[t].snapshot = {})
    BY DEF ControlInv, StateTypeOK, FrameInv
  <2>2. UNCHANGED <<refs, owned, notifications>>
    BY <1>3 DEF Deliver, EnterHandler, Call, Return, ExitHandler
  <2>3. CASE Deliver(t) \/ Return(t) \/ \E o \in Observer : Call(t, o)
    <3>1. CASE Deliver(t)
      BY <2>1, <2>2, <3>1, RefsFrame DEF Deliver, Frame
    <3>2. CASE Return(t)
      BY <2>1, <2>2, <3>2, RefsFrame DEF Return, Frame
    <3>3. ASSUME NEW o \in Observer, Call(t, o) PROVE RefsInv'
      <4>1. \A u \in Thread : thread'[u].snapshot = thread[u].snapshot
        BY <2>1, <3>3 DEF Call, Frame
      <4> QED BY <2>2, <4>1, RefsFrame
    <3> QED BY <2>3, <3>1, <3>2, <3>3
  <2>4. CASE EnterHandler(t)
    BY <2>1, <2>2, <2>4, RefsFrame DEF EnterHandler, Frame
  <2>5. CASE ExitHandler(t)
    BY <2>1, <2>2, <2>5, RefsFrame DEF ExitHandler, IdleThread, Frame
  <2> QED BY <1>3, <2>3, <2>4, <2>5
<1> QED
  BY <1>1, <1>2, <1>3, RegisterSteps, DestroyStep, DropStep, SnapshotSteps
  DEF Next, Destructor, Handler

(* Spec => []RefsInv, with the control invariant it rests on.               *)
LEMMA RefsInvariance == Spec => [](ControlInv /\ RefsInv)
BY ControlInit, ControlNext, RefsInit, RefsNext, PTL DEF Spec

(* Registrations, events and destruction in any order keep the count of     *)
(* references on every observer equal to the references there are.         *)
THEOREM ReferencesBalance == Spec => []RefsBalanced
<1>1. RefsInv => RefsBalanced
  BY DEF RefsInv
<1> QED BY <1>1, RefsInvariance, PTL

(* Every variable has its type, and no count drops below zero.              *)
THEOREM TypeCorrect == Spec => []TypeOK
<1>1. ControlInv /\ RefsInv => TypeOK
  <2> SUFFICES ASSUME ControlInv, RefsInv PROVE TypeOK
    OBVIOUS
  <2>1. ASSUME NEW o \in Observer PROVE refs[o] \in Nat
    <3>1. refs[o] = Own(o) + Cardinality(Lists(o)) + Cardinality(Snaps(o))
      BY Balance DEF RefsInv
    <3> QED BY <3>1, Countable DEF Own
  <2>2. refs \in [Observer -> Nat]
    BY <2>1 DEF RefsInv
  <2> QED BY <2>2 DEF TypeOK, ControlInv
<1> QED BY <1>1, RefsInvariance, PTL

(* An observer that is being called, or will be, is referenced.             *)
THEOREM CalledObserversReferenced == Spec => []CalledReferenced
<1>1. ControlInv /\ RefsInv => CalledReferenced
  <2> SUFFICES ASSUME ControlInv, RefsInv, NEW t \in Thread,
                      NEW o \in thread[t].pending \cup {thread[t].calling}, o # Null
               PROVE  refs[o] > 0
    BY DEF CalledReferenced
  <2>1. o \in thread[t].snapshot /\ o \in Observer
    BY DEF ControlInv, FrameInv, StateTypeOK, Frame
  <2>2. t \in Snaps(o) /\ (Snaps(o) \ {t}) \cup {t} = Snaps(o)
    BY <2>1 DEF Snaps
  <2>3. Cardinality(Snaps(o) \ {t}) \in Nat
    BY <2>1, Countable, FS_Subset, FS_CardinalityType
  <2>4. Cardinality(Snaps(o)) = Cardinality(Snaps(o) \ {t}) + 1
    BY <2>1, <2>2, <2>3, Countable, OneLess
  <2>5. refs[o] = Own(o) + Cardinality(Lists(o)) + Cardinality(Snaps(o))
    BY <2>1, Balance DEF RefsInv
  <2> QED BY <2>1, <2>3, <2>4, <2>5, Countable DEF Own
<1> QED BY <1>1, RefsInvariance, PTL

-----------------------------------------------------------------------------
(* The refinement of EventFeed.                                            *)

(* What the feed shows while a thread holds the lock, by where it is.       *)
LEMMA FeedOf ==
  ASSUME ControlInv, NEW t \in Thread, instanceLock = t
  PROVE  /\ Current = IF thread[t].pc = "notify" THEN thread[t].event ELSE 0
         /\ Pending = IF thread[t].pc = "notify" THEN thread[t].pending ELSE {}
         /\ Count = IF thread[t].pc = "snapshot" THEN sent - 1 ELSE sent
BY ConstantsAssumption DEF ConstantsAssumption, Current, Pending, Count, Notifying

LEMMA FeedIdle ==
  ASSUME instanceLock = Null
  PROVE  Current = 0 /\ Pending = {} /\ Count = sent
BY DEF Current, Pending, Count, Notifying

(* The initial states map to initial states.                               *)
LEMMA FeedInit == Init => Feed!Init
BY FeedIdle DEF Init, Feed!Init

LEMMA FeedStill ==
  ASSUME UNCHANGED <<thread, instanceLock, sent, last>>
  PROVE  UNCHANGED <<Current, Pending, Count, last>>
BY DEF Current, Pending, Count, Notifying

(* An event begins when its snapshot is taken, for the observers that the   *)
(* object has then.                                                        *)
LEMMA FeedBegins ==
  ASSUME ControlInv, ControlInv', NEW t \in Thread, Snapshot(t)
  PROVE  Feed!Begin /\ Pending' = notifications[thread[t].instance]
<1> USE ConstantsAssumption DEF ConstantsAssumption, objects, lists
<1>1. instanceLock = t /\ instanceLock' = t /\ thread'[t].pc = "notify" /\ thread'[t].event = sent
  <2>1. thread[t].pc = "snapshot" /\ instanceLock' = instanceLock
    BY DEF Snapshot
  <2>2. instanceLock = t /\ thread[t].event = sent
    BY <2>1 DEF ControlInv, LockInv, FrameInv
  <2>3. thread \in [Thread -> Frame]
    BY DEF ControlInv, StateTypeOK
  <2>4. thread'[t].pc = "notify" /\ thread'[t].event = thread[t].event
    BY <2>3 DEF Snapshot, Frame
  <2> QED BY <2>1, <2>2, <2>4
<1>2. Current = 0 /\ Count = sent - 1
  BY <1>1, FeedOf DEF Snapshot
<1>3. Current' = sent /\ Count' = sent /\ Pending' = thread'[t].pending
  BY <1>1 DEF Snapshot, Current, Count, Pending, Notifying
<1>4. Pending' \in SUBSET Observer /\ sent \in Nat
  BY <1>3 DEF ControlInv, StateTypeOK, Frame
<1>5. Current = 0 /\ Count' = Count + 1 /\ Current' = Count' /\ last' = last
  BY <1>2, <1>3, <1>4 DEF Snapshot
<1>6. Pending' = notifications[thread[t].instance]
  BY <1>3 DEF Snapshot, ControlInv, StateTypeOK, Frame
<1> QED BY <1>4, <1>5, <1>6 DEF Feed!Begin

(* No other step begins one.                                               *)
LEMMA FeedGoesOn ==
  ASSUME ControlInv, ControlInv', [Next]_vars, \A t \in Thread : ~Snapshot(t)
  PROVE  (\E o \in Observer : Feed!Hand(o)) \/ Feed!End \/ UNCHANGED Feed!vars
<1> USE ConstantsAssumption DEF ConstantsAssumption, objects, lists
<1>1. ASSUME UNCHANGED <<thread, instanceLock, sent, last>> PROVE UNCHANGED Feed!vars
  BY <1>1, FeedStill DEF Feed!vars
<1>2. CASE UNCHANGED vars
  BY <1>1, <1>2 DEF vars
<1>3. ASSUME NEW o \in Observer,
             \/ \E i \in Instance : Construct(o, i)
             \/ \E s \in Sink : Acquire(o, s)
             \/ Subscribe(o) \/ Configured(o) \/ ConfigureFails(o) \/ Register(o)
             \/ Unregister(o) \/ Release(o) \/ Drop(o) \/ Destructor(o)
      PROVE  UNCHANGED Feed!vars
  BY <1>1, <1>3 DEF Construct, Acquire, Subscribe, Configured, ConfigureFails, Register,
     Unregister, Release, Drop, Destructor, Detach, Unsubscribe, Destroy
<1>4. ASSUME NEW t \in Thread, Deliver(t) PROVE UNCHANGED Feed!vars
  <2>1. instanceLock # t /\ (instanceLock # Null => thread'[instanceLock] = thread[instanceLock])
    BY <1>4 DEF Deliver, ControlInv, LockInv, StateTypeOK
  <2> QED BY <1>4, <2>1 DEF Deliver, Feed!vars, Current, Pending, Count, Notifying
<1>5. ASSUME NEW t \in Thread, EnterHandler(t) PROVE UNCHANGED Feed!vars
  <2>1. Current = 0 /\ Pending = {} /\ Count = sent
    BY <1>5, FeedIdle DEF EnterHandler
  <2>2. instanceLock' = t /\ thread'[t].pc # "notify" /\ last' = last
    BY <1>5 DEF EnterHandler, ControlInv, StateTypeOK, Frame
  <2>3. Current' = 0 /\ Pending' = {}
    BY <2>2 DEF Current, Pending, Notifying
  <2>4. sent' = IF thread'[t].pc = "snapshot" THEN sent + 1 ELSE sent
    BY <1>5 DEF EnterHandler, ControlInv, StateTypeOK, Frame
  <2>5. Count' = sent
    BY <2>2, <2>4 DEF Count, ControlInv, StateTypeOK
  <2> QED BY <2>1, <2>2, <2>3, <2>5 DEF Feed!vars
<1>6. ASSUME NEW t \in Thread, NEW o \in Observer, Call(t, o) PROVE Feed!Hand(o)
  <2>1. instanceLock = t /\ instanceLock' = t
    BY <1>6 DEF Call, ControlInv, LockInv
  <2>2. /\ thread'[t].pc = "notify" /\ thread'[t].event = thread[t].event
        /\ thread'[t].pending = thread[t].pending \ {o}
    BY <1>6 DEF Call, ControlInv, StateTypeOK, Frame
  <2>3. Current = thread[t].event /\ Pending = thread[t].pending /\ Count = sent
    BY <1>6, <2>1, FeedOf DEF Call
  <2>4. Current' = thread'[t].event /\ Pending' = thread'[t].pending /\ Count' = sent
    BY <1>6, <2>1, <2>2 DEF Call, Current, Count, Pending, Notifying
  <2> QED BY <1>6, <2>2, <2>3, <2>4 DEF Call, Feed!Hand
<1>7. ASSUME NEW t \in Thread, Return(t) PROVE UNCHANGED Feed!vars
  <2>1. \A u \in Thread : /\ thread'[u].pc = thread[u].pc /\ thread'[u].event = thread[u].event
                          /\ thread'[u].pending = thread[u].pending
    BY <1>7 DEF Return, ControlInv, StateTypeOK, Frame
  <2>2. instanceLock' = instanceLock /\ instanceLock \in Thread \cup {Null}
    BY <1>7 DEF Return, ControlInv, StateTypeOK
  <2> QED BY <1>7, <2>1, <2>2 DEF Return, Feed!vars, Current, Pending, Count, Notifying
<1>8. ASSUME NEW t \in Thread, ReleaseSnapshot(t) PROVE Feed!End
  <2>1. instanceLock = t /\ instanceLock' = t /\ thread'[t].pc = "exit"
    BY <1>8 DEF ReleaseSnapshot, ControlInv, LockInv, StateTypeOK, Frame
  <2>2. Current = thread[t].event /\ Pending = {} /\ Count = sent
    BY <1>8, <2>1, FeedOf DEF ReleaseSnapshot
  <2>3. Current' = 0 /\ Pending' = {} /\ Count' = sent
    BY <1>8, <2>1 DEF ReleaseSnapshot, Current, Count, Pending, Notifying
  <2>4. thread[t].event # 0
    BY <1>8 DEF ReleaseSnapshot, ControlInv, FrameInv, StateTypeOK
  <2> QED BY <1>8, <2>2, <2>3, <2>4 DEF ReleaseSnapshot, Feed!End
<1>9. ASSUME NEW t \in Thread, ExitHandler(t) PROVE UNCHANGED Feed!vars
  <2>1. instanceLock = t /\ instanceLock' = Null
    BY <1>9 DEF ExitHandler, ControlInv, LockInv
  <2>2. Current = 0 /\ Pending = {} /\ Count = sent
    BY <1>9, <2>1, FeedOf DEF ExitHandler
  <2>3. Current' = 0 /\ Pending' = {} /\ Count' = sent
    BY <1>9, <2>1 DEF ExitHandler, Current, Count, Pending, Notifying
  <2> QED BY <1>9, <2>2, <2>3 DEF ExitHandler, Feed!vars
<1> QED BY <1>2, <1>3, <1>4, <1>5, <1>6, <1>7, <1>8, <1>9 DEF Next, Handler

(* Every step maps to a step or a stutter.                                 *)
LEMMA FeedNext == ControlInv /\ ControlInv' /\ [Next]_vars => [Feed!Next]_Feed!vars
<1> SUFFICES ASSUME ControlInv, ControlInv', [Next]_vars PROVE [Feed!Next]_Feed!vars
  OBVIOUS
<1>1. ASSUME NEW t \in Thread, Snapshot(t) PROVE Feed!Begin
  BY <1>1, FeedBegins
<1> QED BY <1>1, FeedGoesOn DEF Feed!Next

(* However many threads deliver events while observers, objects and         *)
(* activations come and go, the dispatch is the broadcast of EventFeed.     *)
THEOREM Broadcast == Spec => BroadcastInOrder
<1>1. ControlInv /\ ControlInv' /\ [Next]_vars => [Feed!Next]_Feed!vars
  BY FeedNext
<1> QED BY FeedInit, <1>1, Invariance, PTL DEF Spec, BroadcastInOrder, Feed!Spec

(* What EventFeedProofs proves of every feed holds of this one.             *)
FeedP == INSTANCE EventFeedProofs WITH current <- Current, pending <- Pending, count <- Count

(* So every observer, on whatever threads its calls come, sees each event   *)
(* at most once and never after a later one.                               *)
THEOREM ObserversInOrder == Spec => Feed!InOrder
<1>1. FeedP!Spec => FeedP!InOrder
  BY FeedP!HandedInOrder
<1>2. Feed!Spec => FeedP!Spec
  BY DEF Feed!Spec, Feed!Init, Feed!Next, Feed!Begin, Feed!Hand, Feed!End, Feed!vars,
     FeedP!Spec, FeedP!Init, FeedP!Next, FeedP!Begin, FeedP!Hand, FeedP!End, FeedP!vars
<1>3. FeedP!InOrder => Feed!InOrder
  BY DEF Feed!InOrder, FeedP!InOrder, Feed!vars, FeedP!vars
<1> QED BY <1>1, <1>2, <1>3, Broadcast DEF BroadcastInOrder

-----------------------------------------------------------------------------
(* The audience of an event.                                               *)

(* No observer has an event that is still to be handed out.                *)
LastInv ==
  /\ \A o \in Observer : last[o] <= sent
  /\ \A t \in Thread : thread[t].pc = "snapshot" => \A o \in Observer : last[o] < sent

LEMMA ServedNext ==
  ControlInv /\ LastInv /\ AudienceServed /\ [Next]_vars => LastInv' /\ AudienceServed'
<1> SUFFICES ASSUME ControlInv, LastInv, AudienceServed, [Next]_vars PROVE LastInv' /\ AudienceServed'
  OBVIOUS
<1> USE ConstantsAssumption DEF ConstantsAssumption, objects, lists
<1>1. ASSUME UNCHANGED <<thread, sent, last>> PROVE LastInv' /\ AudienceServed'
  BY <1>1 DEF LastInv, AudienceServed
<1>2. CASE UNCHANGED vars
  BY <1>1, <1>2 DEF vars
<1>3. ASSUME NEW o \in Observer,
             \/ \E i \in Instance : Construct(o, i)
             \/ \E s \in Sink : Acquire(o, s)
             \/ Subscribe(o) \/ Configured(o) \/ ConfigureFails(o) \/ Register(o)
             \/ Unregister(o) \/ Release(o) \/ Drop(o) \/ Destructor(o)
      PROVE  LastInv' /\ AudienceServed'
  BY <1>1, <1>3 DEF Construct, Acquire, Subscribe, Configured, ConfigureFails, Register, Unregister,
     Release, Drop, Destructor, Detach, Unsubscribe, Destroy
<1>4. ASSUME NEW t \in Thread, Deliver(t) \/ Handler(t) PROVE LastInv' /\ AudienceServed'
  <2>1. /\ thread \in [Thread -> Frame] /\ last \in [Observer -> Nat] /\ sent \in Nat
        /\ \A u \in Thread \ {t} : thread'[u] = thread[u]
    BY <1>4 DEF ControlInv, StateTypeOK, Deliver, Handler, EnterHandler, Snapshot, Call, Return,
       ReleaseSnapshot, ExitHandler
  <2>2. CASE Deliver(t) \/ ExitHandler(t) \/ ReleaseSnapshot(t)
    BY <2>1, <2>2 DEF Deliver, ExitHandler, ReleaseSnapshot, IdleThread, LastInv, AudienceServed, Frame
  <2>3. CASE EnterHandler(t)
    <3>1. \A u \in Thread : thread[u].pc \notin {"snapshot", "notify"}
      BY <2>3 DEF EnterHandler, ControlInv, LockInv
    <3>2. AudienceServed'
      BY <2>1, <2>3, <3>1 DEF EnterHandler, AudienceServed, Frame
    <3>3. LastInv'
      BY <2>1, <2>3, <3>1 DEF EnterHandler, LastInv, Frame
    <3> QED BY <3>2, <3>3
  <2>4. CASE Snapshot(t)
    <3>1. thread[t].event = sent
      BY <2>4 DEF Snapshot, ControlInv, FrameInv
    <3> QED BY <2>1, <2>4, <3>1 DEF Snapshot, LastInv, AudienceServed, Frame
  <2>5. ASSUME NEW o \in Observer, Call(t, o) PROVE LastInv' /\ AudienceServed'
    <3>1. \A u \in Thread \ {t} : thread[u].pc \notin {"snapshot", "notify"}
      BY <2>5 DEF Call, ControlInv, LockInv
    <3>2. thread[t].event = sent /\ o \in thread[t].snapshot
      BY <2>5 DEF Call, ControlInv, FrameInv
    <3>3. /\ thread'[t].pc = "notify" /\ thread'[t].event = thread[t].event
          /\ thread'[t].snapshot = thread[t].snapshot
          /\ thread'[t].pending = thread[t].pending \ {o}
      BY <2>1, <2>5 DEF Call, Frame
    <3>4. last' = [last EXCEPT ![o] = thread[t].event] /\ sent' = sent
      BY <2>5 DEF Call
    <3>5. LastInv'
      BY <2>1, <3>1, <3>2, <3>3, <3>4 DEF LastInv
    <3>6. AudienceServed'
      BY <2>1, <2>5, <3>1, <3>2, <3>3, <3>4 DEF AudienceServed, Call
    <3> QED BY <3>5, <3>6
  <2>6. CASE Return(t)
    BY <2>1, <2>6 DEF Return, LastInv, AudienceServed, Frame
  <2> QED BY <1>4, <2>2, <2>3, <2>4, <2>5, <2>6 DEF Handler
<1> QED BY <1>2, <1>3, <1>4 DEF Next

(* An event is over with the observers it was handed to before any of them  *)
(* is called with another.                                                 *)
THEOREM AudienceIsServed == Spec => []AudienceServed
<1>1. Init => LastInv /\ AudienceServed
  BY DEF Init, IdleThread, LastInv, AudienceServed
<1> QED BY <1>1, ServedNext, Invariance, PTL DEF Spec

-----------------------------------------------------------------------------
(* When only the plugin holds references on its implementations: each       *)
(* activation has an object of its own, its sink is on no list but that     *)
(* object's, and is not let go while the object may still call it.          *)
ExclusiveInv ==
  /\ \A o \in Observer : \A p \in Observer \ {o} :
       /\ client[o].pc \in {"new", "out"} \/ client[p].pc \in {"new", "out"}
       /\ client[o].pc # "new" /\ client[p].pc # "new" => client[o].instance # client[p].instance
  /\ \A o \in Observer :
       /\ client[o].pc \in Uses \ {"unsubscribe", "clear"} => instance = client[o].instance
       /\ \A i \in Instance : o \in notifications[i] =>
            client[o].pc = "holding" /\ client[o].instance = i
       /\ \A t \in Thread : o \in thread[t].snapshot =>
            client[o].pc \in {"holding", "detach"} /\ client[o].instance = thread[t].instance
       /\ ~owned[o] => client[o].pc = "out"

LEMMA ExclusiveInit == Init => ExclusiveInv
BY DEF Init, IdleThread, ExclusiveInv, Uses

LEMMA ExclusiveOwners ==
  ASSUME Sink = Observer, ControlInv, ExclusiveInv, NEW o \in Observer,
         \/ \E i \in Instance : Construct(o, i)
         \/ \E s \in Sink : Acquire(o, s)
         \/ Subscribe(o) \/ Configured(o) \/ ConfigureFails(o) \/ Register(o)
         \/ Unregister(o) \/ Release(o) \/ Drop(o) \/ Destructor(o)
  PROVE  ExclusiveInv'
<1> USE DEF objects, lists
<1>0. client \in [Observer -> Owner] /\ notifications \in [Instance -> SUBSET Observer]
  BY DEF ControlInv, StateTypeOK
<1>1. ASSUME NEW i \in Instance, Construct(o, i) PROVE ExclusiveInv'
  <2>1. \A p \in Observer : client[p].pc # "new" => client[p].instance # i
    BY <1>1 DEF Construct, ControlInv, ObjectInv
  <2> QED BY <1>0, <1>1, <2>1 DEF Construct, ExclusiveInv, Uses, Owner
<1>2. ASSUME NEW s \in Sink, Acquire(o, s) PROVE FALSE
  BY <1>2 DEF Acquire
<1>3. CASE Subscribe(o) \/ Configured(o) \/ ConfigureFails(o)
  BY <1>0, <1>3 DEF Subscribe, Configured, ConfigureFails, ExclusiveInv, Uses, Owner
<1>4. CASE Register(o) \/ Unregister(o)
  BY <1>0, <1>4 DEF Register, Unregister, ExclusiveInv, Uses, Owner
<1>5. CASE Release(o)
  <2>1. \A p \in Observer \ {o} :
          client[p] # [pc |-> "holding", instance |-> client[o].instance]
    BY <1>5 DEF Release, ExclusiveInv
  <2>2. client' = [client EXCEPT ![o].pc = "detach"]
    BY <1>5, <2>1 DEF Release
  <2>3. \A i \in Instance : o \notin notifications[i]
    BY <1>5 DEF Release, ExclusiveInv
  <2> QED BY <1>0, <1>5, <2>2, <2>3 DEF Release, ExclusiveInv, Uses, Owner
<1>6. CASE Drop(o)
  BY <1>0, <1>6 DEF Drop, ExclusiveInv, ControlInv, StateTypeOK
<1>7. CASE Detach(o)
  <2>1. \A t \in Thread : thread[t].snapshot = {}
    BY <1>7, ConstantsAssumption DEF Detach, ConstantsAssumption, ControlInv, LockInv, FrameInv
  <2> QED BY <1>0, <1>7, <2>1 DEF Detach, ExclusiveInv, Uses, Owner
<1>8. CASE Unsubscribe(o)
  BY <1>0, <1>8 DEF Unsubscribe, ExclusiveInv, Uses, Owner
<1>9. CASE Destroy(o)
  <2>1. client[o].instance \in Instance
    BY <1>0, <1>9 DEF Destroy, Owner, ControlInv, ObjectInv
  <2>2. \A i \in Instance : notifications'[i] \subseteq notifications[i]
    BY <1>0, <1>9 DEF Destroy
  <2> QED BY <1>0, <1>9, <2>1, <2>2 DEF Destroy, ExclusiveInv, Uses, Owner
<1> QED BY <1>1, <1>2, <1>3, <1>4, <1>5, <1>6, <1>7, <1>8, <1>9 DEF Destructor

LEMMA ExclusiveHandler ==
  ASSUME Sink = Observer, ControlInv, ExclusiveInv, NEW t \in Thread, Deliver(t) \/ Handler(t)
  PROVE  ExclusiveInv'
<1> USE DEF objects, lists
<1>0. thread \in [Thread -> Frame]
  BY DEF ControlInv, StateTypeOK
<1>1. UNCHANGED <<instance, notifications, owned, client>>
  BY DEF Deliver, Handler, EnterHandler, Snapshot, Call, Return, ReleaseSnapshot, ExitHandler
<1>2. ASSUME NEW o \in Observer, NEW u \in Thread, o \in thread'[u].snapshot
      PROVE  client[o].pc \in {"holding", "detach"} /\ client[o].instance = thread'[u].instance
  <2>1. CASE thread'[u].snapshot = thread[u].snapshot /\ thread'[u].instance = thread[u].instance
    BY <1>2, <2>1 DEF ExclusiveInv
  <2>2. CASE Snapshot(t) /\ u = t
    <3>1. o \in notifications[thread[t].instance] /\ thread'[t].instance = thread[t].instance
      BY <1>0, <1>2, <2>2 DEF Snapshot, Frame
    <3>2. thread[t].instance \in Instance
      BY <1>0, <2>2 DEF Snapshot, Frame, ControlInv, FrameInv
    <3> QED BY <2>2, <3>1, <3>2 DEF ExclusiveInv
  <2>3. CASE u # t
    <3>1. thread'[u] = thread[u]
      BY <1>0, <2>3 DEF Deliver, Handler, EnterHandler, Snapshot, Call, Return, ReleaseSnapshot, ExitHandler
    <3> QED BY <2>1, <3>1
  <2>4. CASE u = t /\ (Deliver(t) \/ EnterHandler(t) \/ ReleaseSnapshot(t) \/ ExitHandler(t))
    <3>1. thread[t].pc # "notify" => thread[t].snapshot = {}
      BY DEF ControlInv, FrameInv
    <3>2. thread'[t].snapshot = {}
      BY <1>0, <2>4, <3>1 DEF Deliver, EnterHandler, ReleaseSnapshot, ExitHandler, IdleThread, Frame
    <3> QED BY <1>2, <2>4, <3>2
  <2>5. ASSUME u = t, Return(t) \/ \E p \in Observer : Call(t, p)
        PROVE  thread'[u].snapshot = thread[u].snapshot /\ thread'[u].instance = thread[u].instance
    <3>1. CASE Return(t)
      BY <1>0, <2>5, <3>1 DEF Return, Frame
    <3>2. ASSUME NEW p \in Observer, Call(t, p)
          PROVE  thread'[u].snapshot = thread[u].snapshot /\ thread'[u].instance = thread[u].instance
      <4>1. thread'[u].snapshot = thread[u].snapshot
        BY <1>0, <2>5, <3>2 DEF Call, Frame
      <4>2. thread'[u].instance = thread[u].instance
        BY <1>0, <2>5, <3>2 DEF Call, Frame
      <4> QED BY <4>1, <4>2
    <3> QED BY <2>5, <3>1, <3>2
  <2> QED BY <2>1, <2>2, <2>3, <2>4, <2>5 DEF Handler
<1> QED BY <1>1, <1>2 DEF ExclusiveInv

LEMMA ExclusiveNext == Sink = Observer /\ ControlInv /\ ExclusiveInv /\ [Next]_vars => ExclusiveInv'
<1> SUFFICES ASSUME Sink = Observer, ControlInv, ExclusiveInv, [Next]_vars PROVE ExclusiveInv'
  OBVIOUS
<1>1. CASE UNCHANGED vars
  BY <1>1 DEF vars, objects, lists, ExclusiveInv
<1>2. CASE Next
  BY <1>2, ExclusiveOwners, ExclusiveHandler DEF Next
<1> QED BY <1>1, <1>2

(* An activation whose implementation nobody else references: no event      *)
(* reaches its sink once it is gone, and every event of the bus reaches     *)
(* its implementation.                                                     *)
THEOREM ExclusiveActivation ==
  ASSUME Sink = Observer
  PROVE  Spec => [](SinkAlive /\ ActivationServed)
<1>1. Init => ControlInv /\ ExclusiveInv
  BY ControlInit, ExclusiveInit
<1>2. ControlInv /\ ExclusiveInv /\ [Next]_vars => (ControlInv /\ ExclusiveInv)'
  BY ControlNext, ExclusiveNext
<1>3. ControlInv /\ ExclusiveInv => SinkAlive /\ ActivationServed
  <2> SUFFICES ASSUME ControlInv, ExclusiveInv PROVE SinkAlive /\ ActivationServed
    OBVIOUS
  <2>1. SinkAlive
    <3>1. ASSUME NEW t \in Thread, NEW o \in Sink, o \in thread[t].pending \cup {thread[t].calling}
          PROVE  owned[o]
      <4>1. o \in thread[t].snapshot
        BY <3>1, ConstantsAssumption DEF ConstantsAssumption, ControlInv, FrameInv
      <4>2. client[o].pc \in {"holding", "detach"}
        BY <4>1 DEF ExclusiveInv
      <4> QED BY <4>2 DEF ExclusiveInv
    <3> QED BY <3>1 DEF SinkAlive
  <2>2. ActivationServed
    BY DEF ActivationServed, ExclusiveInv, Uses
  <2> QED BY <2>1, <2>2
<1> QED BY <1>1, <1>2, <1>3, PTL DEF Spec
=============================================================================
