--------------------------- MODULE EventDispatch ---------------------------
(***************************************************************************)
(* How VoiceControlImplementation hands the events of the IARM bus to its  *)
(* observers (plugin/VoiceControlImplementation.cpp): the static _instance *)
(* with its _instanceLock, the list of observers with their reference      *)
(* counts under _adminLock, the snapshot each event is handed to, and the  *)
(* destructor, which runs on the thread of whoever releases the object     *)
(* last.  The bus calls voiceEventHandler on its own threads.              *)
(*                                                                         *)
(* Each observer has an owner, which also holds a reference on the         *)
(* implementation: for a sink the owner is an activation of the plugin,    *)
(* which creates the implementation and has the observer as a member;      *)
(* any other is a reference-counted object of another COM-RPC client.      *)
(* Sections under _adminLock call out to nobody, so each is one step; so   *)
(* are the constructor's and the destructor's sections under _instanceLock.*)
(***************************************************************************)
EXTENDS Naturals, FiniteSets

CONSTANTS
  Instance,  \* the implementation objects that can be created
  Observer,  \* the INotification objects
  Sink,      \* those that are the _notification of an activation of the plugin
  Thread,    \* the threads the bus delivers events on
  MaxEvents, \* bound: once this many events were dispatched, no other is valid
  Null       \* nullptr, nobody

ASSUME ConstantsAssumption ==
  /\ Sink \subseteq Observer
  /\ Null \notin Instance \cup Observer \cup Thread
  /\ IsFiniteSet(Instance) /\ IsFiniteSet(Thread)
  /\ MaxEvents \in Nat

VARIABLES
  instance,      \* the static _instance
  instanceLock,  \* the bus thread inside _instanceLock, or Null
  object,        \* the life of each implementation object
  subscribed,    \* the objects whose voiceEventHandler the bus may still have
  notifications, \* _notifications of each object, its order left out
  refs,          \* references on each observer, its owner's included
  owned,         \* TRUE while the owner of an observer keeps it
  client,        \* what the owner of an observer is doing, with which object
  thread,        \* the frame of voiceEventHandler on each bus thread
  sent,          \* the number of events dispatched so far
  last           \* the last event each observer was called with, 0 if none

objects == <<instance, object, subscribed>>
lists   == <<notifications, refs>>
vars == <<objects, instanceLock, lists, owned, client, thread, sent, last>>

-----------------------------------------------------------------------------
IdleThread == [pc |-> "idle", instance |-> Null, event |-> 0,
               snapshot |-> {}, pending |-> {}, calling |-> Null]

Init ==
  /\ instance = Null /\ instanceLock = Null
  /\ object = [i \in Instance |-> "unborn"] /\ subscribed = {}
  /\ notifications = [i \in Instance |-> {}]
  /\ refs = [o \in Observer |-> 1] /\ owned = [o \in Observer |-> TRUE]
  /\ client = [o \in Observer |-> [pc |-> "new", instance |-> Null]]
  /\ thread = [t \in Thread |-> IdleThread]
  /\ sent = 0 /\ last = [o \in Observer |-> 0]

-----------------------------------------------------------------------------
(* The owners of the observers.                                            *)

(* The plugin is activated once at a time; its activation constructs an     *)
(* implementation, which makes itself the instance.                        *)
Construct(o, i) ==
  /\ o \in Sink /\ client[o].pc = "new" /\ object[i] = "unborn"
  /\ \A s \in Sink : client[s].pc \in {"new", "out"}
  /\ instanceLock = Null
  /\ object' = [object EXCEPT ![i] = "live"] /\ instance' = i
  /\ client' = [client EXCEPT ![o] = [pc |-> "fresh", instance |-> i]]
  /\ UNCHANGED <<subscribed, instanceLock, lists, owned, thread, sent, last>>

(* The bus may refuse to remove the handlers of an object.                 *)
RemoveSubscription(o) ==
  subscribed' = subscribed \ {client[o].instance} \/ UNCHANGED subscribed

(* Configure registers voiceEventHandler with the bus; it fails, and then  *)
(* unregisters it, when not all the registrations succeed or the bus is    *)
(* not connected after them.                                               *)
Subscribe(o) ==
  /\ client[o].pc = "fresh"
  /\ subscribed' = subscribed \cup {client[o].instance}
  /\ client' = [client EXCEPT ![o].pc = "configuring"]
  /\ UNCHANGED <<instance, object, instanceLock, lists, owned, thread, sent, last>>

Configured(o) ==
  /\ client[o].pc = "configuring"
  /\ client' = [client EXCEPT ![o].pc = "holding"]
  /\ UNCHANGED <<objects, instanceLock, lists, owned, thread, sent, last>>

ConfigureFails(o) ==
  /\ client[o].pc \in {"fresh", "configuring"}
  /\ RemoveSubscription(o)
  /\ client' = [client EXCEPT ![o].pc = "failed"]
  /\ UNCHANGED <<instance, object, instanceLock, lists, owned, thread, sent, last>>

(* Another client gets the implementation of the activated plugin.         *)
Acquire(o, s) ==
  /\ o \notin Sink /\ client[o].pc = "new"
  /\ s \in Sink /\ client[s].pc = "holding"
  /\ client' = [client EXCEPT ![o] = client[s]]
  /\ UNCHANGED <<objects, instanceLock, lists, owned, thread, sent, last>>

Register(o) ==
  LET i == client[o].instance IN
  /\ client[o].pc = "holding" /\ owned[o]
  /\ o \notin notifications[i]
  /\ notifications' = [notifications EXCEPT ![i] = @ \cup {o}]
  /\ refs' = [refs EXCEPT ![o] = @ + 1]
  /\ UNCHANGED <<objects, instanceLock, owned, client, thread, sent, last>>

Unregister(o) ==
  LET i == client[o].instance IN
  /\ client[o].pc = "holding"
  /\ o \in notifications[i]
  /\ notifications' = [notifications EXCEPT ![i] = @ \ {o}]
  /\ refs' = [refs EXCEPT ![o] = @ - 1]
  /\ UNCHANGED <<objects, instanceLock, owned, client, thread, sent, last>>

(* Release: the last reference destroys the object on this thread.  The     *)
(* plugin unregisters its sink first, and drops what it cannot configure.  *)
Release(o) ==
  LET i == client[o].instance
      lastOne == \A p \in Observer \ {o} : client[p] # [pc |-> "holding", instance |-> i]
  IN
  /\ client[o].pc \in {"failed", "holding"} /\ (o \in Sink => o \notin notifications[i])
  /\ client' = [client EXCEPT ![o].pc = IF lastOne THEN "detach" ELSE "out"]
  /\ UNCHANGED <<objects, instanceLock, lists, owned, thread, sent, last>>

(* Mutant: the destructor does not wait for the handler.                   *)
DetachAtOnce(o) ==
  /\ client[o].pc = "detach"
  /\ instance' = Null
  /\ client' = [client EXCEPT ![o].pc = "unsubscribe"]
  /\ UNCHANGED <<object, subscribed, instanceLock, lists, owned, thread, sent, last>>

(* ~VoiceControlImplementation, up to line 142: it waits for the handler.  *)
Detach(o) ==
  /\ client[o].pc = "detach" /\ instanceLock = Null
  /\ instance' = Null
  /\ client' = [client EXCEPT ![o].pc = "unsubscribe"]
  /\ UNCHANGED <<object, subscribed, instanceLock, lists, owned, thread, sent, last>>

(* DeinitializeIARM, as far as events are concerned.                       *)
Unsubscribe(o) ==
  /\ client[o].pc = "unsubscribe"
  /\ RemoveSubscription(o)
  /\ client' = [client EXCEPT ![o].pc = "clear"]
  /\ UNCHANGED <<instance, object, instanceLock, lists, owned, thread, sent, last>>

(* Mutant: the remaining observers are not released.                       *)
DestroyLeaks(o) ==
  LET i == client[o].instance IN
  /\ client[o].pc = "clear"
  /\ notifications' = [notifications EXCEPT ![i] = {}]
  /\ object' = [object EXCEPT ![i] = "freed"]
  /\ client' = [client EXCEPT ![o].pc = "out"]
  /\ UNCHANGED <<instance, subscribed, refs, instanceLock, owned, thread, sent, last>>

(* The remaining observers are released, and the object is freed.          *)
Destroy(o) ==
  LET i == client[o].instance IN
  /\ client[o].pc = "clear"
  /\ refs' = [p \in Observer |-> refs[p] - (IF p \in notifications[i] THEN 1 ELSE 0)]
  /\ notifications' = [notifications EXCEPT ![i] = {}]
  /\ object' = [object EXCEPT ![i] = "freed"]
  /\ client' = [client EXCEPT ![o].pc = "out"]
  /\ UNCHANGED <<instance, subscribed, instanceLock, owned, thread, sent, last>>

(* The owner lets its observer go: an activation of the plugin is deleted   *)
(* with its sink when Deinitialize has returned.                           *)
Drop(o) ==
  /\ owned[o] /\ (o \in Sink => client[o].pc = "out")
  /\ owned' = [owned EXCEPT ![o] = FALSE] /\ refs' = [refs EXCEPT ![o] = @ - 1]
  /\ UNCHANGED <<objects, instanceLock, notifications, client, thread, sent, last>>

-----------------------------------------------------------------------------
(* voiceEventHandler, iarmEventHandler and Notify..., on a bus thread.     *)

Deliver(t) ==
  /\ thread[t].pc = "idle" /\ subscribed # {}
  /\ thread' = [thread EXCEPT ![t].pc = "enter"]
  /\ UNCHANGED <<objects, instanceLock, lists, owned, client, sent, last>>

(* Mutant: _instanceLock is let go before the event is dispatched.          *)
EnterUnlocked(t) ==
  /\ thread[t].pc = "enter" /\ instanceLock = Null
  /\ \/ /\ instance # Null /\ sent < MaxEvents
        /\ sent' = sent + 1
        /\ thread' = [thread EXCEPT ![t].pc = "snapshot", ![t].instance = instance,
                                    ![t].event = sent']
     \/ thread' = [thread EXCEPT ![t].pc = "exit"] /\ UNCHANGED sent
  /\ UNCHANGED <<objects, instanceLock, lists, owned, client, last>>

(* _instanceLock is kept until ExitHandler.  Without an instance, or with    *)
(* data that is not a valid event, nothing is dispatched.                  *)
EnterHandler(t) ==
  /\ thread[t].pc = "enter" /\ instanceLock = Null
  /\ instanceLock' = t
  /\ \/ /\ instance # Null /\ sent < MaxEvents
        /\ sent' = sent + 1
        /\ thread' = [thread EXCEPT ![t].pc = "snapshot", ![t].instance = instance,
                                    ![t].event = sent']
     \/ thread' = [thread EXCEPT ![t].pc = "exit"] /\ UNCHANGED sent
  /\ UNCHANGED <<objects, lists, owned, client, last>>

(* Mutant: the snapshot takes no references.                               *)
BareSnapshot(t) ==
  LET list == notifications[thread[t].instance] IN
  /\ thread[t].pc = "snapshot"
  /\ thread' = [thread EXCEPT ![t].pc = "notify", ![t].snapshot = list, ![t].pending = list]
  /\ UNCHANGED <<objects, instanceLock, lists, owned, client, sent, last>>

(* ObserverSnapshot                                                        *)
Snapshot(t) ==
  LET list == notifications[thread[t].instance] IN
  /\ thread[t].pc = "snapshot"
  /\ refs' = [o \in Observer |-> refs[o] + (IF o \in list THEN 1 ELSE 0)]
  /\ thread' = [thread EXCEPT ![t].pc = "notify", ![t].snapshot = list, ![t].pending = list]
  /\ UNCHANGED <<objects, instanceLock, notifications, owned, client, sent, last>>

Call(t, o) ==
  /\ thread[t].pc = "notify" /\ thread[t].calling = Null /\ o \in thread[t].pending
  /\ thread' = [thread EXCEPT ![t].calling = o, ![t].pending = @ \ {o}]
  /\ last' = [last EXCEPT ![o] = thread[t].event]
  /\ UNCHANGED <<objects, instanceLock, lists, owned, client, sent>>

Return(t) ==
  /\ thread[t].calling # Null
  /\ thread' = [thread EXCEPT ![t].calling = Null]
  /\ UNCHANGED <<objects, instanceLock, lists, owned, client, sent, last>>

(* ReleaseObserverSnapshot                                                 *)
ReleaseSnapshot(t) ==
  /\ thread[t].pc = "notify" /\ thread[t].calling = Null /\ thread[t].pending = {}
  /\ refs' = [o \in Observer |-> refs[o] - (IF o \in thread[t].snapshot THEN 1 ELSE 0)]
  /\ thread' = [thread EXCEPT ![t].pc = "exit", ![t].snapshot = {}]
  /\ UNCHANGED <<objects, instanceLock, notifications, owned, client, sent, last>>

(* Mutant: the handler returns with the lock.                              *)
ExitLocked(t) ==
  /\ thread[t].pc = "exit"
  /\ thread' = [thread EXCEPT ![t] = IdleThread]
  /\ UNCHANGED <<objects, instanceLock, lists, owned, client, sent, last>>

ExitHandler(t) ==
  /\ thread[t].pc = "exit"
  /\ instanceLock' = Null /\ thread' = [thread EXCEPT ![t] = IdleThread]
  /\ UNCHANGED <<objects, lists, owned, client, sent, last>>

-----------------------------------------------------------------------------
Destructor(o) == Detach(o) \/ Unsubscribe(o) \/ Destroy(o)

Handler(t) ==
  \/ EnterHandler(t) \/ Snapshot(t) \/ (\E o \in Observer : Call(t, o)) \/ Return(t)
  \/ ReleaseSnapshot(t) \/ ExitHandler(t)

Next ==
  \/ \E o \in Observer :
       \/ \E i \in Instance : Construct(o, i)
       \/ \E s \in Sink : Acquire(o, s)
       \/ Subscribe(o) \/ Configured(o) \/ ConfigureFails(o) \/ Register(o)
       \/ Unregister(o) \/ Release(o) \/ Drop(o) \/ Destructor(o)
  \/ \E t \in Thread : Deliver(t) \/ Handler(t)

Spec == Init /\ [][Next]_vars

-----------------------------------------------------------------------------
Owner == [pc : {"new", "fresh", "configuring", "holding", "failed",
                "detach", "unsubscribe", "clear", "out"},
          instance : Instance \cup {Null}]
Frame == [pc : {"idle", "enter", "snapshot", "notify", "exit"},
          instance : Instance \cup {Null}, event : Nat,
          snapshot : SUBSET Observer, pending : SUBSET Observer, calling : Observer \cup {Null}]
StateTypeOK ==
  /\ instance \in Instance \cup {Null} /\ instanceLock \in Thread \cup {Null}
  /\ object \in [Instance -> {"unborn", "live", "freed"}] /\ subscribed \subseteq Instance
  /\ notifications \in [Instance -> SUBSET Observer] /\ owned \in [Observer -> BOOLEAN]
  /\ client \in [Observer -> Owner] /\ thread \in [Thread -> Frame]
  /\ sent \in Nat /\ last \in [Observer -> Nat]

(* Every variable has its type; in particular no count of references on an  *)
(* observer drops below zero (Register ... ReleaseObserverSnapshot).       *)
TypeOK == StateTypeOK /\ refs \in [Observer -> Nat]

(* The handler never works with an object that is being destroyed or gone:  *)
(* while an event is dispatched the object is the live instance (the lock   *)
(* of the destructor and of voiceEventHandler).                            *)
InstanceAlive ==
  \A t \in Thread : thread[t].instance # Null =>
    thread[t].instance = instance /\ object[instance] = "live"

(* The references on an observer are its owner's, one for each list it is   *)
(* on and one for each snapshot it is in, however registrations, events    *)
(* and destruction interleave.                                             *)
RefsBalanced ==
  \A o \in Observer :
    refs[o] = (IF owned[o] THEN 1 ELSE 0)
              + Cardinality({i \in Instance : o \in notifications[i]})
              + Cardinality({t \in Thread : o \in thread[t].snapshot})

(* An observer that is being called, or will be, is referenced, although    *)
(* its owner may have unregistered and dropped it since the snapshot.      *)
CalledReferenced ==
  \A t \in Thread : \A o \in thread[t].pending \cup {thread[t].calling} :
    o # Null => refs[o] > 0

(* An event is over with the observers it was handed to before the next one *)
(* reaches any of them: while a thread goes through its snapshot, whoever  *)
(* is no longer pending has that event as the last, so that when the        *)
(* snapshot is released every observer in it was served, and nobody else   *)
(* was called in between (iarmEventHandler under _instanceLock).           *)
AudienceServed ==
  \A t \in Thread : thread[t].pc = "notify" =>
    /\ \A o \in thread[t].snapshot \ thread[t].pending : last[o] = thread[t].event
    /\ \A o \in Observer : last[o] = thread[t].event => o \in thread[t].snapshot \ thread[t].pending

(* No event reaches a sink whose activation of the plugin is gone: when the *)
(* plugin held the last reference on the implementation, its Release       *)
(* returns after the destructor, and that after the handler.               *)
SinkAlive ==
  \A t \in Thread : \A o \in thread[t].pending \cup {thread[t].calling} :
    o \in Sink => owned[o]

(* The events of the bus reach the implementation of the activated plugin:  *)
(* no other object's destructor takes its place as the instance.           *)
ActivationServed ==
  \A s \in Sink : client[s].pc \in {"fresh", "configuring", "holding"} =>
    instance = client[s].instance

(* The dispatch is a broadcast of one event at a time in one common order.  *)
Notifying == instanceLock # Null /\ thread[instanceLock].pc = "notify"
Current == IF Notifying THEN thread[instanceLock].event ELSE 0
Pending == IF Notifying THEN thread[instanceLock].pending ELSE {}
Count   == IF instanceLock # Null /\ thread[instanceLock].pc = "snapshot"
             THEN sent - 1 ELSE sent
Feed == INSTANCE EventFeed WITH current <- Current, pending <- Pending, count <- Count
BroadcastInOrder == Feed!Spec
=============================================================================
