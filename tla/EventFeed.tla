----------------------------- MODULE EventFeed -----------------------------
(***************************************************************************)
(* What VoiceControlImplementation promises the observers of its events:   *)
(* events are broadcast one at a time, to observers fixed when the         *)
(* broadcast begins, and each of them is called at most once per event.    *)
(* So every observer sees a subsequence of one common order of events.     *)
(***************************************************************************)
EXTENDS Naturals

CONSTANT Observer

VARIABLES
  current,  \* the number of the event being broadcast, 0 between broadcasts
  pending,  \* the observers it has not been handed to yet
  count,    \* the number of events broadcast so far
  last      \* the last event each observer was handed, 0 if none

vars == <<current, pending, count, last>>

Init == current = 0 /\ pending = {} /\ count = 0 /\ last = [o \in Observer |-> 0]

Begin ==
  /\ current = 0
  /\ count' = count + 1 /\ current' = count'
  /\ pending' \in SUBSET Observer
  /\ UNCHANGED last

Hand(o) ==
  /\ o \in pending
  /\ pending' = pending \ {o} /\ last' = [last EXCEPT ![o] = current]
  /\ UNCHANGED <<current, count>>

End ==
  /\ current # 0 /\ pending = {}
  /\ current' = 0
  /\ UNCHANGED <<pending, count, last>>

Next == Begin \/ (\E o \in Observer : Hand(o)) \/ End

Spec == Init /\ [][Next]_vars

(* No observer is handed an event twice or after a later one.              *)
InOrder == [][\A o \in Observer : last'[o] = last[o] \/ last'[o] > last[o]]_vars
=============================================================================
