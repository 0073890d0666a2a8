-------------------------- MODULE EventFeedProofs --------------------------
(***************************************************************************)
(* That the broadcast of EventFeed keeps the events of every observer in   *)
(* order, for any number of observers and events.                          *)
(***************************************************************************)
EXTENDS EventFeed, TLAPS

(* Who has been handed nothing yet of the current event has seen only       *)
(* earlier ones.                                                           *)
FeedInv ==
  /\ current \in Nat /\ count \in Nat /\ current <= count
  /\ pending \subseteq Observer /\ (current = 0 => pending = {})
  /\ last \in [Observer -> Nat]
  /\ \A o \in Observer : last[o] <= count
  /\ current # 0 => current = count /\ \A o \in pending : last[o] < current

LEMMA FeedInvInit == Init => FeedInv
BY DEF Init, FeedInv

LEMMA FeedInvNext == FeedInv /\ [Next]_vars => FeedInv'
<1> SUFFICES ASSUME FeedInv, [Next]_vars PROVE FeedInv'
  OBVIOUS
<1>1. CASE Begin
  BY <1>1 DEF Begin, FeedInv
<1>2. ASSUME NEW o \in Observer, Hand(o) PROVE FeedInv'
  BY <1>2 DEF Hand, FeedInv
<1>3. CASE End
  BY <1>3 DEF End, FeedInv
<1>4. CASE UNCHANGED vars
  BY <1>4 DEF vars, FeedInv
<1> QED BY <1>1, <1>2, <1>3, <1>4 DEF Next

(* No observer of a broadcast is handed an event twice or after a later     *)
(* one: Notify... of the implementation calls it once for each event.      *)
THEOREM HandedInOrder == Spec => InOrder
<1>1. FeedInv /\ [Next]_vars => [\A o \in Observer : last'[o] = last[o] \/ last'[o] > last[o]]_vars
  <2> SUFFICES ASSUME FeedInv, Next
               PROVE  \A o \in Observer : last'[o] = last[o] \/ last'[o] > last[o]
    OBVIOUS
  <2>1. CASE Begin \/ End
    BY <2>1 DEF Begin, End
  <2>2. ASSUME NEW o \in Observer, Hand(o)
        PROVE  \A p \in Observer : last'[p] = last[p] \/ last'[p] > last[p]
    BY <2>2 DEF Hand, FeedInv
  <2> QED BY <2>1, <2>2 DEF Next
<1> QED BY FeedInvInit, FeedInvNext, <1>1, PTL DEF Spec, InOrder
=============================================================================
