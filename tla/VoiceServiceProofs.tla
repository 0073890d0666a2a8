------------------------- MODULE VoiceServiceProofs -------------------------
(***************************************************************************)
(* What follows from the promise of the plugin as a whole, for any number  *)
(* of observers, events and activations.                                   *)
(***************************************************************************)
EXTENDS VoiceService, TLAPS

(* Off: nobody listens and nothing is under way.  On: somebody listens.     *)
ServiceInv ==
  /\ phase \in {"off", "starting", "on", "stopping"}
  /\ listening \subseteq Observer /\ pending \subseteq Observer
  /\ phase = "off" => listening = {} /\ current = 0
  /\ phase = "on" => listening # {}
  /\ current = 0 => pending = {}
  /\ count \in Nat

LEMMA ServiceInvNext == ServiceInv /\ [Next]_vars => ServiceInv'
<1> SUFFICES ASSUME ServiceInv, [Next]_vars PROVE ServiceInv'
  OBVIOUS
<1> USE DEF ServiceInv, feed
<1>1. CASE Start \/ Ready \/ Stop \/ Stopped
  BY <1>1 DEF Start, Ready, Stop, Stopped
<1>2. CASE Begin \/ End
  BY <1>2 DEF Begin, End
<1>3. ASSUME NEW o \in Observer, Join(o) \/ Leave(o) \/ Hand(o) PROVE ServiceInv'
  BY <1>3 DEF Join, Leave, Hand
<1>4. CASE UNCHANGED vars
  BY <1>4 DEF vars
<1> QED BY <1>1, <1>2, <1>3, <1>4 DEF Next

LEMMA ServiceInvariance == Spec => []ServiceInv
<1>1. Init => ServiceInv
  BY DEF Init, ServiceInv
<1> QED BY <1>1, ServiceInvNext, PTL DEF Spec

(* Off is silent: iarmEventHandler calls nobody between two activations.    *)
THEOREM SilentWhenOff == Spec => OffIsSilent
<1>1. ServiceInv /\ [Next]_vars => [phase = "off" => UNCHANGED <<count, last>>]_vars
  <2> SUFFICES ASSUME ServiceInv, Next, phase = "off" PROVE UNCHANGED <<count, last>>
    OBVIOUS
  <2>1. current = 0 /\ pending = {}
    BY DEF ServiceInv
  <2> QED BY <2>1 DEF Next, Start, Ready, Stop, Stopped, Begin, End, Join, Leave, Hand, feed
<1> QED BY <1>1, ServiceInvariance, PTL DEF Spec, OffIsSilent

(* On is heard: every event of an activated plugin has an audience.         *)
THEOREM HeardWhenOn == Spec => OnIsHeard
<1>1. ServiceInv /\ [Next]_vars =>
        /\ [phase = "on" /\ count' # count => pending' = listening /\ pending' # {}]_vars
        /\ [phase = "on" /\ phase' = "on" => listening' = listening]_vars
  <2> SUFFICES ASSUME ServiceInv, Next, phase = "on"
               PROVE  /\ count' # count => pending' = listening /\ pending' # {}
                      /\ phase' = "on" => listening' = listening
    OBVIOUS
  <2>1. listening # {}
    BY DEF ServiceInv
  <2>2. CASE Start \/ Ready \/ Stop \/ Stopped
    BY <2>2 DEF Start, Ready, Stop, Stopped, feed
  <2>3. CASE Begin \/ End
    BY <2>1, <2>3 DEF Begin, End
  <2>4. ASSUME NEW o \in Observer, Join(o) \/ Leave(o) \/ Hand(o)
        PROVE  count' = count /\ listening' = listening
    BY <2>4 DEF Join, Leave, Hand
  <2> QED BY <2>2, <2>3, <2>4 DEF Next
<1> QED BY <1>1, ServiceInvariance, PTL DEF Spec, OnIsHeard

(* The service broadcasts: to each observer the events come in one order.   *)
THEOREM ServiceBroadcasts == Spec => Broadcasts
<1>1. Init => Feed!Init
  BY DEF Init, Feed!Init
<1>2. ServiceInv /\ [Next]_vars => [Feed!Next]_(Feed!vars)
  <2> SUFFICES ASSUME ServiceInv, [Next]_vars PROVE [Feed!Next]_(Feed!vars)
    OBVIOUS
  <2>1. CASE Start \/ Ready \/ Stop \/ Stopped \/ UNCHANGED vars
    BY <2>1 DEF Start, Ready, Stop, Stopped, vars, feed, Feed!vars
  <2>2. CASE Begin
    BY <2>2 DEF ServiceInv, Begin, Feed!Next, Feed!Begin
  <2>3. CASE End
    BY <2>3 DEF End, Feed!Next, Feed!End
  <2>4. ASSUME NEW o \in Observer, Join(o) \/ Leave(o) \/ Hand(o)
        PROVE  [Feed!Next]_(Feed!vars)
    BY <2>4 DEF Join, Leave, Hand, feed, Feed!Next, Feed!Hand, Feed!vars
  <2> QED BY <2>1, <2>2, <2>3, <2>4 DEF Next
<1> QED BY <1>1, <1>2, ServiceInvariance, PTL DEF Spec, Broadcasts, Feed!Spec
=============================================================================
