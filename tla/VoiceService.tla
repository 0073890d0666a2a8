---------------------------- MODULE VoiceService ----------------------------
(***************************************************************************)
(* What the plugin as a whole promises whoever observes the voice events:  *)
(* it is switched on and off, observers join while it starts and leave     *)
(* while it stops, it is on only with an observer, and every event that is *)
(* broadcast goes to all who listen when the broadcast begins.  It is off  *)
(* only after the broadcast has ended, and then nothing is broadcast.      *)
(***************************************************************************)
EXTENDS Naturals

CONSTANT Observer

VARIABLES
  phase,     \* "off", "starting", "on" or "stopping"
  listening, \* the observers that an event beginning now is for
  current,   \* the number of the event being broadcast, 0 between broadcasts
  pending,   \* the observers it has not been handed to yet
  count,     \* the number of events broadcast so far
  last       \* the last event each observer was handed, 0 if none

feed == <<current, pending, count, last>>
vars == <<phase, listening, feed>>

Init ==
  /\ phase = "off" /\ listening = {}
  /\ current = 0 /\ pending = {} /\ count = 0 /\ last = [o \in Observer |-> 0]

-----------------------------------------------------------------------------
(* Switching on and off.                                                   *)
Start == phase = "off" /\ phase' = "starting" /\ UNCHANGED <<listening, feed>>

Ready == phase = "starting" /\ listening # {} /\ phase' = "on" /\ UNCHANGED <<listening, feed>>

Stop == phase = "on" /\ phase' = "stopping" /\ UNCHANGED <<listening, feed>>

(* A start that failed ends like a stop: with nobody listening, and with    *)
(* no event under way.                                                     *)
Stopped ==
  /\ phase \in {"starting", "stopping"} /\ listening = {} /\ current = 0
  /\ phase' = "off" /\ UNCHANGED <<listening, feed>>

Join(o) ==
  /\ phase = "starting" /\ listening' = listening \cup {o}
  /\ UNCHANGED <<phase, feed>>

Leave(o) ==
  /\ phase = "stopping" /\ listening' = listening \ {o}
  /\ UNCHANGED <<phase, feed>>

-----------------------------------------------------------------------------
(* The broadcast of the events.                                            *)
Begin ==
  /\ phase # "off" /\ current = 0
  /\ count' = count + 1 /\ current' = count' /\ pending' = listening
  /\ UNCHANGED <<phase, listening, last>>

Hand(o) ==
  /\ o \in pending
  /\ pending' = pending \ {o} /\ last' = [last EXCEPT ![o] = current]
  /\ UNCHANGED <<phase, listening, current, count>>

End ==
  /\ current # 0 /\ pending = {}
  /\ current' = 0
  /\ UNCHANGED <<phase, listening, pending, count, last>>

Next ==
  \/ Start \/ Ready \/ Stop \/ Stopped \/ Begin \/ End
  \/ \E o \in Observer : Join(o) \/ Leave(o) \/ Hand(o)

Spec == Init /\ [][Next]_vars

(* While the service is off no observer is called: what a client has seen   *)
(* when the deactivation returns is all of it until the next activation.   *)
OffIsSilent == [][phase = "off" => UNCHANGED <<count, last>>]_vars

(* An event that begins while the service is on is for somebody, and for    *)
(* the same observers at any time between two switches.                    *)
OnIsHeard ==
  /\ [][phase = "on" /\ count' # count => pending' = listening /\ pending' # {}]_vars
  /\ [][phase = "on" /\ phase' = "on" => listening' = listening]_vars

(* Without the switching the service is the broadcast of EventFeed.         *)
Feed == INSTANCE EventFeed
Broadcasts == Feed!Spec
=============================================================================
