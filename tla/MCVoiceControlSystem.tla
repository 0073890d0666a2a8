------------------------ MODULE MCVoiceControlSystem ------------------------
(***************************************************************************)
(* VoiceControlSystem for TLC: two activations that create an              *)
(* implementation, one after the other, any number that do not, two bus    *)
(* threads.                                                                *)
(***************************************************************************)
EXTENDS VoiceControlSystem

(* Which of the unused objects and sinks an activation gets differs in the  *)
(* names only, as nothing tells them apart before: it gets a fixed one.     *)
FixedNames ==
  /\ \A s \in Sink : client[s].pc = "new" /\ client'[s].pc # "new" =>
       s = CHOOSE unused \in Sink : client[unused].pc = "new"
  /\ \A i \in Instance : object[i] = "unborn" /\ object'[i] # "unborn" =>
       i = CHOOSE unused \in Instance : object[unused] = "unborn"
=============================================================================
