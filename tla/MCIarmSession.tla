--------------------------- MODULE MCIarmSession ---------------------------
(***************************************************************************)
(* IarmSession for TLC, with the numbers of the code.                      *)
(***************************************************************************)
EXTENDS IarmSession

(* A process of its own or a shared one, whose components take turns or     *)
(* not, with a steady or an unsteady daemon.                               *)
AllEnvironments == SUBSET Disturbances
=============================================================================
