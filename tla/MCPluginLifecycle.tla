------------------------- MODULE MCPluginLifecycle -------------------------
(***************************************************************************)
(* PluginLifecycle for TLC: as many activations succeed in creating an     *)
(* implementation as Instance has elements (two in the passing run), and   *)
(* any number fail before; one foreign connection, one concurrent call.    *)
(***************************************************************************)
EXTENDS PluginLifecycle
=============================================================================
