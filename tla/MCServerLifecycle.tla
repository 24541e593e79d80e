-------------------------- MODULE MCServerLifecycle --------------------------
(* Instances of ServerLifecycle for TLC.                                   *)
EXTENDS ServerLifecycle
=============================================================================
