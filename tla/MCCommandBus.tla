---------------------------- MODULE MCCommandBus ----------------------------
(***************************************************************************)
(* Bounds for model-checking CommandBus.                                   *)
(***************************************************************************)
EXTENDS CommandBus

OneDelta == {1}
=============================================================================
