--------------------------- MODULE MCProjectStore ---------------------------
(***************************************************************************)
(* Bounds for model-checking ProjectStore: two sessions, two transactions. *)
(***************************************************************************)
EXTENDS ProjectStore

OneDelta == {1}
=============================================================================
