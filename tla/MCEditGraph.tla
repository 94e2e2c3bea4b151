----------------------------- MODULE MCEditGraph -----------------------------
(***************************************************************************)
(* Bounds for model-checking EditGraph and GraphDocuments: every           *)
(* definition over four ids in which a node has at most one input, and the *)
(* graphs of up to six nodes that exposures make of the accepted ones; all *)
(* documents of the graphs over the four ids.                              *)
(***************************************************************************)
EXTENDS GraphDocuments
=============================================================================
