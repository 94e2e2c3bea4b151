---------------------------- MODULE MCTileRender ----------------------------
(***************************************************************************)
(* Bounds for model-checking TileRender.  Three tiles: one at the edge of  *)
(* the image is smaller, and one alone is above the budget of the cache.   *)
(***************************************************************************)
EXTENDS TileRender, TLC

TileBytes == <<2, 1, 5>>

\* The threads of a call are interchangeable, and so are graphs.
RenderSymmetry == Permutations(Workers) \cup Permutations(Renders) \cup Permutations(Graphs)
=============================================================================
