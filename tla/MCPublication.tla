---------------------------- MODULE MCPublication ----------------------------
(***************************************************************************)
(* Bounds for model-checking Publication.                                  *)
(***************************************************************************)
EXTENDS Publication, TLC

\* Processes, paths and documents are interchangeable.
PublicationSymmetry == Permutations(Procs) \cup Permutations(Paths) \cup Permutations(Documents)
=============================================================================
