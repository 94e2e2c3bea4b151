--------------------------- MODULE MCAtomicExport ---------------------------
(***************************************************************************)
(* Bounds for model-checking AtomicExport.                                 *)
(***************************************************************************)
EXTENDS AtomicExport, TLC

ExportSymmetry == Permutations(Exporters)
=============================================================================
