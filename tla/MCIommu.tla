------------------------------ MODULE MCIommu ------------------------------
(* Two buffers, of two pages and of one.                                   *)
EXTENDS Rkiommu, TLC
MCPageCount == (1 :> 2) @@ (2 :> 1)
=============================================================================
