------------------------------- MODULE MCCcu -------------------------------
(* The instance of CcuCluster that TLC checks.                             *)
EXTENDS CcuCluster
=============================================================================
