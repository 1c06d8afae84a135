-------------------------------- MODULE MCAv1 --------------------------------
(* Instance of Av1Jobs: two files, three jobs, one optional register.      *)
EXTENDS Av1Jobs, TLC
CONSTANTS f1, f2
Sessions == Permutations({f1, f2})
=============================================================================
