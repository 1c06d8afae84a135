------------------------------- MODULE MCPool -------------------------------
(* The buffer pool with two handles, one of them used by two threads. *)
EXTENDS BufferPool, TLC

CONSTANTS f1, f2, t1, t2, t3

TwoHandles == (t1 :> f1) @@ (t2 :> f1) @@ (t3 :> f2)
Symmetry   == Permutations({t1, t2})
=============================================================================
