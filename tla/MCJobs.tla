------------------------------- MODULE MCJobs -------------------------------
(* Instances of RkvdecJobs for TLC. *)
EXTENDS RkvdecJobs, TLC

CONSTANTS f1, f2, t1, t2

\* Two threads share one file object.
OneFile == [t \in Threads |-> f1]

\* Each thread has a file object of its own.
TwoFiles == (t1 :> f1) @@ (t2 :> f2)

\* Exchanging the two sessions, thread and file together.
Sessions == {(f1 :> f1) @@ (f2 :> f2) @@ (t1 :> t1) @@ (t2 :> t2),
             (f1 :> f2) @@ (f2 :> f1) @@ (t1 :> t2) @@ (t2 :> t1)}

\* A bugcheck stops the machine: nothing is explored beyond one.
Running == ~Bugcheck
=============================================================================
