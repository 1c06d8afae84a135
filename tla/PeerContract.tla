---------------------------- MODULE PeerContract ----------------------------
(***************************************************************************)
(* What RVD1 promises RVD0 through RKMPP_PEER_WORKER_INTERFACE             *)
(* (shared/rkmpp_peer_worker_ifc.h): a kick it accepts is run at most once *)
(* and answered at most once, with what became of it on RVD1's codec.      *)
(* RkvdecJobs relies on this and no more: its atPeer are the kicks that    *)
(* are accepted here, PeerCompletion is Answer and PeerDrop is Drop.       *)
(***************************************************************************)
EXTENDS Naturals

CONSTANT Cookies      \* CompletionCookie values: the ids of RVD0's jobs

VARIABLES
    told,    \* what RVD0 has been told of each kick
    ran      \* what RVD1's codec has done for each kick

Endings == {"ok", "error", "timeout"}
Told == {"new", "rejected", "accepted", "dropped", "notready", "invalid"} \cup Endings
Ran  == {"no", "running", "lost"} \cup Endings

Init ==
    /\ told = [k \in Cookies |-> "new"]
    /\ ran = [k \in Cookies |-> "no"]

\* KickJob returns.
Accept(k, accepted) ==
    /\ told[k] = "new"
    /\ told' = [told EXCEPT ![k] = IF accepted THEN "accepted" ELSE "rejected"]
    /\ UNCHANGED ran

\* The codec takes one kick at a time.
Start(k) ==
    /\ told[k] = "accepted" /\ ran[k] = "no"
    /\ \A l \in Cookies : ran[l] # "running"
    /\ ran' = [ran EXCEPT ![k] = "running"]
    /\ UNCHANGED told

\* The codec ends it, or a reset takes it away.
End(k, s) ==
    /\ ran[k] = "running"
    /\ ran' = [ran EXCEPT ![k] = s]
    /\ UNCHANGED told

\* The completion callback: how the codec ended the kick, a timeout, or why
\* it was not started.
Answer(k, s) ==
    /\ told[k] = "accepted"
    /\ \/ s \in Endings /\ s = ran[k]
       \/ s = "timeout" /\ ran[k] # "no"
       \/ s \in {"notready", "invalid"} /\ ran[k] = "no"
    /\ told' = [told EXCEPT ![k] = s]
    /\ UNCHANGED ran

\* An accepted kick is given up without a callback.
Drop(k) ==
    /\ told[k] = "accepted"
    /\ told' = [told EXCEPT ![k] = "dropped"]
    /\ UNCHANGED ran

Next ==
    \E k \in Cookies :
        \/ \E b \in BOOLEAN : Accept(k, b)
        \/ Start(k)
        \/ \E s \in Endings \cup {"lost"} : End(k, s)
        \/ \E s \in Told : Answer(k, s)
        \/ Drop(k)

Spec == Init /\ [][Next]_<<told, ran>>
=============================================================================
