-------------------------- MODULE PeerWorkerProofs --------------------------
(***************************************************************************)
(* RVD1 keeps PeerContract, for any number of kicks and attachments.       *)
(***************************************************************************)
EXTENDS PeerWorker, TLAPS

\* Before the codec is started for kick k, and when it never will be.
NotStarted == {"none", "rejected", "queued", "dropped", "kick", "kickStart", "complete", "gate"}

\* The work items whose job is in the slot for certain.
Kicking == {"kick", "kickStart", "complete"}

\* How a job that is Done ended: as its decode did, or without one.
EndedAs(k, s) ==
    \/ s \in Endings /\ ran[k] = s
    \/ s \in {"notready", "invalid"} /\ ran[k] = "no"

\* What the callback is about to tell of kick k.
MayTell(k, s) == EndedAs(k, s) \/ (s = "timeout" /\ ran[k] # "no")

\* The codec works for the slot's job only, and the interrupt or DPC under way
\* carries that job's ending.
CodecInv ==
    /\ \A k \in Cookies : ran[k] = "running" => slot = k
    /\ isr # "none" => slot # None /\ ran[slot] = isr /\ dpc # "complete"
    /\ dpc = "complete" => slot # None /\ dpcStatus \in Endings /\ ran[slot] = dpcStatus

\* Where a kick's work item is tells what has become of its job.
ItemOK(k) ==
    /\ item[k] \in NotStarted => ran[k] = "no"
    /\ item[k] \in Kicking => slot = k
    /\ item[k] = "complete" => mmio # "ok"
    /\ slot = k => item[k] \notin {"none", "rejected", "queued", "dropped", "gate"}
    /\ fjob[k].Done => EndedAs(k, fjob[k].Result)
    /\ item[k] \in {"none", "queued"} \cup Kicking => ~fjob[k].Done
    /\ fjob[k].OrphanOnComplete => item[k] \in {"flag", "trampoline", "done"}
    /\ item[k] = "gate" => fjob[k].Done
    /\ item[k] = "waiting" => fjob[k].Done \/ ran[k] # "no"
    /\ item[k] \in {"expired", "flag"} => ran[k] # "no"
    /\ item[k] = "flag" => res[k] = "timeout"
    /\ item[k] = "trampoline" => MayTell(k, res[k])

ItemInv == \A k \in Cookies : ItemOK(k)

IInv == TypeOK /\ CodecInv /\ ItemInv

-----------------------------------------------------------------------------
LEMMA CookieFacts == None \notin Cookies
BY PeerAssumption DEF None, Cookies

\* The parts of a job record an update leaves and changes.
LEMMA JobFacts ==
    /\ Freed \in Job /\ NoRecord \in Job
    /\ Freed.Done = FALSE /\ Freed.OrphanOnComplete = FALSE
    /\ \A r \in Job : /\ [r EXCEPT !.mem = "alloc"] \in Job
                      /\ [r EXCEPT !.OrphanOnComplete = TRUE] \in Job
                      /\ \A x \in Results : [r EXCEPT !.Result = x, !.Done = TRUE] \in Job
BY DEF Freed, NoRecord, Job, Results

LEMMA InitInv == Init => IInv
<1> SUFFICES ASSUME Init PROVE IInv
  OBVIOUS
<1>1. TypeOK
  <2>1. fjob \in [Cookies -> Job]
    BY JobFacts DEF Init
  <2>4. mmio \in Windows /\ attaches \in 0 .. MaxAttach
    BY PeerAssumption DEF Init
  <2>2. item \in [Cookies -> Items] /\ res \in [Cookies -> Results]
    BY DEF Init, Items, Results
  <2>3. answer \in [Cookies -> Results \cup {"lost"}]
    BY DEF Init, Results
  <2> QED BY <2>1, <2>2, <2>3, <2>4 DEF Init, TypeOK
<1>2. CodecInv
  BY DEF Init, CodecInv
<1>3. ItemInv
  BY CookieFacts DEF Init, ItemInv, ItemOK, NotStarted, Kicking, NoRecord
<1> QED BY <1>1, <1>2, <1>3 DEF IInv

\* RVD0's steps move nothing of RVD1's but the codec.
LEMMA Rvd0Inv ==
    ASSUME IInv, Rvd0Step PROVE IInv'
<1> USE DEF IInv, codecVars, dpcVars, devVars, rvd0Vars
<1>1. CASE PeerArrival
  <2>1. TypeOK'
    BY <1>1, PeerAssumption DEF PeerArrival, TypeOK
  <2> QED BY <1>1, <2>1 DEF PeerArrival, CodecInv, ItemInv, ItemOK, EndedAs, MayTell
<1>2. CASE RegisterCompletion
  <2>1. TypeOK'
    BY <1>2 DEF RegisterCompletion, TypeOK
  <2> QED BY <1>2, <2>1 DEF RegisterCompletion, CodecInv, ItemInv, ItemOK, EndedAs, MayTell
<1>3. CASE OnRvd0Connected
  <2>1. TypeOK'
    BY <1>3, ZenonT(60) DEF OnRvd0Connected, TypeOK, LoseDecode
  <2>2. CodecInv'
    BY <1>3, CookieFacts DEF OnRvd0Connected, TypeOK, CodecInv, LoseDecode, Endings
  <2>3. ItemInv'
    BY <1>3 DEF OnRvd0Connected, TypeOK, ItemInv, ItemOK, LoseDecode, EndedAs, MayTell, Endings
  <2> QED BY <2>1, <2>2, <2>3
<1>4. CASE DetachPeer
  <2>1. TypeOK'
    BY <1>4 DEF DetachPeer, TypeOK
  <2> QED BY <1>4, <2>1 DEF DetachPeer, CodecInv, ItemInv, ItemOK, EndedAs, MayTell
<1> QED BY <1>1, <1>2, <1>3, <1>4 DEF Rvd0Step

LEMMA KickInv ==
    ASSUME IInv, NEW k \in Cookies,
           KickJob(k) \/ RunTurnedAway(k) \/ RunForeign(k) \/ KickReset(k) \/ KickStart(k)
    PROVE  IInv'
<1> USE CookieFacts DEF IInv, codecVars, dpcVars, devVars, rvd0Vars, Goto
<1>1. CASE KickJob(k)
  <2>1. TypeOK'
    BY <1>1 DEF KickJob, TypeOK, Items
  <2>2. CodecInv'
    BY <1>1 DEF KickJob, CodecInv
  <2>3. ItemInv'
    BY <1>1 DEF KickJob, TypeOK, ItemInv, ItemOK, NotStarted, Kicking, EndedAs, MayTell
  <2> QED BY <2>1, <2>2, <2>3
<1>2. CASE RunTurnedAway(k)
  <2>0. fjob' = fjob \/ fjob' = [fjob EXCEPT ![k] = Freed]
    BY <1>2 DEF RunTurnedAway
  <2>f. fjob' \in [Cookies -> Job]
    BY <2>0, JobFacts DEF TypeOK
  <2>1. TypeOK'
    BY <1>2, <2>f, ZenonT(60) DEF RunTurnedAway, TypeOK, Items
  <2>2. CodecInv'
    BY <1>2 DEF RunTurnedAway, CodecInv
  <2>3. ItemInv'
    <3>1. fjob'[k].Done = FALSE /\ fjob'[k].OrphanOnComplete = FALSE
      <4>1. fjob[k].Done = FALSE /\ fjob[k].OrphanOnComplete = FALSE
        BY <1>2 DEF RunTurnedAway, TypeOK, ItemInv, ItemOK, Job
      <4>2. fjob'[k] = fjob[k] \/ fjob'[k] = Freed
        BY <2>0 DEF TypeOK
      <4> QED BY <4>1, <4>2, JobFacts
    <3>2. ItemOK(k)'
      BY <1>2, <3>1 DEF RunTurnedAway, TypeOK, ItemInv, ItemOK, NotStarted, Kicking
    <3>3. ASSUME NEW l \in Cookies, l # k PROVE ItemOK(l)'
      <4>1. fjob'[l] = fjob[l] /\ item'[l] = item[l]
        BY <1>2, <2>0, <3>3 DEF RunTurnedAway, TypeOK
      <4> QED BY <1>2, <4>1 DEF RunTurnedAway, ItemInv, ItemOK, EndedAs, MayTell
    <3> QED BY <3>2, <3>3 DEF ItemInv
  <2> QED BY <2>1, <2>2, <2>3
<1>3. CASE RunForeign(k)
  <2>0. fjob' = [fjob EXCEPT ![k] = [fjob[k] EXCEPT !.mem = "alloc"]]
    BY <1>3 DEF RunForeign
  <2>1. TypeOK'
    <3>1. fjob' \in [Cookies -> Job]
      BY <2>0, JobFacts DEF TypeOK
    <3> QED BY <1>3, <3>1 DEF RunForeign, TypeOK, Items
  <2>2. CodecInv'
    BY <1>3 DEF RunForeign, CodecInv, ItemInv, ItemOK, NotStarted
  <2>3. ItemInv'
    BY <1>3, <2>0
       DEF RunForeign, TypeOK, ItemInv, ItemOK, NotStarted, Kicking, EndedAs, MayTell, Job
  <2> QED BY <2>1, <2>2, <2>3
<1>4. CASE KickReset(k)
  <2>1. TypeOK'
    <3>1. item' \in [Cookies -> Items]
      BY <1>4 DEF KickReset, TypeOK, Items
    <3>2. ran' \in [Cookies -> Endings \cup {"no", "running", "lost"}]
      BY <1>4 DEF KickReset, TypeOK, LoseDecode
    <3>3. needsCore' \in BOOLEAN /\ needsFull' \in BOOLEAN /\ gated' \in BOOLEAN
      BY <1>4 DEF KickReset, TypeOK
    <3> QED BY <1>4, <3>1, <3>2, <3>3 DEF KickReset, TypeOK
  <2>2. CodecInv'
    BY <1>4 DEF KickReset, TypeOK, CodecInv, LoseDecode, Endings
  <2>3. ItemInv'
    BY <1>4
       DEF KickReset, TypeOK, ItemInv, ItemOK, LoseDecode, NotStarted, Kicking, EndedAs, MayTell,
                Endings
  <2> QED BY <2>1, <2>2, <2>3
<1>5. CASE KickStart(k)
  <2>1. TypeOK'
    BY <1>5 DEF KickStart, TypeOK, Items
  <2>2. CodecInv'
    BY <1>5 DEF KickStart, TypeOK, CodecInv, ItemInv, ItemOK, NotStarted, Kicking, Endings
  <2>3. ItemInv'
    BY <1>5 DEF KickStart, TypeOK, ItemInv, ItemOK, NotStarted, Kicking, EndedAs, MayTell, Endings
  <2> QED BY <2>1, <2>2, <2>3
<1> QED BY <1>1, <1>2, <1>3, <1>4, <1>5

\* What RkMppJobComplete does to the job in the slot: its end, whoever calls it.
LEMMA CompleteFacts ==
    ASSUME IInv, NEW s \in Results \ {"none"}, Complete(s), slot # None,
           ~(ran[slot] = "running"), EndedAs(slot, s)
    PROVE  /\ fjob' \in [Cookies -> Job]
           /\ slot' = None /\ Completed' \subseteq Cookies
           /\ needsCore' \in BOOLEAN /\ needsFull' \in BOOLEAN
           /\ UNCHANGED <<res, ran, gated, isr, mmio, registered, answer, rvd0Vars>>
           /\ \A k \in Cookies \ {slot} : fjob'[k] = fjob[k]
           /\ ~fjob'[slot].OrphanOnComplete
           /\ fjob'[slot].Done => EndedAs(slot, fjob'[slot].Result)
           /\ ~fjob[slot].OrphanOnComplete => fjob'[slot].Done
<1> USE CookieFacts, JobFacts DEF IInv
<1>0. slot \in Cookies /\ fjob[slot] \in Job /\ slot' = None
  BY DEF TypeOK, Complete
<1>1. /\ Completed' \subseteq Cookies /\ needsCore' \in BOOLEAN /\ needsFull' \in BOOLEAN
      /\ UNCHANGED <<res, ran, gated, isr, mmio, registered, answer, rvd0Vars>>
  BY <1>0 DEF Complete, TypeOK
<1> DEFINE r == [fjob[slot] EXCEPT !.Result = s, !.Done = TRUE]
<1>2. r \in Job /\ r.Done /\ r.Result = s /\ r.OrphanOnComplete = fjob[slot].OrphanOnComplete
  BY <1>0 DEF Job
<1>3. fjob' = [fjob EXCEPT ![slot] = IF fjob[slot].OrphanOnComplete THEN Freed ELSE r]
  BY <1>0 DEF Complete
<1> HIDE DEF r
<1>4. fjob' \in [Cookies -> Job] /\ \A k \in Cookies \ {slot} : fjob'[k] = fjob[k]
  BY <1>0, <1>2, <1>3 DEF TypeOK
<1>5. fjob'[slot] = IF fjob[slot].OrphanOnComplete THEN Freed ELSE r
  BY <1>0, <1>3 DEF TypeOK
<1>6. ran' = ran
  BY <1>1
<1> QED BY <1>0, <1>1, <1>2, <1>4, <1>5, <1>6

LEMMA CompleteInv ==
    ASSUME IInv,
           DpcComplete \/ DpcGate \/ \E k \in Cookies : KickFailed(k) \/ KickFailedGate(k)
    PROVE  IInv'
<1> USE CookieFacts, JobFacts DEF IInv
<1>1. CASE DpcComplete
  <2>1. /\ dpcStatus \in Results \ {"none"} /\ slot # None /\ slot \in Cookies
        /\ ~(ran[slot] = "running") /\ EndedAs(slot, dpcStatus) /\ isr = "none"
    BY <1>1 DEF DpcComplete, CodecInv, EndedAs, Results, Endings, TypeOK
  <2>2. /\ Complete(dpcStatus) /\ dpc' = "gate" /\ dpcStatus' = "none" /\ UNCHANGED item
    BY <1>1 DEF DpcComplete
  <2>3. /\ fjob' \in [Cookies -> Job]
        /\ slot' = None /\ Completed' \subseteq Cookies
        /\ needsCore' \in BOOLEAN /\ needsFull' \in BOOLEAN
        /\ UNCHANGED <<res, ran, gated, isr, mmio, registered, answer, rvd0Vars>>
        /\ \A k \in Cookies \ {slot} : fjob'[k] = fjob[k]
        /\ ~fjob'[slot].OrphanOnComplete
        /\ fjob'[slot].Done => EndedAs(slot, fjob'[slot].Result)
        /\ ~fjob[slot].OrphanOnComplete => fjob'[slot].Done
    BY <2>1, <2>2, CompleteFacts
  <2>4. TypeOK'
    BY <2>2, <2>3 DEF TypeOK, rvd0Vars
  <2>5. CodecInv'
    BY <2>1, <2>2, <2>3 DEF CodecInv
  <2>6. item[slot] \notin NotStarted
    <3>1. ran[slot] # "no"
      BY <1>1 DEF DpcComplete, CodecInv, Endings
    <3> QED BY <2>1, <3>1 DEF ItemInv, ItemOK
  <2>7. ItemInv'
    BY <2>1, <2>2, <2>3, <2>6, ZenonT(60) DEF ItemInv, ItemOK, NotStarted, Kicking, EndedAs, MayTell, Endings
  <2> QED BY <2>4, <2>5, <2>7
<1>2. CASE DpcGate
  <2>1. TypeOK'
    BY <1>2 DEF DpcGate, TypeOK, devVars, rvd0Vars
  <2> QED BY <1>2, <2>1, ZenonT(60) DEF DpcGate, CodecInv, ItemInv, ItemOK, EndedAs, MayTell, devVars
<1>3. ASSUME NEW k \in Cookies, KickFailed(k) PROVE IInv'
  <2> DEFINE s == IF mmio = "none" THEN "notready" ELSE "invalid"
  <2>1. /\ s \in Results \ {"none"} /\ slot = k /\ slot # None /\ ran[slot] = "no"
        /\ ~(ran[slot] = "running") /\ EndedAs(slot, s) /\ item[k] = "complete"
    BY <1>3 DEF KickFailed, ItemInv, ItemOK, NotStarted, Kicking, EndedAs, Results
  <2>2. Complete(s) /\ item' = [item EXCEPT ![k] = "gate"] /\ UNCHANGED dpcVars
    BY <1>3 DEF KickFailed, Goto
  <2> HIDE DEF s
  <2>3. /\ fjob' \in [Cookies -> Job]
        /\ slot' = None /\ Completed' \subseteq Cookies
        /\ needsCore' \in BOOLEAN /\ needsFull' \in BOOLEAN
        /\ UNCHANGED <<res, ran, gated, isr, mmio, registered, answer, rvd0Vars>>
        /\ \A l \in Cookies \ {slot} : fjob'[l] = fjob[l]
        /\ ~fjob'[slot].OrphanOnComplete
        /\ fjob'[slot].Done => EndedAs(slot, fjob'[slot].Result)
        /\ ~fjob[slot].OrphanOnComplete => fjob'[slot].Done
    BY <2>1, <2>2, CompleteFacts
  <2>4. TypeOK'
    BY <2>2, <2>3 DEF TypeOK, Items, rvd0Vars, dpcVars
  <2>5. isr = "none" /\ dpc # "complete"
    BY <2>1 DEF CodecInv, TypeOK, Endings
  <2>6. CodecInv'
    BY <2>1, <2>2, <2>3, <2>5 DEF CodecInv, dpcVars
  <2>7. fjob'[k].Done
    BY <2>1, <2>3 DEF ItemInv, ItemOK
  <2>8. ItemInv'
    <3>1. ItemOK(k)'
      BY <2>1, <2>2, <2>3, <2>7 DEF TypeOK, ItemInv, ItemOK, NotStarted, Kicking, EndedAs
    <3>2. ASSUME NEW l \in Cookies, l # k PROVE ItemOK(l)'
      <4>1. fjob'[l] = fjob[l] /\ item'[l] = item[l]
        BY <2>1, <2>2, <2>3, <3>2 DEF TypeOK
      <4> QED BY <2>1, <2>3, <3>2, <4>1, ZenonT(60) DEF ItemInv, ItemOK, Kicking, EndedAs, MayTell
    <3> QED BY <3>1, <3>2 DEF ItemInv
  <2> QED BY <2>4, <2>6, <2>8
<1>4. ASSUME NEW k \in Cookies, KickFailedGate(k) PROVE IInv'
  <2>0. item' \in [Cookies -> Items] /\ gated' \in BOOLEAN
    BY <1>4 DEF KickFailedGate, TypeOK, Items, Goto
  <2>1. TypeOK'
    BY <1>4, <2>0, ZenonT(60) DEF KickFailedGate, TypeOK, dpcVars, devVars, rvd0Vars
  <2>2. CodecInv'
    BY <1>4 DEF KickFailedGate, CodecInv, dpcVars
  <2>3. ItemInv'
    BY <1>4, ZenonT(60)
       DEF KickFailedGate, TypeOK, ItemInv, ItemOK, NotStarted, Kicking, EndedAs, MayTell, Goto,
                devVars
  <2> QED BY <2>1, <2>2, <2>3
<1> QED BY <1>1, <1>2, <1>3, <1>4

LEMMA WaitInv ==
    ASSUME IInv, NEW k \in Cookies,
           WaitDone(k) \/ WaitExpires(k) \/ GiveUp(k) \/ GiveUpFlag(k) \/ Trampoline(k)
    PROVE  IInv'
<1> USE CookieFacts DEF IInv, codecVars, dpcVars, devVars, rvd0Vars, Goto
<1>1. CASE WaitDone(k)
  <2>0. fjob' \in [Cookies -> Job] /\ fjob'[k] = Freed
    BY <1>1, JobFacts DEF WaitDone, TypeOK
  <2>r. res' \in [Cookies -> Results] /\ res'[k] = fjob[k].Result
    <3>1. fjob[k].Result \in Results
      BY DEF TypeOK, Job
    <3> QED BY <1>1, <3>1 DEF WaitDone, TypeOK
  <2>1. TypeOK'
    BY <1>1, <2>0, <2>r DEF WaitDone, TypeOK, Items
  <2>2. CodecInv'
    BY <1>1 DEF WaitDone, CodecInv
  <2>3. ItemInv'
    <3>1. fjob'[k].Done = FALSE /\ fjob'[k].OrphanOnComplete = FALSE
      BY <2>0, JobFacts
    <3>2. ItemOK(k)'
      BY <1>1, <2>r, <3>1
         DEF WaitDone, TypeOK, ItemInv, ItemOK, NotStarted, Kicking, EndedAs, MayTell
    <3>3. ASSUME NEW l \in Cookies, l # k PROVE ItemOK(l)'
      <4>1. fjob'[l] = fjob[l] /\ item'[l] = item[l] /\ res'[l] = res[l]
        BY <1>1, <3>3 DEF WaitDone, TypeOK
      <4> QED BY <1>1, <4>1 DEF WaitDone, ItemInv, ItemOK, EndedAs, MayTell
    <3> QED BY <3>2, <3>3 DEF ItemInv
  <2> QED BY <2>1, <2>2, <2>3
<1>2. CASE WaitExpires(k)
  <2>1. TypeOK'
    BY <1>2 DEF WaitExpires, TypeOK, Items
  <2>2. CodecInv'
    BY <1>2 DEF WaitExpires, CodecInv
  <2>3. ItemInv'
    BY <1>2 DEF WaitExpires, TypeOK, ItemInv, ItemOK, NotStarted, Kicking, EndedAs, MayTell
  <2> QED BY <2>1, <2>2, <2>3
<1>3. CASE GiveUp(k)
  <2>0. fjob' = [fjob EXCEPT ![k] = [fjob[k] EXCEPT !.OrphanOnComplete = TRUE]]
    BY <1>3 DEF GiveUp
  <2>1. TypeOK'
    <3>1. fjob' \in [Cookies -> Job]
      BY <2>0, JobFacts DEF TypeOK
    <3> QED BY <1>3, <3>1 DEF GiveUp, TypeOK, Items, Results, Endings
  <2>2. CodecInv'
    BY <1>3 DEF GiveUp, CodecInv
  <2>3. ItemInv'
    BY <1>3, <2>0 DEF GiveUp, TypeOK, ItemInv, ItemOK, NotStarted, Kicking, EndedAs, MayTell, Job
  <2> QED BY <2>1, <2>2, <2>3
<1>4. CASE GiveUpFlag(k)
  <2>1. TypeOK'
    BY <1>4 DEF GiveUpFlag, TypeOK, Items
  <2>2. CodecInv'
    BY <1>4 DEF GiveUpFlag, CodecInv
  <2>3. ItemInv'
    BY <1>4 DEF GiveUpFlag, TypeOK, ItemInv, ItemOK, NotStarted, Kicking, EndedAs, MayTell
  <2> QED BY <2>1, <2>2, <2>3
<1>5. CASE Trampoline(k)
  <2>1. TypeOK'
    BY <1>5 DEF Trampoline, TypeOK, Items
  <2>2. CodecInv'
    BY <1>5 DEF Trampoline, CodecInv
  <2>3. ItemInv'
    BY <1>5 DEF Trampoline, TypeOK, ItemInv, ItemOK, NotStarted, Kicking, EndedAs, MayTell
  <2> QED BY <2>1, <2>2, <2>3
<1> QED BY <1>1, <1>2, <1>3, <1>4, <1>5

LEMMA InterruptInv ==
    ASSUME IInv, EvtIsr \/ EvtDpc PROVE IInv'
<1> USE CookieFacts DEF IInv, codecVars, dpcVars, devVars, rvd0Vars
<1>1. CASE EvtIsr
  <2>1. PICK k \in Cookies, s \in Endings :
          /\ ran[k] = "running" /\ ran' = [ran EXCEPT ![k] = s] /\ isr' = s
          /\ UNCHANGED <<item, fjob, res, slot, Completed, gated, dpcVars, devVars, registered,
                         answer, rvd0Vars>>
    BY <1>1 DEF EvtIsr, Endings
  <2>2. TypeOK'
    BY <2>1 DEF TypeOK
  <2>3. CodecInv'
    BY <2>1 DEF TypeOK, CodecInv, Endings
  <2>4. ItemInv'
    BY <2>1 DEF TypeOK, ItemInv, ItemOK, NotStarted, Kicking, EndedAs, MayTell, Endings
  <2> QED BY <2>2, <2>3, <2>4
<1>2. CASE EvtDpc
  <2>1. TypeOK'
    BY <1>2 DEF EvtDpc, TypeOK
  <2>2. CodecInv'
    BY <1>2 DEF EvtDpc, TypeOK, CodecInv
  <2>3. ItemInv'
    BY <1>2 DEF EvtDpc, ItemInv, ItemOK, EndedAs, MayTell
  <2> QED BY <2>1, <2>2, <2>3
<1> QED BY <1>1, <1>2

LEMMA StutterInv == IInv /\ UNCHANGED vars => IInv'
BY DEF IInv, TypeOK, CodecInv, ItemInv, ItemOK, EndedAs, MayTell, vars, codecVars, dpcVars, devVars,
       rvd0Vars

LEMMA NextInv == IInv /\ [Next]_vars => IInv'
BY Rvd0Inv, KickInv, CompleteInv, WaitInv, InterruptInv, StutterInv DEF Next, ItemStep, DpcStep

-----------------------------------------------------------------------------
(***************************************************************************)
(* The memory of the foreign jobs.                                         *)
(***************************************************************************)

\* A job is Done from RkMppJobComplete until it is freed, and on Completed only
\* then; the slot's job is not Done yet.
DoneInv ==
    /\ \A k \in Cookies : fjob[k].Done => fjob[k].mem = "alloc" /\ slot # k
    /\ \A k \in Completed : fjob[k].Done

LiveInv == ForeignJobsLive /\ DoneInv

LEMMA InitLive == Init => LiveInv
BY DEF Init, LiveInv, DoneInv, ForeignJobsLive, NoRecord

\* A work item moves on without a word to its job: to a place where the job
\* must be allocated only when it is.
LEMMA LiveMove ==
    ASSUME IInv, LiveInv, UNCHANGED <<fjob, slot, Completed>>, NEW k \in Cookies, NEW l,
           Goto(k, l), l \in {"kick", "kickStart", "complete", "waiting", "expired"}
                         => fjob[k].mem = "alloc"
    PROVE  LiveInv'
<1>1. DoneInv'
  BY DEF LiveInv, DoneInv
<1>2. ForeignJobsLive'
  BY DEF LiveInv, ForeignJobsLive, IInv, TypeOK, Goto
<1> QED BY <1>1, <1>2 DEF LiveInv

\* One job is written; the slot, Completed and the work item of that job only
\* move with it.
LEMMA LiveWrite ==
    ASSUME IInv, LiveInv, NEW k \in Cookies,
           \A l \in Cookies \ {k} : fjob'[l] = fjob[l] /\ item'[l] = item[l],
           \A l \in Cookies \ {k} : (l \in Completed' => l \in Completed) /\ (slot' = l => slot = l),
           slot' \in Cookies \cup {None}, Completed' \subseteq Cookies,
           fjob'[k].Done => fjob'[k].mem = "alloc" /\ slot' # k,
           k \in Completed' => fjob'[k].Done,
           slot' = k \/ item'[k] \in {"kick", "kickStart", "complete", "waiting", "expired"}
              => fjob'[k].mem = "alloc"
    PROVE  LiveInv'
<1>1. DoneInv'
  BY DEF LiveInv, DoneInv
<1>2. ForeignJobsLive'
  BY <1>1, CookieFacts DEF LiveInv, ForeignJobsLive, DoneInv
<1> QED BY <1>1, <1>2 DEF LiveInv

LEMMA LiveComplete ==
    ASSUME IInv, LiveInv, NEW s \in Results, Complete(s), slot # None,
           \/ UNCHANGED item
           \/ item[slot] \in Kicking /\ Goto(slot, "gate")
    PROVE  LiveInv'
<1> USE CookieFacts, JobFacts DEF IInv
<1>0. slot \in Cookies /\ fjob[slot] \in Job /\ fjob[slot].mem = "alloc" /\ slot' = None
  BY DEF TypeOK, Complete, LiveInv, ForeignJobsLive
<1> DEFINE r == [fjob[slot] EXCEPT !.Result = s, !.Done = TRUE]
<1>1. r.Done /\ r.mem = "alloc"
  BY <1>0 DEF Job
<1>2. /\ fjob' = [fjob EXCEPT ![slot] = IF fjob[slot].OrphanOnComplete THEN Freed ELSE r]
      /\ Completed' = IF fjob[slot].OrphanOnComplete THEN Completed ELSE Completed \cup {slot}
  BY <1>0 DEF Complete
<1> HIDE DEF r
<1>3. /\ fjob'[slot] = IF fjob[slot].OrphanOnComplete THEN Freed ELSE r
      /\ \A l \in Cookies \ {slot} : fjob'[l] = fjob[l] /\ item'[l] = item[l]
  BY <1>0, <1>2 DEF TypeOK, Goto
<1>4. slot \notin Completed
  BY <1>0 DEF LiveInv, DoneInv
<1>5. CASE fjob[slot].OrphanOnComplete
  <2>1. item[slot] \in {"flag", "trampoline", "done"}
    BY <1>0, <1>5 DEF ItemInv, ItemOK
  <2>2. item'[slot] \in {"flag", "trampoline", "done", "gate"}
    BY <1>0, <2>1 DEF Goto, TypeOK
  <2>3. ~fjob'[slot].Done /\ Completed' = Completed
    BY <1>2, <1>3, <1>5
  <2>4. \A l \in Cookies \ {slot} : fjob'[l] = fjob[l] /\ item'[l] = item[l]
    BY <1>3
  <2>5. Completed \subseteq Cookies
    BY DEF TypeOK
  <2> QED BY <1>0, <1>4, <2>2, <2>3, <2>4, <2>5, LiveWrite
<1>6. CASE ~fjob[slot].OrphanOnComplete
  BY <1>0, <1>1, <1>2, <1>3, <1>6, LiveWrite DEF TypeOK
<1> QED BY <1>5, <1>6

\* The steps of RVD0, of the codec and of the DPC.
LEMMA LiveDevice ==
    ASSUME IInv, LiveInv, Rvd0Step \/ EvtIsr \/ DpcStep \/ UNCHANGED vars PROVE LiveInv'
<1>1. CASE UNCHANGED <<item, fjob, slot, Completed>>
  BY <1>1 DEF LiveInv, ForeignJobsLive, DoneInv
<1>2. CASE DpcComplete
  <2>1. dpcStatus \in Results /\ slot # None
    BY <1>2 DEF IInv, CodecInv, DpcComplete, Results
  <2> QED BY <1>2, <2>1, LiveComplete DEF DpcComplete
<1> QED BY <1>1, <1>2 DEF Rvd0Step, PeerArrival, RegisterCompletion, OnRvd0Connected, DetachPeer,
                          EvtIsr, DpcStep, EvtDpc, DpcGate, vars

\* The steps of a kick's work item.
LEMMA LiveItem ==
    ASSUME IInv, LiveInv, NEW k \in Cookies, KickJob(k) \/ ItemStep(k) PROVE LiveInv'
<1> USE CookieFacts, JobFacts
<1>0. fjob[k] \in Job /\ k \in DOMAIN fjob /\ k \in DOMAIN item
  BY DEF IInv, TypeOK
<1>1. CASE KickJob(k)
  BY <1>1, LiveMove DEF KickJob
<1>2. CASE RunTurnedAway(k)
  <2>1. CASE UNCHANGED fjob
    BY <1>2, <2>1, LiveMove DEF RunTurnedAway
  <2>2. CASE fjob' = [fjob EXCEPT ![k] = Freed]
    <3>1. fjob'[k] = Freed /\ item'[k] = "dropped" /\ slot # k /\ k \notin Completed
      BY <1>0, <1>2, <2>2 DEF RunTurnedAway, Goto, IInv, ItemInv, ItemOK, LiveInv, DoneInv
    <3>2. \A l \in Cookies \ {k} : fjob'[l] = fjob[l] /\ item'[l] = item[l]
      BY <1>2, <2>2 DEF RunTurnedAway, Goto, IInv, TypeOK
    <3> QED BY <1>2, <3>1, <3>2, LiveWrite DEF RunTurnedAway, IInv, TypeOK
  <2> QED BY <1>2, <2>1, <2>2 DEF RunTurnedAway
<1>3. CASE RunForeign(k)
  <2>1. fjob'[k].mem = "alloc" /\ ~fjob'[k].Done
    BY <1>0, <1>3 DEF RunForeign, IInv, ItemInv, ItemOK, Job
  <2>2. \A l \in Cookies \ {k} : fjob'[l] = fjob[l] /\ item'[l] = item[l]
    BY <1>3 DEF RunForeign, Goto, IInv, TypeOK
  <2>3. k \notin Completed
    BY <1>3 DEF RunForeign, IInv, ItemInv, ItemOK, LiveInv, DoneInv
  <2> QED BY <1>3, <2>1, <2>2, <2>3, LiveWrite DEF RunForeign, IInv, TypeOK
<1>4. CASE KickReset(k)
  <2>1. fjob[k].mem = "alloc"
    BY <1>4 DEF KickReset, LiveInv, ForeignJobsLive
  <2> QED BY <1>4, <2>1, LiveMove DEF KickReset
<1>5. CASE KickStart(k)
  <2>1. fjob[k].mem = "alloc"
    BY <1>5 DEF KickStart, LiveInv, ForeignJobsLive
  <2> QED BY <1>5, <2>1, LiveMove DEF KickStart
<1>6. CASE KickFailed(k)
  <2>1. slot = k /\ item[k] \in Kicking
    BY <1>6 DEF KickFailed, IInv, ItemInv, ItemOK, Kicking
  <2> QED BY <1>6, <2>1, LiveComplete DEF KickFailed, Results
<1>7. CASE KickFailedGate(k)
  <2>1. fjob[k].mem = "alloc"
    BY <1>7 DEF KickFailedGate, IInv, ItemInv, ItemOK, LiveInv, DoneInv
  <2> QED BY <1>7, <2>1, LiveMove DEF KickFailedGate
<1>8. CASE WaitDone(k)
  <2>1. fjob'[k] = Freed /\ item'[k] = "trampoline" /\ slot' = slot /\ slot # k /\ k \notin Completed'
    BY <1>0, <1>8 DEF WaitDone, Goto, LiveInv, DoneInv
  <2>2. \A l \in Cookies \ {k} : fjob'[l] = fjob[l] /\ item'[l] = item[l]
    BY <1>8 DEF WaitDone, Goto, IInv, TypeOK
  <2> QED BY <1>8, <2>1, <2>2, LiveWrite DEF WaitDone, IInv, TypeOK
<1>9. CASE WaitExpires(k)
  <2>1. fjob[k].mem = "alloc"
    BY <1>9 DEF WaitExpires, LiveInv, ForeignJobsLive
  <2> QED BY <1>9, <2>1, LiveMove DEF WaitExpires
<1>10. CASE GiveUp(k)
  <2>1. fjob'[k].mem = fjob[k].mem /\ fjob'[k].Done = fjob[k].Done /\ fjob[k].mem = "alloc"
    BY <1>0, <1>10 DEF GiveUp, Job, LiveInv, ForeignJobsLive
  <2>2. \A l \in Cookies \ {k} : fjob'[l] = fjob[l] /\ item'[l] = item[l]
    BY <1>10 DEF GiveUp, Goto, IInv, TypeOK
  <2>3. /\ slot' = slot /\ Completed' = Completed
        /\ slot' \in Cookies \cup {None} /\ Completed' \subseteq Cookies
    BY <1>10 DEF GiveUp, IInv, TypeOK
  <2>4. /\ fjob'[k].Done => fjob'[k].mem = "alloc" /\ slot' # k
        /\ k \in Completed' => fjob'[k].Done
    BY <2>1, <2>3 DEF LiveInv, DoneInv
  <2> QED BY <2>1, <2>2, <2>3, <2>4, LiveWrite
<1>11. CASE GiveUpFlag(k) \/ Trampoline(k)
  BY <1>11, LiveMove DEF GiveUpFlag, Trampoline
<1> QED BY <1>1, <1>2, <1>3, <1>4, <1>5, <1>6, <1>7, <1>8, <1>9, <1>10, <1>11 DEF ItemStep

-----------------------------------------------------------------------------
(***************************************************************************)
(* The refinement.                                                         *)
(***************************************************************************)

\* The state of PeerContract.
told == [k \in Cookies |-> ToldOf(k)]

\* An accepted kick that nothing has been said of.
Working == Items \ {"none", "rejected", "dropped", "done"}

\* A step that touches neither the codec's work nor what RVD0 knows.
Quiet == UNCHANGED told /\ UNCHANGED ran

LEMMA SameItems == ASSUME UNCHANGED <<item, answer>> PROVE told' = told
BY DEF told, ToldOf

LEMMA WorkingSteps ==
    ASSUME IInv, NEW k \in Cookies, NEW l \in Working, item[k] \in Working, Goto(k, l),
           answer' = answer
    PROVE  told' = told
<1> SUFFICES ASSUME NEW m \in Cookies PROVE ToldOf(m)' = ToldOf(m)
  BY DEF told
<1>1. CASE m = k
  BY <1>1 DEF IInv, TypeOK, Goto, Working, ToldOf
<1>2. CASE m # k
  BY <1>2 DEF IInv, TypeOK, Goto, ToldOf
<1> QED BY <1>1, <1>2

\* A step of kick k's work item moves what RVD0 knows of kick k only.
LEMMA ToldMoves ==
    ASSUME IInv, NEW k \in Cookies, NEW l, Goto(k, l),
           \A m \in Cookies \ {k} : answer'[m] = answer[m]
    PROVE  told' = [told EXCEPT ![k] = ToldOf(k)'] /\ told[k] = ToldOf(k)
<1>1. \A m \in Cookies \ {k} : ToldOf(m)' = ToldOf(m)
  BY DEF IInv, TypeOK, Goto, ToldOf
<1> QED BY <1>1 DEF told

\* A reset ends the one running decode, if any.
LEMMA LoseEnds ==
    ASSUME IInv, ran' = LoseDecode, told' = told
    PROVE  Quiet \/ \E k \in Cookies : Contract!End(k, "lost")
<1>1. CASE \E k \in Cookies : ran[k] = "running"
  <2>1. PICK k \in Cookies : ran[k] = "running"
    BY <1>1
  <2>2. \A l \in Cookies : ran[l] = "running" => l = k
    BY <2>1 DEF IInv, CodecInv
  <2>3. ran' = [ran EXCEPT ![k] = "lost"]
    BY <2>1, <2>2 DEF IInv, TypeOK, LoseDecode
  <2> QED BY <2>1, <2>3 DEF Contract!End, told
<1>2. CASE ~\E k \in Cookies : ran[k] = "running"
  <2>1. ran' = ran
    BY <1>2 DEF IInv, TypeOK, LoseDecode
  <2> QED BY <2>1 DEF Quiet
<1> QED BY <1>1, <1>2

\* The initial state of RVD1 is one of the contract.
LEMMA InitRefines == Init => Contract!Init
BY DEF Init, Contract!Init, ToldOf

\* The steps that move only RVD1's own bookkeeping mean nothing to the
\* contract: those of the device and of RVD0 ...
LEMMA QuietDevice ==
    ASSUME PeerArrival \/ RegisterCompletion \/ DetachPeer \/ EvtDpc \/ DpcComplete \/ DpcGate
    PROVE  Quiet
<1>1. CASE PeerArrival \/ RegisterCompletion \/ DetachPeer \/ EvtDpc \/ DpcGate
  BY <1>1, SameItems DEF PeerArrival, RegisterCompletion, DetachPeer, EvtDpc, DpcGate, codecVars,
                         Quiet
<1>2. CASE DpcComplete
  BY <1>2, SameItems DEF DpcComplete, Complete, Quiet
<1> QED BY <1>1, <1>2

\* ... and those of a work item between the kick and the callback.
LEMMA QuietItem ==
    ASSUME IInv, NEW k \in Cookies,
           \/ RunForeign(k) \/ KickFailed(k) \/ KickFailedGate(k)
           \/ WaitDone(k) \/ WaitExpires(k) \/ GiveUp(k) \/ GiveUpFlag(k)
    PROVE  Quiet
<1>1. CASE RunForeign(k) \/ KickFailed(k) \/ KickFailedGate(k)
  BY <1>1, WorkingSteps DEF RunForeign, KickFailed, KickFailedGate, Complete, codecVars, Working,
                            Items, Quiet
<1>2. CASE WaitDone(k) \/ WaitExpires(k) \/ GiveUp(k) \/ GiveUpFlag(k)
  BY <1>2, WorkingSteps DEF WaitDone, WaitExpires, GiveUp, GiveUpFlag, codecVars, Working, Items,
                            Quiet
<1> QED BY <1>1, <1>2

LEMMA KickRefines ==
    ASSUME IInv, NEW k \in Cookies, KickJob(k)
    PROVE  \E b \in BOOLEAN : Contract!Accept(k, b)
<1>1. answer' = answer /\ ran' = ran /\ item[k] = "none"
  BY DEF KickJob, codecVars
<1>2. CASE Goto(k, "queued")
  <2>1. ToldOf(k)' = "accepted" /\ ToldOf(k) = "new"
    BY <1>1, <1>2 DEF Goto, ToldOf, IInv, TypeOK
  <2>2. told' = [told EXCEPT ![k] = "accepted"] /\ told[k] = "new"
    BY <1>1, <1>2, <2>1, ToldMoves
  <2> QED BY <1>1, <2>2 DEF Contract!Accept, told
<1>3. CASE Goto(k, "rejected")
  <2>1. ToldOf(k)' = "rejected" /\ ToldOf(k) = "new"
    BY <1>1, <1>3 DEF Goto, ToldOf, IInv, TypeOK
  <2>2. told' = [told EXCEPT ![k] = "rejected"] /\ told[k] = "new"
    BY <1>1, <1>3, <2>1, ToldMoves
  <2> QED BY <1>1, <2>2 DEF Contract!Accept, told
<1> QED BY <1>2, <1>3 DEF KickJob

LEMMA TurnedAwayRefines ==
    ASSUME IInv, NEW k \in Cookies, RunTurnedAway(k)
    PROVE  Contract!Drop(k)
<1>1. answer' = answer /\ ran' = ran /\ item[k] = "queued" /\ Goto(k, "dropped")
  BY DEF RunTurnedAway, codecVars
<1>2. ToldOf(k)' = "dropped" /\ ToldOf(k) = "accepted"
  BY <1>1 DEF Goto, ToldOf, IInv, TypeOK
<1>3. told' = [told EXCEPT ![k] = "dropped"] /\ told[k] = "accepted"
  BY <1>1, <1>2, ToldMoves
<1> QED BY <1>1, <1>3 DEF Contract!Drop, told

LEMMA StartRefines ==
    ASSUME IInv, NEW k \in Cookies, KickStart(k)
    PROVE  Quiet \/ Contract!Start(k)
<1>1. /\ item[k] = "kickStart" /\ answer' = answer
      /\ \/ Goto(k, "complete") /\ ran' = ran
         \/ Goto(k, "waiting") /\ ran' = [ran EXCEPT ![k] = "running"]
  BY DEF KickStart
<1>2. told' = told
  BY <1>1, WorkingSteps DEF Working, Items
<1>3. told[k] = "accepted"
  BY <1>1 DEF told, ToldOf
<1>4. ran[k] = "no" /\ \A l \in Cookies : ran[l] # "running"
  BY <1>1 DEF IInv, CodecInv, ItemInv, ItemOK, NotStarted, Kicking
<1> QED BY <1>1, <1>2, <1>3, <1>4 DEF Contract!Start, told, Quiet

LEMMA ResetRefines ==
    ASSUME IInv, OnRvd0Connected \/ \E k \in Cookies : KickReset(k)
    PROVE  Quiet \/ \E k \in Cookies : Contract!End(k, "lost")
<1>1. CASE OnRvd0Connected
  <2>1. told' = told /\ (ran' = ran \/ ran' = LoseDecode)
    BY <1>1, SameItems DEF OnRvd0Connected
  <2> QED BY <2>1, LoseEnds DEF Quiet
<1>2. ASSUME NEW k \in Cookies, KickReset(k)
      PROVE  Quiet \/ \E l \in Cookies : Contract!End(l, "lost")
  <2>1. ran' = ran \/ ran' = LoseDecode
    BY <1>2 DEF KickReset
  <2>2. told' = told
    BY <1>2, WorkingSteps DEF KickReset, Working, Items
  <2> QED BY <2>1, <2>2, LoseEnds DEF Quiet
<1> QED BY <1>1, <1>2

LEMMA IsrRefines ==
    ASSUME IInv, EvtIsr
    PROVE  \E k \in Cookies, s \in Endings : Contract!End(k, s)
<1>1. PICK k \in Cookies, s \in Endings :
        ran[k] = "running" /\ ran' = [ran EXCEPT ![k] = s] /\ UNCHANGED <<item, answer>>
  BY DEF EvtIsr, Endings
<1>2. told' = told
  BY <1>1, SameItems
<1> QED BY <1>1, <1>2 DEF Contract!End, told

\* The callback tells what ItemOK allows; without one RVD0 is not told.
LEMMA TrampolineRefines ==
    ASSUME IInv, NEW k \in Cookies, Trampoline(k)
    PROVE  Contract!Drop(k) \/ \E s \in Results : Contract!Answer(k, s)
<1>1. /\ item[k] = "trampoline" /\ Goto(k, "done") /\ ran' = ran
      /\ answer' = [answer EXCEPT ![k] = IF registered THEN res[k] ELSE "lost"]
  BY DEF Trampoline, codecVars
<1>2. MayTell(k, res[k]) /\ res[k] \in Results
  BY <1>1 DEF IInv, ItemInv, ItemOK, TypeOK
<1>3. /\ \A m \in Cookies \ {k} : answer'[m] = answer[m]
      /\ answer'[k] = IF registered THEN res[k] ELSE "lost"
      /\ item'[k] = "done"
  BY <1>1 DEF IInv, TypeOK, Goto
<1>4. ToldOf(k) = "accepted"
  BY <1>1 DEF ToldOf
<1>5. told' = [told EXCEPT ![k] = ToldOf(k)'] /\ told[k] = "accepted"
  BY <1>1, <1>3, <1>4, ToldMoves
<1>6. CASE registered
  <2>1. ToldOf(k)' = res[k]
    BY <1>2, <1>3, <1>6 DEF ToldOf, Results, Endings
  <2>2. told' = [told EXCEPT ![k] = res[k]]
    BY <1>5, <2>1
  <2> QED BY <1>1, <1>2, <1>5, <2>2 DEF Contract!Answer, Contract!Endings, Endings, MayTell,
                                        EndedAs, told
<1>7. CASE ~registered
  <2>1. ToldOf(k)' = "dropped"
    BY <1>3, <1>7 DEF ToldOf
  <2> QED BY <1>1, <1>5, <2>1 DEF Contract!Drop, told
<1> QED BY <1>6, <1>7

LEMMA StepRefines ==
    IInv /\ [Next]_vars => [Contract!Next]_<<told, ran>>
<1> SUFFICES ASSUME IInv, [Next]_vars PROVE Contract!Next \/ Quiet
  BY DEF Quiet
<1>1. CASE UNCHANGED vars
  BY <1>1, SameItems DEF vars, codecVars, Quiet
<1>2. ASSUME \E k \in Cookies : Contract!End(k, "lost") PROVE Contract!Next
  BY <1>2 DEF Contract!Next
<1>3. CASE Rvd0Step \/ DpcStep
  BY <1>2, <1>3, QuietDevice, ResetRefines DEF Rvd0Step, DpcStep
<1>4. CASE EvtIsr
  <2>1. Endings \subseteq Contract!Endings
    BY DEF Endings, Contract!Endings
  <2> QED BY <1>4, <2>1, IsrRefines DEF Contract!Next
<1>5. ASSUME NEW k \in Cookies, KickJob(k) \/ ItemStep(k) PROVE Contract!Next \/ Quiet
  <2>1. CASE KickJob(k)
    BY <2>1, KickRefines DEF Contract!Next
  <2>2. CASE RunTurnedAway(k)
    BY <2>2, TurnedAwayRefines DEF Contract!Next
  <2>3. CASE KickReset(k)
    BY <1>2, <2>3, ResetRefines
  <2>4. CASE KickStart(k)
    BY <2>4, StartRefines DEF Contract!Next
  <2>5. CASE Trampoline(k)
    <3>1. ASSUME NEW s \in Results, Contract!Answer(k, s) PROVE s \in Contract!Told
      BY <3>1 DEF Contract!Answer, Contract!Told, Contract!Endings
    <3> QED BY <2>5, <3>1, TrampolineRefines DEF Contract!Next
  <2> QED BY <1>5, <2>1, <2>2, <2>3, <2>4, <2>5, QuietItem DEF ItemStep
<1> QED BY <1>1, <1>3, <1>4, <1>5 DEF Next

\* The inductive invariant of RVD1, for any number of kicks and attachments.
THEOREM PeerInvariant == Spec => []IInv
<1> QED BY InitInv, NextInv, PTL DEF Spec

\* No agent of RVD1 touches a foreign job after its free: the slot's job, those
\* on Completed and those that work items wait for stay allocated, with the
\* timeout of a wait racing RkMppJobComplete.
THEOREM ForeignJobsStayLive == Spec => []ForeignJobsLive
<1>1. IInv /\ LiveInv /\ [Next]_vars => LiveInv'
  BY LiveDevice, LiveItem DEF Next
<1> QED BY <1>1, InitLive, PeerInvariant, PTL DEF Spec, LiveInv

\* RVD1 keeps the contract of the PEER_WORKER interface: a kick runs at most
\* once, alone on the codec, and the callback tells how its own decode ended,
\* that it timed out, or why it was never started.
THEOREM ContractKept == Spec => KeepsContract
<1>1. IInv /\ [Next]_vars => [Contract!Next]_<<[k \in Cookies |-> ToldOf(k)], ran>>
  BY StepRefines DEF told
<1> QED BY <1>1, InitRefines, PeerInvariant, PTL DEF Spec, KeepsContract, Contract!Spec
=============================================================================
