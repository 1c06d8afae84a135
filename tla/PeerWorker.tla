----------------------------- MODULE PeerWorker -----------------------------
(***************************************************************************)
(* RVD1: the PEER_WORKER provider (driver/rkvdec/peer_worker.c) and the    *)
(* parts of driver/rkvdec/job.c that run a foreign kick on it.             *)
(*                                                                         *)
(* Every accepted kick has a work item of its own, on a system worker      *)
(* thread: item[k] is where kick k's PeerKickWorker is.  RVD1's queue has  *)
(* one core, an empty Pending, and the foreign jobs, whose Owner is NULL.  *)
(* RVD0 is here only what it does to this interface: it attaches, detaches *)
(* and kicks one job at a time, the next once it believes slot 1 free.     *)
(***************************************************************************)
EXTENDS Naturals, FiniteSets

CONSTANTS
    MaxKicks,     \* bound on the number of kicks
    MaxAttach,    \* bound on RVD0's attachments
    Mmio,         \* what RVD1's register window may be
    PoolFails     \* TRUE: RkMppJobRunForeign's allocation may fail

Cookies == 1 .. MaxKicks
None    == 0
Windows == {"ok", "none", "short"}
Endings == {"ok", "error", "timeout"}

ASSUME PeerAssumption ==
    /\ MaxKicks \in Nat /\ MaxAttach \in Nat
    /\ Mmio \subseteq Windows /\ PoolFails \in BOOLEAN

VARIABLES
    item,       \* where each kick's work item is
    fjob,       \* the transient RKMPP_JOB of each kick
    res,        \* RkMppJobRunForeign's local result
    slot,       \* InFlightPerCore[0]
    Completed,  \* RVD1's Completed list
    ran,        \* what RVD1's codec has done for each kick
    gated,      \* RVD1's leaf clocks are gated
    isr,        \* LastIsrHwStatus of a queued DPC, "none" when none is queued
    dpc,        \* where the DPC is
    dpcStatus,  \* the status it carries
    needsCore, needsFull, mmio,
    registered, \* CompletionCb is set
    answer,     \* what the callback told RVD0 of each kick, "none" before
    waitsFor,   \* the kick RVD0 holds in its slot 1
    pnp,        \* RVD0's attachment: closed, open, registered or up
    attaches    \* how often RVD0 has attached

codecVars == <<ran, gated, isr>>
dpcVars   == <<dpc, dpcStatus>>
devVars   == <<needsCore, needsFull, mmio>>
rvd0Vars  == <<waitsFor, pnp, attaches>>
vars == <<item, fjob, res, slot, Completed, codecVars, dpcVars, devVars, registered, answer,
          rvd0Vars>>

Results == Endings \cup {"none", "notready", "invalid"}

Job == [mem : {"none", "alloc", "freed"}, Done : BOOLEAN, Result : Results,
        OrphanOnComplete : BOOLEAN]

NoRecord == [mem |-> "none", Done |-> FALSE, Result |-> "none", OrphanOnComplete |-> FALSE]
Freed    == [NoRecord EXCEPT !.mem = "freed"]

Items == {"none", "rejected", "queued", "dropped", "kick", "kickStart", "complete", "gate",
          "waiting", "expired", "flag", "trampoline", "done"}

TypeOK ==
    /\ item \in [Cookies -> Items]
    /\ fjob \in [Cookies -> Job] /\ res \in [Cookies -> Results]
    /\ slot \in Cookies \cup {None}
    /\ Completed \subseteq Cookies
    /\ ran \in [Cookies -> Endings \cup {"no", "running", "lost"}]
    /\ gated \in BOOLEAN
    /\ isr \in Endings \cup {"none"}
    /\ dpc \in {"idle", "complete", "gate"} /\ dpcStatus \in Endings \cup {"none"}
    /\ needsCore \in BOOLEAN /\ needsFull \in BOOLEAN /\ mmio \in Windows
    /\ registered \in BOOLEAN
    /\ answer \in [Cookies -> Results \cup {"lost"}]
    /\ waitsFor \in Cookies \cup {None}
    /\ pnp \in {"closed", "open", "registered", "up"}
    /\ attaches \in 0 .. MaxAttach

Init ==
    /\ item = [k \in Cookies |-> "none"]
    /\ fjob = [k \in Cookies |-> NoRecord] /\ res = [k \in Cookies |-> "none"]
    /\ slot = None /\ Completed = {}
    /\ ran = [k \in Cookies |-> "no"]
    /\ gated = FALSE /\ isr = "none" /\ dpc = "idle" /\ dpcStatus = "none"
    /\ needsCore = TRUE /\ needsFull = FALSE /\ mmio \in Mmio
    /\ registered = FALSE
    /\ answer = [k \in Cookies |-> "none"]
    /\ waitsFor = None /\ pnp = "closed" /\ attaches = 0

Goto(k, l) == item' = [item EXCEPT ![k] = l]

\* A reset of RVD1's codec takes the running decode with it, without an interrupt.
LoseDecode == [k \in Cookies |-> IF ran[k] = "running" THEN "lost" ELSE ran[k]]

-----------------------------------------------------------------------------
(***************************************************************************)
(* RVD0's side of the interface.                                           *)
(***************************************************************************)

\* RkMppPeerArrival opens the peer under RVD0's lock: kicks may come now ...
PeerArrival ==
    /\ pnp = "closed" /\ attaches < MaxAttach
    /\ pnp' = "open" /\ attaches' = attaches + 1
    /\ waitsFor' = None
    /\ UNCHANGED <<item, fjob, res, slot, Completed, codecVars, dpcVars, devVars, registered,
                   answer>>

\* ... then PeerRegisterCompletion sets the callback ...
RegisterCompletion ==
    /\ pnp = "open"
    /\ registered' = TRUE
    /\ pnp' = "registered"
    /\ UNCHANGED <<item, fjob, res, slot, Completed, codecVars, dpcVars, devVars, answer, waitsFor,
                   attaches>>

\* ... and RkMppPeerOnRvd0Connected enables the IOMMU and, if that works,
\* resets the codec, whatever it is doing.
OnRvd0Connected ==
    /\ pnp = "registered"
    /\ pnp' = "up"
    /\ \/ UNCHANGED <<ran, gated>>
       \/ ran' = LoseDecode /\ gated' = FALSE
    /\ UNCHANGED <<item, fjob, res, slot, Completed, isr, dpcVars, devVars, registered, answer,
                   waitsFor, attaches>>

\* RkMppDetachPeer.  The callback stays registered.
DetachPeer ==
    /\ pnp = "up"
    /\ pnp' = "closed"
    /\ UNCHANGED <<item, fjob, res, slot, Completed, codecVars, dpcVars, devVars, registered,
                   answer,
                   waitsFor, attaches>>

\* PeerKickJob, for RVD0's next job: queued, or no memory for the work item
\* (RVD0 then takes the job out of its slot again).
KickJob(k) ==
    /\ pnp # "closed" /\ waitsFor = None
    /\ item[k] = "none" /\ \A l \in Cookies : l < k => item[l] # "none"
    /\ \/ Goto(k, "queued") /\ waitsFor' = k
       \/ Goto(k, "rejected") /\ UNCHANGED waitsFor
    /\ UNCHANGED <<fjob, res, slot, Completed, codecVars, dpcVars, devVars, registered, answer,
                   pnp, attaches>>

-----------------------------------------------------------------------------
(***************************************************************************)
(* PeerKickWorker and RkMppJobRunForeign inside it.                        *)
(***************************************************************************)

\* No memory for the job, or the slot is taken: both return without the
\* callback.
RunTurnedAway(k) ==
    /\ item[k] = "queued"
    /\ \/ PoolFails /\ UNCHANGED fjob
       \/ slot # None /\ fjob' = [fjob EXCEPT ![k] = Freed]
    /\ Goto(k, "dropped")
    /\ UNCHANGED <<res, slot, Completed, codecVars, dpcVars, devVars, registered, answer, rvd0Vars>>

RunForeign(k) ==
    /\ item[k] = "queued"
    /\ slot = None
    /\ slot' = k
    /\ fjob' = [fjob EXCEPT ![k].mem = "alloc"]
    /\ Goto(k, "kick")
    /\ UNCHANGED <<res, Completed, codecVars, dpcVars, devVars, registered, answer, rvd0Vars>>

\* JobKickLocalInner up to the clock ungate.
KickReset(k) ==
    /\ item[k] = "kick"
    /\ \/ /\ mmio = "none"
          /\ Goto(k, "complete")
          /\ UNCHANGED <<needsCore, needsFull, ran, gated>>
       \/ /\ mmio # "none"
          /\ \E enableOk \in BOOLEAN : needsFull' = (needsFull /\ ~enableOk)
          /\ needsCore' = FALSE
          /\ ran' = IF needsFull THEN LoseDecode ELSE ran
          /\ gated' = FALSE
          /\ Goto(k, "kickStart")
    /\ UNCHANGED <<fjob, res, slot, Completed, isr, dpcVars, mmio, registered, answer, rvd0Vars>>

\* The bounds check, the register bank and the write that starts the codec.
KickStart(k) ==
    /\ item[k] = "kickStart"
    /\ \/ mmio = "short" /\ Goto(k, "complete") /\ UNCHANGED ran
       \/ mmio = "ok" /\ Goto(k, "waiting") /\ ran' = [ran EXCEPT ![k] = "running"]
    /\ UNCHANGED <<fjob, res, slot, Completed, gated, isr, dpcVars, devVars, registered, answer,
                   rvd0Vars>>

\* RkMppJobComplete under the lock, for the job in the slot.
Complete(status) ==
    /\ IF slot = None THEN UNCHANGED <<fjob, slot, Completed, needsCore, needsFull>>
       ELSE /\ slot' = None
            /\ fjob' = [fjob EXCEPT ![slot] =
                  IF @.OrphanOnComplete THEN Freed
                  ELSE [@ EXCEPT !.Result = status, !.Done = TRUE]]
            /\ Completed' = IF fjob[slot].OrphanOnComplete THEN Completed
                            ELSE Completed \cup {slot}
            /\ needsFull' = (needsFull \/ status = "timeout")
            /\ needsCore' = (needsCore \/ status # "ok")
    /\ UNCHANGED <<res, ran, gated, isr, mmio, registered, answer, rvd0Vars>>

\* A synchronous failure of the kick completes the job on the worker thread.
KickFailed(k) ==
    /\ item[k] = "complete"
    /\ Complete(IF mmio = "none" THEN "notready" ELSE "invalid")
    /\ Goto(k, "gate")
    /\ UNCHANGED dpcVars

KickFailedGate(k) ==
    /\ item[k] = "gate"
    /\ gated' = TRUE
    /\ Goto(k, "waiting")
    /\ UNCHANGED <<fjob, res, slot, Completed, ran, isr, dpcVars, devVars, registered, answer,
                   rvd0Vars>>

\* The 100 ms wait ends with Done: off Completed, read, freed.
WaitDone(k) ==
    /\ item[k] = "waiting" /\ fjob[k].Done
    /\ Completed' = Completed \ {k}
    /\ res' = [res EXCEPT ![k] = fjob[k].Result]
    /\ fjob' = [fjob EXCEPT ![k] = Freed]
    /\ Goto(k, "trampoline")
    /\ UNCHANGED <<slot, codecVars, dpcVars, devVars, registered, answer, rvd0Vars>>

\* Mutant: the wait has no timeout.
WaitForever(k) == FALSE

\* Or it ends without: what happens before the lock is taken again, the
\* timeout does not see.
WaitExpires(k) ==
    /\ item[k] = "waiting" /\ ~fjob[k].Done
    /\ Goto(k, "expired")
    /\ UNCHANGED <<fjob, res, slot, Completed, codecVars, dpcVars, devVars, registered, answer,
                   rvd0Vars>>

\* Mutant: the job is freed where it should only be marked.
GiveUpFrees(k) ==
    /\ item[k] = "expired"
    /\ fjob' = [fjob EXCEPT ![k] = Freed]
    /\ res' = [res EXCEPT ![k] = "timeout"]
    /\ Goto(k, "flag")
    /\ UNCHANGED <<slot, Completed, codecVars, dpcVars, devVars, registered, answer, rvd0Vars>>

GiveUp(k) ==
    /\ item[k] = "expired"
    /\ fjob' = [fjob EXCEPT ![k].OrphanOnComplete = TRUE]
    /\ res' = [res EXCEPT ![k] = "timeout"]
    /\ Goto(k, "flag")
    /\ UNCHANGED <<slot, Completed, codecVars, dpcVars, devVars, registered, answer, rvd0Vars>>

\* RkMppSetNeedsFullReset, after the unlock.
GiveUpFlag(k) ==
    /\ item[k] = "flag"
    /\ needsFull' = TRUE /\ needsCore' = TRUE
    /\ Goto(k, "trampoline")
    /\ UNCHANGED <<fjob, res, slot, Completed, codecVars, dpcVars, mmio, registered, answer,
                   rvd0Vars>>

\* Mutant: the result is not passed on.
TrampolineSuccess(k) ==
    /\ item[k] = "trampoline"
    /\ answer' = [answer EXCEPT ![k] = IF registered THEN "ok" ELSE "lost"]
    /\ waitsFor' = IF registered /\ waitsFor = k THEN None ELSE waitsFor
    /\ Goto(k, "done")
    /\ UNCHANGED <<fjob, res, slot, Completed, codecVars, dpcVars, devVars, registered, pnp,
                   attaches>>

\* PeerForeignCompletionTrampoline: RVD0's callback, if there is one yet.  It
\* frees RVD0's slot 1, unless another job is in it by now.
Trampoline(k) ==
    /\ item[k] = "trampoline"
    /\ answer' = [answer EXCEPT ![k] = IF registered THEN res[k] ELSE "lost"]
    /\ waitsFor' = IF registered /\ waitsFor = k THEN None ELSE waitsFor
    /\ Goto(k, "done")
    /\ UNCHANGED <<fjob, res, slot, Completed, codecVars, dpcVars, devVars, registered, pnp,
                   attaches>>

-----------------------------------------------------------------------------
(***************************************************************************)
(* The codec, its interrupt and the DPC.                                   *)
(***************************************************************************)

\* With its clocks gated the codec stalls until its own watchdog fires.
EvtIsr ==
    \E k \in Cookies, s \in IF gated THEN {"timeout"} ELSE Endings :
        /\ ran[k] = "running"
        /\ ran' = [ran EXCEPT ![k] = s]
        /\ isr' = s
        /\ UNCHANGED <<item, fjob, res, slot, Completed, gated, dpcVars, devVars, registered,
                       answer, rvd0Vars>>

EvtDpc ==
    /\ dpc = "idle" /\ isr # "none"
    /\ isr' = "none"
    /\ IF slot = None THEN UNCHANGED dpcVars ELSE dpc' = "complete" /\ dpcStatus' = isr
    /\ UNCHANGED <<item, fjob, res, slot, Completed, ran, gated, devVars, registered, answer,
                   rvd0Vars>>

DpcComplete ==
    /\ dpc = "complete"
    /\ Complete(dpcStatus)
    /\ dpc' = "gate" /\ dpcStatus' = "none"
    /\ UNCHANGED item

\* Pending is empty, so the leaf clocks are gated after every completion.
DpcGate ==
    /\ dpc = "gate"
    /\ gated' = TRUE
    /\ dpc' = "idle"
    /\ UNCHANGED <<item, fjob, res, slot, Completed, ran, isr, dpcStatus, devVars, registered,
                   answer, rvd0Vars>>

-----------------------------------------------------------------------------
Rvd0Step == PeerArrival \/ RegisterCompletion \/ OnRvd0Connected \/ DetachPeer

\* What kick k's work item does by itself; the end of its wait included.
ItemStep(k) ==
    \/ RunTurnedAway(k) \/ RunForeign(k) \/ KickReset(k) \/ KickStart(k)
    \/ KickFailed(k) \/ KickFailedGate(k)
    \/ WaitDone(k) \/ WaitExpires(k) \/ GiveUp(k) \/ GiveUpFlag(k) \/ Trampoline(k)

DpcStep == EvtDpc \/ DpcComplete \/ DpcGate

Next ==
    \/ Rvd0Step
    \/ \E k \in Cookies : KickJob(k) \/ ItemStep(k)
    \/ EvtIsr \/ DpcStep

Spec == Init /\ [][Next]_vars

(***************************************************************************)
(* Fairness: work items are run, queued DPCs too, an attachment that began *)
(* goes on, and the 100 ms timer of a wait fires.  The codec owes nothing: *)
(* it may hang without an interrupt.                                       *)
(***************************************************************************)
Fairness ==
    /\ \A k \in Cookies : WF_vars(ItemStep(k))
    /\ WF_vars(DpcStep)
    /\ WF_vars(RegisterCompletion \/ OnRvd0Connected)

FairSpec == Spec /\ Fairness

\* With a codec that does signal, if only through its watchdog.
LiveCodecSpec == FairSpec /\ WF_vars(EvtIsr)

-----------------------------------------------------------------------------
(***************************************************************************)
(* Properties.                                                             *)
(***************************************************************************)

\* The jobs that an agent may touch next are allocated: the slot's and those
\* on Completed (RkMppJobComplete, the list walks) and the one a work item
\* still waits for.  A timeout hands its job to RkMppJobComplete, which
\* frees it, unless that has run already.
ForeignJobsLive ==
    /\ \A k \in Completed : fjob[k].mem = "alloc"
    /\ slot # None => fjob[slot].mem = "alloc"
    /\ \A k \in Cookies : item[k] \in {"kick", "kickStart", "complete", "waiting", "expired"}
                           => fjob[k].mem = "alloc"

\* A kick finds RVD1's slot taken only when RVD0 was told that the job in it
\* timed out, or has attached again since: the callback comes after the slot
\* is free (RkMppJobComplete before Done, Done before the callback).
SlotFreeAtCallback ==
    \A k \in Cookies :
        item[k] = "queued" /\ slot # None =>
            answer[slot] = "timeout" \/ attaches > 1

\* Every work item ends, even when the codec never signals: no system worker
\* thread is held for good (the bounded wait of RkMppJobRunForeign).
WorkersReturn ==
    \A k \in Cookies : item[k] = "queued" ~> item[k] \in {"done", "dropped"}

\* Every kick that PeerKickJob accepted is answered through the callback.
AcceptedAnswered ==
    \A k \in Cookies : item[k] = "queued" ~> answer[k] \in Results \ {"none"}

\* What RVD0 knows of kick k, in PeerContract's terms.
ToldOf(k) ==
    IF item[k] = "none" THEN "new"
    ELSE IF item[k] \in {"rejected", "dropped"} THEN item[k]
    ELSE IF item[k] # "done" THEN "accepted"
    ELSE IF answer[k] = "lost" THEN "dropped" ELSE answer[k]

Contract == INSTANCE PeerContract WITH told <- [k \in Cookies |-> ToldOf(k)]

\* RVD1 keeps its contract: a kick runs at most once, alone on the codec, and
\* is answered at most once, with how its own decode ended (never another's),
\* with a timeout, or with why it never started.
KeepsContract == Contract!Spec
=============================================================================
