----------------------------- MODULE RkvdecJobs -----------------------------
(***************************************************************************)
(* The job engine of RVD0 (driver/rkvdec/job.c, and the file-cleanup and   *)
(* peer-attachment code of driver/rkvdec/device.c that shares its queue).  *)
(*                                                                         *)
(* Agents run concurrently; a step is what an agent does between two       *)
(* points where another agent can interfere: one hold of Queue->Lock, or   *)
(* one access outside of it.  The agents are                               *)
(*   Threads   user threads inside SUBMIT_DENSE_JOB, WAIT_JOB, ALLOC and   *)
(*             FREE_BUFFER, or closing their file (EvtFileCleanup);        *)
(*   "worker"  the deferred-kick work item, RkMppKickWorker;               *)
(*   "dpc"     the interrupt DPC of RVD0;                                  *)
(*   "peer"    the thread of RVD1 that calls RkMppPeerCompletion;          *)
(*   "pnp"     the PnP thread that attaches and detaches the peer and      *)
(*             takes the IOMMU away.                                       *)
(*                                                                         *)
(* Memory is explicit: job[j].mem tells whether job j's pool block is      *)
(* allocated, and Bugcheck holds when some agent is about to dereference a *)
(* freed block.                                                            *)
(*                                                                         *)
(* Left out: requests that fail validation (they change nothing), the      *)
(* register contents, cache maintenance other than the buffers it touches, *)
(* logging, and the error counters that only logging reads.                *)
(***************************************************************************)
EXTENDS JobQueueOps

CONSTANTS
    Threads,             \* user threads
    FileOf,              \* the file object each thread has open
    SyncHandles,         \* TRUE: handles are opened without FILE_FLAG_OVERLAPPED
    Mmio,                \* what the register window may be: see mmio
    MaxPendingJobs,      \* RKMPP_MAX_PENDING_JOBS: 8
    MaxPendingPerFile,   \* RKMPP_MAX_PENDING_JOBS_PER_FILE: 4
    Env                  \* what the environment may do in this instance

System == {"worker", "dpc", "peer", "pnp"}
Agents == Threads \cup System

EnvEvents == {"close", "waitTimeout", "drainTimeout", "free", "error", "enableFails",
              "peer", "peerRejects", "peerDrops", "peerDetach", "iommuGone"}

\* The codec's register window: mapped, not mapped, or too small for the bank.
Windows == {"ok", "none", "short"}

ASSUME JobsAssumption ==
    /\ Threads \cap System = {}
    /\ FileOf \in [Threads -> Files]
    /\ SyncHandles \in BOOLEAN
    /\ Mmio \subseteq Windows
    /\ MaxPendingJobs \in Nat \ {0}
    /\ MaxPendingPerFile \in Nat \ {0}
    /\ Env \subseteq EnvEvents

VARIABLES
    q,           \* RKMPP_JOB_QUEUE
    job,         \* RKMPP_JOB of every id
    nextId,      \* RKMPP_JOB_QUEUE.NextId
    needsCore,   \* RKMPP_DEVICE.NeedsCoreReset
    needsFull,   \* RKMPP_DEVICE.NeedsFullReset
    attached,    \* RKMPP_DEVICE.IommuAttached
    mmio,        \* RKMPP_DEVICE.Mmio and MmioSize, fixed when the device starts
    hwJob,       \* the job RVD0's codec is decoding
    gated,       \* RVD0's leaf clocks are gated
    isr,         \* LastIsrHwStatus of a queued DPC, "none" when none is queued
    work,        \* the kick work item is queued
    atPeer,      \* kicks RVD1 has accepted and not answered
    inited,      \* files whose RKMPP_FILE_CTX has its Device
    mapped,      \* files whose buffers are allocated and mapped
    closed,      \* files whose cleanup has begun
    pc,          \* where each agent is
    cur,         \* the job pointer each agent holds
    arg,         \* the status each agent carries
    promos       \* each agent's Promos[] still to be kicked

devVars  == <<needsCore, needsFull, attached, mmio>>
hwVars   == <<hwJob, gated, isr>>
fileVars == <<inited, mapped, closed>>
ctlVars  == <<cur, arg, promos>>
vars == <<q, job, nextId, devVars, hwVars, work, atPeer, fileVars, pc, ctlVars>>

Status == {"unset", "ok", "error", "timeout", "notready", "invalid"}

\* "unset" is the zeroed Result of a new job, which a reader takes for
\* STATUS_SUCCESS.
JobType ==
    [mem : {"none", "alloc", "freed"}, Owner : Files \cup {NoFile},
     TargetCore : Cores, Done : BOOLEAN, Result : Status,
     OrphanOnComplete : BOOLEAN, WaiterPin : Int]

NewJob(f) ==
    [mem |-> "alloc", Owner |-> f, TargetCore |-> 0, Done |-> FALSE,
     Result |-> "unset", OrphanOnComplete |-> FALSE, WaiterPin |-> 0]

NoRecord == [NewJob(NoFile) EXCEPT !.mem = "none"]
Freed    == [NewJob(NoFile) EXCEPT !.mem = "freed"]

\* ExFreePoolWithTag of a set of jobs.
Free(js) == [j \in JobId |-> IF j \in js THEN Freed ELSE job[j]]

Owner == [j \in JobId |-> job[j].Owner]

PC == {"idle", "enqueue", "kick", "kickStart", "peerCall", "peerFailed", "signal",
       "signalKick", "complete", "gate", "arm", "submitted", "waiting", "take", "loop",
       "drain", "drainWait", "freeBuffers", "decide", "pdCycle",
       "probe0", "wait0", "probe1", "wait1"}

TypeOK ==
    /\ q \in QueueType
    /\ job \in [JobId -> JobType]
    /\ nextId \in 0 .. MaxJobs
    /\ needsCore \in BOOLEAN /\ needsFull \in BOOLEAN /\ attached \in BOOLEAN
    /\ mmio \in Windows
    /\ hwJob \in JobId \cup {NoJob} /\ gated \in BOOLEAN
    /\ isr \in {"none", "ok", "error", "timeout"}
    /\ work \in BOOLEAN
    /\ atPeer \in SUBSET JobId
    /\ inited \in SUBSET Files /\ mapped \in SUBSET Files /\ closed \in SUBSET Files
    /\ pc \in [Agents -> PC]
    /\ cur \in [Agents -> JobId \cup {NoJob}]
    /\ arg \in [Agents -> Status]
    /\ promos \in [Agents -> Seq(Promotion)]

Init ==
    /\ q = RkMppJobQueueInit
    /\ job = [j \in JobId |-> NoRecord]
    /\ nextId = 0
    /\ needsCore = TRUE /\ needsFull = FALSE /\ attached = TRUE
    /\ mmio \in Mmio
    /\ hwJob = NoJob /\ gated = FALSE /\ isr = "none"
    /\ work = FALSE
    /\ atPeer = {}
    /\ inited = {} /\ mapped = {} /\ closed = {}
    /\ pc = [a \in Agents |-> "idle"]
    /\ cur = [a \in Agents |-> NoJob]
    /\ arg = [a \in Agents |-> "unset"]
    /\ promos = [a \in Agents |-> <<>>]

Goto(a, l) == pc' = [pc EXCEPT ![a] = l]

\* A job's promotion stamps its TargetCore.
StampCores(jt, out) ==
    [j \in JobId |->
        IF \E i \in DOMAIN out : out[i].job = j
        THEN [jt[j] EXCEPT !.TargetCore =
                 out[CHOOSE i \in DOMAIN out : out[i].job = j].core]
        ELSE jt[j]]

-----------------------------------------------------------------------------
(***************************************************************************)
(* Use after free.                                                         *)
(***************************************************************************)

\* The job pointer agent a dereferences in its next step, NoJob for none.
Derefs(a) ==
    IF pc[a] \in {"submitted", "waiting", "take", "drainWait", "signal", "signalKick",
                 "wait0", "wait1"}
    THEN cur[a]
    ELSE IF pc[a] \in {"kick", "kickStart", "peerCall", "peerFailed"} /\ promos[a] # <<>>
    THEN Head(promos[a]).job
    ELSE NoJob

\* An agent is about to touch a freed job, or to call through the peer
\* interface that RkMppDetachPeer has zeroed.
Bugcheck ==
    \E a \in Agents :
        \/ Derefs(a) # NoJob /\ job[Derefs(a)].mem = "freed"
        \/ pc[a] = "peerCall" /\ ~q.PeerOpen

-----------------------------------------------------------------------------
(***************************************************************************)
(* Entry to the driver.  The I/O manager runs one request at a time on a   *)
(* synchronous file object, its cleanup included; on others, requests run  *)
(* in parallel (ioctl.c's queue is WdfIoQueueDispatchParallel).            *)
(***************************************************************************)
Idle(t) ==
    /\ pc[t] = "idle"
    /\ FileOf[t] \notin closed
    /\ SyncHandles => \A u \in Threads : FileOf[u] = FileOf[t] => pc[u] = "idle"

\* RkMppEvtIoDeviceControl refuses every request once the IOMMU is gone.
MayEnter(t) == Idle(t) /\ attached

\* RKMPP_FILE_CTX.Lock, which SUBMIT_DENSE_JOB holds from resolving its
\* buffers until its job is on Pending.
FileLockFree(f) == \A u \in Threads : FileOf[u] = f => pc[u] # "enqueue"

AllocBuffer(t) ==
    LET f == FileOf[t] IN
    /\ MayEnter(t)
    /\ FileLockFree(f)
    /\ f \notin mapped
    /\ inited' = inited \cup {f}
    /\ mapped' = mapped \cup {f}
    /\ UNCHANGED <<q, job, nextId, devVars, hwVars, work, atPeer, closed, pc, ctlVars>>

FreeBuffer(t) ==
    LET f == FileOf[t] IN
    /\ "free" \in Env
    /\ MayEnter(t)
    /\ FileLockFree(f)
    /\ f \in mapped
    /\ ~RkMppJobBufferInUse(q, Owner, f)
    /\ mapped' = mapped \ {f}
    /\ UNCHANGED <<q, job, nextId, devVars, hwVars, work, atPeer, inited, closed, pc, ctlVars>>

-----------------------------------------------------------------------------
(***************************************************************************)
(* RkMppJobSubmitDense.                                                    *)
(***************************************************************************)

\* Allocate the job, take the file lock, resolve its buffers, draw its id.
SubmitAlloc(t) ==
    LET f == FileOf[t]
        j == nextId + 1
    IN
    /\ MayEnter(t)
    /\ FileLockFree(f)
    /\ f \in mapped
    /\ nextId < MaxJobs
    /\ nextId' = j
    /\ job' = [job EXCEPT ![j] = NewJob(f)]
    /\ cur' = [cur EXCEPT ![t] = j]
    /\ Goto(t, "enqueue")
    /\ UNCHANGED <<q, devVars, hwVars, work, atPeer, fileVars, arg, promos>>

AdmissionFull(f) ==
    \/ PendingCount(q) >= MaxPendingJobs
    \/ OwnerCount(q, Owner, f) >= MaxPendingPerFile

\* STATUS_DEVICE_BUSY: both locks dropped, the job freed.
SubmitBusy(t) ==
    /\ pc[t] = "enqueue"
    /\ AdmissionFull(FileOf[t])
    /\ job' = Free({cur[t]})
    /\ cur' = [cur EXCEPT ![t] = NoJob]
    /\ Goto(t, "idle")
    /\ UNCHANGED <<q, nextId, devVars, hwVars, work, atPeer, fileVars, arg, promos>>

\* Onto Pending, then promotion, in one hold of Queue->Lock.
SubmitEnqueue(t) ==
    /\ pc[t] = "enqueue"
    /\ ~AdmissionFull(FileOf[t])
    /\ LET p == PromoteUntilFull(AppendPending(q, cur[t]), Owner) IN
           /\ q' = p.q
           /\ job' = StampCores(job, p.out)
           /\ promos' = [promos EXCEPT ![t] = p.out]
    /\ Goto(t, "kick")
    /\ UNCHANGED <<nextId, devVars, hwVars, work, atPeer, fileVars, cur, arg>>

\* Out->JobId = job->Id.
SubmitReturn(t) ==
    /\ pc[t] = "submitted"
    /\ cur' = [cur EXCEPT ![t] = NoJob]
    /\ Goto(t, "idle")
    /\ UNCHANGED <<q, job, nextId, devVars, hwVars, work, atPeer, fileVars, arg, promos>>

-----------------------------------------------------------------------------
(***************************************************************************)
(* KickPromotions, by a submitting thread or by the worker.                *)
(***************************************************************************)
Kicker(a) == a \in Threads \cup {"worker"}

KickDone(a) ==
    /\ Kicker(a) /\ pc[a] = "kick"
    /\ promos[a] = <<>>
    /\ Goto(a, IF a = "worker" THEN "loop" ELSE "submitted")
    /\ UNCHANGED <<q, job, nextId, devVars, hwVars, work, atPeer, fileVars, ctlVars>>

\* The synchronous failures of JobKickLocalInner run RkMppJobComplete in place.
KickFails(a, status) ==
    /\ arg' = [arg EXCEPT ![a] = status]
    /\ promos' = [promos EXCEPT ![a] = Tail(@)]
    /\ Goto(a, "complete")

\* JobKickLocalInner up to the clock ungate: the pending reset and the clocks.
\* A full reset takes whatever the codec was doing with it; when the IOMMU
\* cannot be enabled again, the reset is asked for once more.
KickReset(a) ==
    /\ Kicker(a) /\ pc[a] = "kick"
    /\ promos[a] # <<>> /\ Head(promos[a]).core = 0
    /\ \/ /\ mmio = "none"
          /\ KickFails(a, "notready")
          /\ UNCHANGED <<needsCore, needsFull, hwJob, gated>>
       \/ /\ mmio # "none"
          /\ \E enableOk \in BOOLEAN :
                /\ enableOk \/ (needsFull /\ "enableFails" \in Env)
                /\ needsFull' = ~enableOk
          /\ needsCore' = FALSE
          /\ hwJob' = IF needsFull THEN NoJob ELSE hwJob
          /\ gated' = FALSE
          /\ Goto(a, "kickStart")
          /\ UNCHANGED <<arg, promos>>
    /\ UNCHANGED <<q, job, nextId, attached, mmio, isr, work, atPeer, fileVars, cur>>

\* The bounds check, the cache clean of the job's buffers, the register bank
\* and, last, the write that starts the codec.
KickStart(a) ==
    /\ Kicker(a) /\ pc[a] = "kickStart"
    /\ \/ /\ mmio = "short"
          /\ KickFails(a, "invalid")
          /\ UNCHANGED hwJob
       \/ /\ mmio = "ok"
          /\ hwJob' = Head(promos[a]).job
          /\ promos' = [promos EXCEPT ![a] = Tail(@)]
          /\ Goto(a, "kick")
          /\ UNCHANGED arg
    /\ UNCHANGED <<q, job, nextId, devVars, gated, isr, work, atPeer, fileVars, cur>>

\* Under the lock, a failed peer kick gives its slot back and puts the job on
\* Completed.  Its Result and Done come after the unlock (PeerFailSignal).
PeerRollback(a, status) ==
    LET j  == Head(promos[a]).job
        q1 == IF q.InFlight[1] = j THEN ReleaseSlot(q, 1) ELSE q
    IN  /\ q' = [q1 EXCEPT !.Completed = @ \cup {j}]
        /\ arg' = [arg EXCEPT ![a] = status]
        /\ Goto(a, "peerFailed")

\* The unlocked test of PeerOpen.
KickPeerCheck(a) ==
    /\ Kicker(a) /\ pc[a] = "kick"
    /\ promos[a] # <<>> /\ Head(promos[a]).core = 1
    /\ \/ /\ ~q.PeerOpen
          /\ PeerRollback(a, "notready")
       \/ /\ q.PeerOpen
          /\ Goto(a, "peerCall")
          /\ UNCHANGED <<q, arg>>
    /\ UNCHANGED <<job, nextId, devVars, hwVars, work, atPeer, fileVars, cur, promos>>

\* q->Peer.KickJob: RVD1 queues the kick, or has no memory for it.
KickPeerCall(a) ==
    /\ Kicker(a) /\ pc[a] = "peerCall"
    /\ \/ /\ atPeer' = atPeer \cup {Head(promos[a]).job}
          /\ promos' = [promos EXCEPT ![a] = Tail(@)]
          /\ Goto(a, "kick")
          /\ UNCHANGED <<q, arg>>
       \/ /\ "peerRejects" \in Env
          /\ PeerRollback(a, "notready")
          /\ UNCHANGED <<atPeer, promos>>
    /\ UNCHANGED <<job, nextId, devVars, hwVars, work, fileVars, cur>>

PeerFailSignal(a) ==
    /\ Kicker(a) /\ pc[a] = "peerFailed"
    /\ LET j == Head(promos[a]).job IN
           job' = [job EXCEPT ![j].Result = arg[a], ![j].Done = TRUE]
    /\ promos' = [promos EXCEPT ![a] = Tail(@)]
    /\ arg' = [arg EXCEPT ![a] = "unset"]
    /\ Goto(a, "kick")
    /\ UNCHANGED <<q, nextId, devVars, hwVars, work, atPeer, fileVars, cur>>

-----------------------------------------------------------------------------
(***************************************************************************)
(* The codec, its interrupt and RkMppJobComplete.                          *)
(***************************************************************************)

\* The codec raises its interrupt and RkMppEvtIsr queues the DPC.  With its
\* clocks gated the codec stalls until its own watchdog fires.
EvtIsr ==
    /\ hwJob # NoJob
    /\ \E s \in IF gated THEN {"timeout"}
                ELSE IF "error" \in Env THEN {"ok", "error", "timeout"} ELSE {"ok"} :
           isr' = s
    /\ hwJob' = NoJob
    /\ UNCHANGED <<q, job, nextId, devVars, gated, work, atPeer, fileVars, pc, ctlVars>>

\* RkMppEvtDpc: the status, then InFlightPerCore[0] under the lock.
EvtDpc ==
    /\ pc["dpc"] = "idle" /\ isr # "none"
    /\ arg' = [arg EXCEPT !["dpc"] = isr]
    /\ isr' = "none"
    /\ Goto("dpc", IF q.InFlight[0] # NoJob THEN "complete" ELSE "idle")
    /\ UNCHANGED <<q, job, nextId, devVars, hwJob, gated, work, atPeer, fileVars, cur, promos>>

\* Where RkMppJobComplete returns to.
Return(a) == IF a = "dpc" THEN "idle" ELSE "kick"

\* Mutants: the waiter's pin, or the orphan flag, is not looked at.
FreeHereUnpinned(j) == job[j].OrphanOnComplete
FreeHereNever(j)    == FALSE

\* An abandoned job that no waiter has pinned is freed by its completion.
FreeHere(j) == job[j].OrphanOnComplete /\ job[j].WaiterPin = 0

\* All of RkMppJobComplete's first half, under the lock: result and reset
\* flags, Completed or the orphan's free, Done, the slot, and what is left to
\* do after the unlock.
JobComplete(a) ==
    LET j        == q.InFlight[0]
        freeHere == FreeHere(j)
        q1       == ReleaseSlot(q, job[j].TargetCore)
        q2       == [q1 EXCEPT !.Completed = IF freeHere THEN @ ELSE @ \cup {j}]
        wantKick  == q2.Pending # {}
        idleAfter == q2.CoreIdle = VisibleCores(q2) /\ ~wantKick
    IN
    /\ (Kicker(a) \/ a = "dpc") /\ pc[a] = "complete"
    /\ \/ /\ j = NoJob
          /\ Goto(a, Return(a))
          /\ UNCHANGED <<q, job, needsCore, needsFull>>
       \/ /\ j # NoJob
          /\ q' = q2
          /\ job' = IF freeHere THEN Free({j})
                    ELSE [job EXCEPT ![j].Result = arg[a], ![j].Done = TRUE]
          /\ needsFull' = (needsFull \/ arg[a] = "timeout")
          /\ needsCore' = (needsCore \/ arg[a] # "ok")
          /\ Goto(a, IF wantKick THEN "arm" ELSE IF idleAfter THEN "gate" ELSE Return(a))
    /\ arg' = [arg EXCEPT ![a] = "unset"]
    /\ UNCHANGED <<nextId, attached, mmio, hwVars, work, atPeer, fileVars, cur, promos>>

\* GateRvdec0LeafClocks, on the idleAfter computed under the lock.
JobCompleteGate(a) ==
    /\ pc[a] = "gate"
    /\ gated' = TRUE
    /\ Goto(a, Return(a))
    /\ UNCHANGED <<q, job, nextId, devVars, hwJob, isr, work, atPeer, fileVars, ctlVars>>

\* Mutants: the item is not queued at all; the rearm is only set with it.
EnqueueForgets(a) ==
    /\ pc[a] = "arm"
    /\ q' = [q EXCEPT !.KickRearm = TRUE, !.KickActive = TRUE]
    /\ Goto(a, IF a = "peer" THEN "idle" ELSE Return(a))
    /\ UNCHANGED <<job, nextId, devVars, hwVars, work, atPeer, fileVars, ctlVars>>

EnqueueWithoutRearm(a) ==
    /\ pc[a] = "arm"
    /\ q' = [q EXCEPT !.KickRearm = @ \/ ~q.KickActive, !.KickActive = TRUE]
    /\ work' = (work \/ ~q.KickActive)
    /\ Goto(a, IF a = "peer" THEN "idle" ELSE Return(a))
    /\ UNCHANGED <<job, nextId, devVars, hwVars, atPeer, fileVars, ctlVars>>

\* RkMppEnqueueKickWorker.  Between its unlock and WdfWorkItemEnqueue nobody
\* else can queue or run the item, as KickActive says it is queued already.
EnqueueKickWorker(a) ==
    /\ pc[a] = "arm"
    /\ q' = [q EXCEPT !.KickRearm = TRUE, !.KickActive = TRUE]
    /\ work' = (work \/ ~q.KickActive)
    /\ Goto(a, IF a = "peer" THEN "idle" ELSE Return(a))
    /\ UNCHANGED <<job, nextId, devVars, hwVars, atPeer, fileVars, ctlVars>>

-----------------------------------------------------------------------------
(***************************************************************************)
(* RkMppKickWorker.                                                        *)
(***************************************************************************)
KickWorkerStart ==
    /\ work /\ pc["worker"] = "idle"
    /\ work' = FALSE
    /\ Goto("worker", "loop")
    /\ UNCHANGED <<q, job, nextId, devVars, hwVars, atPeer, fileVars, ctlVars>>

KickWorkerExit ==
    /\ pc["worker"] = "loop"
    /\ ~q.KickRearm
    /\ q' = [q EXCEPT !.KickActive = FALSE]
    /\ Goto("worker", "idle")
    /\ UNCHANGED <<job, nextId, devVars, hwVars, work, atPeer, fileVars, ctlVars>>

KickWorkerPass ==
    /\ pc["worker"] = "loop"
    /\ q.KickRearm
    /\ LET p == PromoteUntilFull([q EXCEPT !.KickRearm = FALSE], Owner) IN
           /\ q' = p.q
           /\ job' = StampCores(job, p.out)
           /\ promos' = [promos EXCEPT !["worker"] = p.out]
    /\ Goto("worker", "kick")
    /\ UNCHANGED <<nextId, devVars, hwVars, work, atPeer, fileVars, cur, arg>>

-----------------------------------------------------------------------------
(***************************************************************************)
(* RkMppJobWait, for an id the file owns; any other id is NOT_FOUND.       *)
(***************************************************************************)

\* Already on Completed: off the list under the lock ...
WaitTake(t, j) ==
    /\ MayEnter(t)
    /\ j \in q.Completed /\ job[j].Owner = FileOf[t]
    /\ q' = [q EXCEPT !.Completed = @ \ {j}]
    /\ cur' = [cur EXCEPT ![t] = j]
    /\ Goto(t, "take")
    /\ UNCHANGED <<job, nextId, devVars, hwVars, work, atPeer, fileVars, arg, promos>>

\* ... and read and freed after it.
WaitTakeFree(t) ==
    /\ pc[t] = "take"
    /\ job' = Free({cur[t]})
    /\ cur' = [cur EXCEPT ![t] = NoJob]
    /\ Goto(t, "idle")
    /\ UNCHANGED <<q, nextId, devVars, hwVars, work, atPeer, fileVars, arg, promos>>

\* In flight or pending: pinned, then waited for.
WaitPin(t, j) ==
    /\ MayEnter(t)
    /\ \/ j \in q.Pending
       \/ \E c \in VisibleCores(q) : q.InFlight[c] = j
    /\ job[j].Owner = FileOf[t]
    /\ job' = [job EXCEPT ![j].WaiterPin = @ + 1]
    /\ cur' = [cur EXCEPT ![t] = j]
    /\ Goto(t, "waiting")
    /\ UNCHANGED <<q, nextId, devVars, hwVars, work, atPeer, fileVars, arg, promos>>

\* The wait is over: unpin, and whoever takes the pin to 0 takes js off the
\* lists and frees them.  js is empty or {cur[t]}.
WaitLeave(t, js, orphan) ==
    LET j == cur[t] IN
    /\ q' = [RemovePending(q, js) EXCEPT !.Completed = @ \ js]
    /\ job' = IF js # {} THEN Free(js)
              ELSE [job EXCEPT ![j].WaiterPin = @ - 1,
                               ![j].OrphanOnComplete = @ \/ orphan]
    /\ cur' = [cur EXCEPT ![t] = NoJob]
    /\ Goto(t, "idle")
    /\ UNCHANGED <<nextId, devVars, hwVars, work, atPeer, fileVars, arg, promos>>

LastPin(j) == job[j].WaiterPin = 1

WaitDone(t) ==
    /\ pc[t] = "waiting"
    /\ job[cur[t]].Done
    /\ WaitLeave(t, IF LastPin(cur[t]) THEN {cur[t]} ELSE {}, FALSE)

WaitTimeout(t) ==
    LET j == cur[t]
        listed == j \in q.Pending \cup q.Completed
    IN
    /\ "waitTimeout" \in Env
    /\ pc[t] = "waiting"
    /\ WaitLeave(t, IF LastPin(j) /\ listed THEN {j} ELSE {},
                 LastPin(j) /\ \E c \in VisibleCores(q) : q.InFlight[c] = j)

-----------------------------------------------------------------------------
(***************************************************************************)
(* RkMppEvtFileCleanup, and RkMppJobsDrainOwner inside it.                 *)
(***************************************************************************)
JobsOf(f, js) == {j \in js : job[j].Owner = f}

\* A handle on which no buffer was ever allocated has nothing to clean up.
CloseUnused(t) ==
    /\ "close" \in Env
    /\ Idle(t)
    /\ FileOf[t] \notin inited
    /\ closed' = closed \cup {FileOf[t]}
    /\ UNCHANGED <<q, job, nextId, devVars, hwVars, work, atPeer, inited, mapped, pc, ctlVars>>

\* Mutant: the jobs taken off the lists are not freed.
DrainSweepLeaks(t) ==
    LET f  == FileOf[t]
        js == JobsOf(f, q.Pending \cup q.Completed)
    IN
    /\ "close" \in Env
    /\ Idle(t)
    /\ f \in inited
    /\ closed' = closed \cup {f}
    /\ q' = [RemovePending(q, js) EXCEPT !.Completed = @ \ js]
    /\ Goto(t, "drain")
    /\ UNCHANGED <<job, nextId, devVars, hwVars, work, atPeer, inited, mapped, ctlVars>>

\* Phases 1 and 2: the file's Pending and Completed jobs are freed, pinned or not.
DrainSweep(t) ==
    LET f  == FileOf[t]
        js == JobsOf(f, q.Pending \cup q.Completed)
    IN
    /\ "close" \in Env
    /\ Idle(t)
    /\ f \in inited
    /\ closed' = closed \cup {f}
    /\ q' = [RemovePending(q, js) EXCEPT !.Completed = @ \ js]
    /\ job' = Free(js)
    /\ Goto(t, "drain")
    /\ UNCHANGED <<nextId, devVars, hwVars, work, atPeer, inited, mapped, ctlVars>>

\* The visible cores with a job of f in flight.
OwnedCores(f) == {c \in VisibleCores(q) : q.InFlight[c] # NoJob
                                          /\ job[q.InFlight[c]].Owner = f}

\* Phase 3: pin the first of the file's in-flight jobs, core 0 before core 1 ...
DrainPin(t) ==
    LET f == FileOf[t]
        j == q.InFlight[CHOOSE c \in OwnedCores(f) : \A d \in OwnedCores(f) : c <= d]
    IN
    /\ pc[t] = "drain"
    /\ OwnedCores(f) # {}
    /\ job' = [job EXCEPT ![j].WaiterPin = @ + 1]
    /\ cur' = [cur EXCEPT ![t] = j]
    /\ Goto(t, "drainWait")
    /\ UNCHANGED <<q, nextId, devVars, hwVars, work, atPeer, fileVars, arg, promos>>

\* ... or none is left.
DrainEmpty(t) ==
    /\ pc[t] = "drain"
    /\ OwnedCores(FileOf[t]) = {}
    /\ arg' = [arg EXCEPT ![t] = "ok"]
    /\ Goto(t, "freeBuffers")
    /\ UNCHANGED <<q, job, nextId, devVars, hwVars, work, atPeer, fileVars, cur, promos>>

\* After the wait, under the lock: unpin; on a timeout abandon every in-flight
\* job of the file; reap its unpinned jobs from Completed.
DrainUnpin(t, timedOut) ==
    LET f  == FileOf[t]
        j  == cur[t]
        j1 == [job EXCEPT ![j].WaiterPin = @ - 1]
        js == {k \in q.Completed : j1[k].Owner = f /\ j1[k].WaiterPin = 0}
        abandoned == IF timedOut THEN {q.InFlight[c] : c \in OwnedCores(f)} ELSE {}
    IN
    /\ pc[t] = "drainWait"
    /\ q' = [q EXCEPT !.Completed = @ \ js]
    /\ job' = [k \in JobId |->
                  IF k \in js THEN Freed
                  ELSE IF k \in abandoned THEN [j1[k] EXCEPT !.OrphanOnComplete = TRUE]
                  ELSE j1[k]]
    /\ cur' = [cur EXCEPT ![t] = NoJob]

DrainDone(t) ==
    /\ DrainUnpin(t, FALSE)
    /\ job[cur[t]].Done
    /\ Goto(t, "drain")
    /\ UNCHANGED <<nextId, devVars, hwVars, work, atPeer, fileVars, arg, promos>>

DrainTimeout(t) ==
    /\ "drainTimeout" \in Env
    /\ DrainUnpin(t, TRUE)
    /\ needsFull' = TRUE /\ needsCore' = TRUE
    /\ arg' = [arg EXCEPT ![t] = "timeout"]
    /\ Goto(t, "freeBuffers")
    /\ UNCHANGED <<nextId, attached, mmio, hwVars, work, atPeer, fileVars, promos>>

\* RkMppBufFreeAll, which waits for the file lock.
CleanupFreeBuffers(t) ==
    /\ pc[t] = "freeBuffers"
    /\ FileLockFree(FileOf[t])
    /\ mapped' = mapped \ {FileOf[t]}
    /\ Goto(t, "decide")
    /\ UNCHANGED <<q, job, nextId, devVars, hwVars, work, atPeer, inited, closed, ctlVars>>

\* Another file has work here and the drain was clean: its next kick resets
\* the core.  Otherwise the power domain is cycled.
CleanupDecide(t) ==
    LET spare == RkMppJobQueueHasOtherOwner(q, Owner, FileOf[t]) /\ arg[t] = "ok" IN
    /\ pc[t] = "decide"
    /\ needsCore' = (needsCore \/ spare)
    /\ arg' = [arg EXCEPT ![t] = "unset"]
    /\ Goto(t, IF spare THEN "idle" ELSE "pdCycle")
    /\ UNCHANGED <<q, job, nextId, needsFull, attached, mmio, hwVars, work, atPeer, fileVars,
                   cur, promos>>

\* IOMMU Disable, FullCoreReset0, Enable.  The codec's power domain goes off
\* and on with its clocks ungated: a decode in progress is lost, without an
\* interrupt.
CleanupPowerCycle(t) ==
    /\ pc[t] = "pdCycle"
    /\ hwJob' = NoJob /\ gated' = FALSE
    /\ needsCore' = FALSE /\ needsFull' = FALSE
    /\ Goto(t, "idle")
    /\ UNCHANGED <<q, job, nextId, attached, mmio, isr, work, atPeer, fileVars, ctlVars>>

-----------------------------------------------------------------------------
(***************************************************************************)
(* RVD1 as RVD0 sees it, which is PeerContract: a kick it accepted is      *)
(* answered at most once, through RkMppPeerCompletion on a system worker   *)
(* thread.  Callbacks do not overlap here: the next one belongs to a kick  *)
(* made after this one freed slot 1, and decodes before it calls back.     *)
(***************************************************************************)

\* RkMppPeerCompletion under the lock.  A cookie that is not in the slot is
\* stale and dropped; the orphan flag and the pin are not looked at.
PeerCompletion ==
    /\ pc["peer"] = "idle"
    /\ \E j \in atPeer, s \in IF "error" \in Env THEN {"ok", "error", "timeout"} ELSE {"ok"} :
          /\ atPeer' = atPeer \ {j}
          /\ \/ /\ q.InFlight[1] # j
                /\ UNCHANGED <<q, job, cur, pc>>
             \/ /\ q.InFlight[1] = j
                /\ q' = [ReleaseSlot(q, 1) EXCEPT !.Completed = @ \cup {j}]
                /\ job' = [job EXCEPT ![j].Result = s]
                /\ cur' = [cur EXCEPT !["peer"] = j]
                /\ Goto("peer", IF q.Pending # {} THEN "signalKick" ELSE "signal")
    /\ UNCHANGED <<nextId, devVars, hwVars, work, fileVars, arg, promos>>

\* KeSetEvent after the unlock; then the worker, if Pending was not empty.
PeerCompletionSignal ==
    /\ pc["peer"] \in {"signal", "signalKick"}
    /\ job' = [job EXCEPT ![cur["peer"]].Done = TRUE]
    /\ cur' = [cur EXCEPT !["peer"] = NoJob]
    /\ Goto("peer", IF pc["peer"] = "signalKick" THEN "arm" ELSE "idle")
    /\ UNCHANGED <<q, nextId, devVars, hwVars, work, atPeer, fileVars, arg, promos>>

\* RVD1 gave a kick up without calling back.
PeerDrop ==
    /\ "peerDrops" \in Env
    /\ \E j \in atPeer : atPeer' = atPeer \ {j}
    /\ UNCHANGED <<q, job, nextId, devVars, hwVars, work, fileVars, pc, ctlVars>>

\* RkMppPeerArrival: a second core.  Nothing is promoted to it here.
PeerArrival ==
    /\ "peer" \in Env
    /\ pc["pnp"] = "idle"
    /\ ~q.PeerOpen
    /\ q' = [q EXCEPT !.PeerOpen = TRUE, !.CoreCount = 2, !.CoreIdle = @ \cup {1},
                      !.CorePending[1] = 0]
    /\ UNCHANGED <<job, nextId, devVars, hwVars, work, atPeer, fileVars, pc, ctlVars>>

\* RkMppDetachPeer under the lock: back to one core.  A job on the peer keeps
\* its slot and is waited for, without a pin.
DetachPeer ==
    /\ "peerDetach" \in Env
    /\ pc["pnp"] = "idle"
    /\ q.PeerOpen
    /\ q' = [q EXCEPT !.PeerOpen = FALSE, !.CoreCount = 1, !.CoreIdle = @ \cap {0},
                      !.CorePending[1] = 0]
    /\ cur' = [cur EXCEPT !["pnp"] = q.InFlight[1]]
    /\ Goto("pnp", IF q.InFlight[1] # NoJob THEN "wait1" ELSE "idle")
    /\ UNCHANGED <<job, nextId, devVars, hwVars, work, atPeer, fileVars, arg, promos>>

\* RkMppOnMasterIommuQueryRemove: no more requests; then, core by core, a job
\* in flight is looked up under the lock and waited for, without a pin.
MasterIommuQueryRemove ==
    /\ "iommuGone" \in Env
    /\ pc["pnp"] = "idle"
    /\ attached
    /\ attached' = FALSE
    /\ Goto("pnp", "probe0")
    /\ UNCHANGED <<q, job, nextId, needsCore, needsFull, mmio, hwVars, work, atPeer, fileVars,
                   ctlVars>>

QueryRemoveProbe(c) ==
    /\ pc["pnp"] = IF c = 0 THEN "probe0" ELSE "probe1"
    /\ cur' = [cur EXCEPT !["pnp"] = q.InFlight[c]]
    /\ Goto("pnp", IF q.InFlight[c] # NoJob THEN (IF c = 0 THEN "wait0" ELSE "wait1")
                   ELSE (IF c = 0 THEN "probe1" ELSE "idle"))
    /\ UNCHANGED <<q, job, nextId, devVars, hwVars, work, atPeer, fileVars, arg, promos>>

\* Such a 500 ms wait ends, signalled or not.
UnpinnedWaitEnds ==
    /\ pc["pnp"] \in {"wait0", "wait1"}
    /\ cur' = [cur EXCEPT !["pnp"] = NoJob]
    /\ Goto("pnp", IF pc["pnp"] = "wait0" THEN "probe1" ELSE "idle")
    /\ UNCHANGED <<q, job, nextId, devVars, hwVars, work, atPeer, fileVars, arg, promos>>

-----------------------------------------------------------------------------
ThreadStep(t) ==
    \/ AllocBuffer(t) \/ FreeBuffer(t)
    \/ SubmitAlloc(t) \/ SubmitBusy(t) \/ SubmitEnqueue(t) \/ SubmitReturn(t)
    \/ \E j \in JobId : WaitTake(t, j) \/ WaitPin(t, j)
    \/ WaitTakeFree(t) \/ WaitDone(t) \/ WaitTimeout(t)
    \/ CloseUnused(t) \/ DrainSweep(t) \/ DrainPin(t) \/ DrainEmpty(t)
    \/ DrainDone(t) \/ DrainTimeout(t)
    \/ CleanupFreeBuffers(t) \/ CleanupDecide(t) \/ CleanupPowerCycle(t)

KickStep(a) ==
    \/ KickDone(a) \/ KickReset(a) \/ KickStart(a)
    \/ KickPeerCheck(a) \/ KickPeerCall(a) \/ PeerFailSignal(a)

CompleteStep(a) == JobComplete(a) \/ JobCompleteGate(a) \/ EnqueueKickWorker(a)

WorkerStep == KickWorkerStart \/ KickWorkerExit \/ KickWorkerPass

PeerStep == PeerCompletion \/ PeerCompletionSignal

PnpStep ==
    \/ PeerArrival \/ DetachPeer \/ UnpinnedWaitEnds
    \/ MasterIommuQueryRemove \/ \E c \in Cores : QueryRemoveProbe(c)

\* The job ids of this instance are used up and every agent is at rest.
Quiescent ==
    /\ nextId = MaxJobs \/ closed = Files \/ ~attached
    /\ \A a \in Agents : pc[a] = "idle"
    /\ UNCHANGED vars

Next ==
    \/ \E t \in Threads : ThreadStep(t)
    \/ \E a \in Agents : KickStep(a) \/ CompleteStep(a)
    \/ EvtIsr \/ EvtDpc \/ WorkerStep
    \/ PeerStep \/ PeerDrop \/ PnpStep
    \/ Quiescent

Spec == Init /\ [][Next]_vars

(***************************************************************************)
(* Fairness: threads and work items are scheduled, queued DPCs run, and a  *)
(* codec that was started raises its interrupt (a stalled one through its  *)
(* watchdog).  Nothing obliges a user to make or to abandon a request, so  *)
(* the steps that begin one and the timeouts carry no fairness.            *)
(***************************************************************************)
RequestProgress(t) ==
    \/ SubmitBusy(t) \/ SubmitEnqueue(t) \/ SubmitReturn(t)
    \/ WaitTakeFree(t) \/ WaitDone(t)
    \/ DrainPin(t) \/ DrainEmpty(t) \/ DrainDone(t)
    \/ CleanupFreeBuffers(t) \/ CleanupDecide(t) \/ CleanupPowerCycle(t)

Fairness ==
    /\ \A t \in Threads : WF_vars(RequestProgress(t))
    /\ \A a \in Agents : WF_vars(KickStep(a) \/ CompleteStep(a))
    /\ WF_vars(EvtIsr) /\ WF_vars(EvtDpc)
    /\ WF_vars(WorkerStep) /\ WF_vars(PeerStep)

FairSpec == Spec /\ Fairness

-----------------------------------------------------------------------------
(***************************************************************************)
(* Properties.                                                             *)
(***************************************************************************)

\* The jobs that a list or a slot of the queue links to.
Queued == q.Pending \cup q.Completed \cup ({q.InFlight[c] : c \in Cores} \ {NoJob})

\* No job is freed while the queue links to it or an agent is about to
\* dereference it (WaiterPin, OrphanOnComplete and the reap rules of
\* RkMppJobWait, RkMppJobsDrainOwner and RkMppJobComplete).
NoUseAfterFree == ~Bugcheck /\ \A j \in Queued : job[j].mem = "alloc"

\* Every job that is allocated is on exactly one list or in one slot, or is
\* held by the one thread that allocated it or took it off Completed: no job
\* is lost (leaked) and none is linked twice.
OnePlace ==
    \A j \in JobId :
        Cardinality({c \in Cores : q.InFlight[c] = j})
        + (IF j \in q.Pending THEN 1 ELSE 0) + (IF j \in q.Completed THEN 1 ELSE 0)
        + Cardinality({t \in Threads : cur[t] = j /\ pc[t] \in {"enqueue", "take"}})
        = IF job[j].mem = "alloc" THEN 1 ELSE 0

\* CoreIdle, CorePending and InFlightPerCore agree on every core in use, and
\* an in-flight job knows its core: RkMppJobComplete trusts TargetCore.
SlotsAgree ==
    \A c \in VisibleCores(q) :
        LET j == q.InFlight[c] IN
        /\ c \in q.CoreIdle <=> j = NoJob
        /\ q.CorePending[c] = IF j = NoJob THEN 0 ELSE 1
        /\ j # NoJob => job[j].TargetCore = c

\* Agent a has taken on itself to kick core 0.
KickingCore0(a) ==
    pc[a] \in {"kick", "kickStart", "peerCall", "peerFailed", "complete", "gate", "arm"}
    /\ \E i \in DOMAIN promos[a] : promos[a][i].core = 0

\* What is driving the job in slot 0 to its end.
Drivers ==
    {a \in Agents : KickingCore0(a)}
    \cup {a \in Agents : pc[a] = "complete"}
    \cup (IF hwJob # NoJob THEN {"codec"} ELSE {})
    \cup (IF isr # "none" THEN {"interrupt"} ELSE {})

\* At most one activity drives core 0 at a time, and only for the job that is
\* in its slot: the codec is never started twice, and an interrupt never
\* completes a job other than the one that raised it.
OneDriver ==
    /\ Cardinality(Drivers) <= 1
    /\ Drivers # {} => q.InFlight[0] # NoJob
    /\ hwJob # NoJob => hwJob = q.InFlight[0]

\* A job in slot 0 is always on its way to completion.
NeverStranded == q.InFlight[0] # NoJob => Drivers # {}

\* The KickActive / KickRearm protocol: KickActive says exactly that a run of
\* the worker is queued or going on, and a rearm always meets one.
KickProtocol ==
    /\ q.KickActive <=> (work \/ pc["worker"] # "idle")
    /\ work => pc["worker"] = "idle"
    /\ q.KickRearm => q.KickActive

\* Work conservation: while a job is pending and core 0 is idle, a pass of the
\* worker is owed.
NoLostKick ==
    q.Pending # {} /\ 0 \in q.CoreIdle =>
        q.KickRearm \/ \E a \in Agents : pc[a] = "arm"

\* Job j is being kicked, or the codec or RVD1 works on it: its buffers are
\* read and written.
UsesBuffers(j) ==
    \/ hwJob = j \/ j \in atPeer
    \/ \E a \in Agents : pc[a] \in {"kick", "kickStart", "peerCall"}
                          /\ promos[a] # <<>> /\ Head(promos[a]).job = j

\* A job in use keeps its buffers: FREE_BUFFER refuses them
\* (RkMppJobBufferInUse), and the cleanup of its file takes them away only
\* from a job its drain has waited for and given up.
BuffersHeld ==
    \A j \in JobId :
        UsesBuffers(j) => \/ job[j].Owner \in mapped
                          \/ job[j].OrphanOnComplete /\ job[j].Owner \in closed

\* No buffer is ever taken away under the codec, the drain's timeout included.
QuietBeforeUnmap == \A j \in JobId : UsesBuffers(j) => job[j].Owner \in mapped

\* An abandoned job is not left on Completed, where nobody would look for it,
\* unless a waiter that will reap it still holds a pin.
OrphansReaped ==
    \A j \in q.Completed : job[j].OrphanOnComplete => job[j].WaiterPin > 0

\* The codec's clocks are never gated while it is decoding.
ClocksRun == hwJob # NoJob => ~gated

\* The two admission limits of SUBMIT_DENSE_JOB.
AdmissionBound ==
    /\ PendingCount(q) <= MaxPendingJobs
    /\ \A f \in Files : OwnerCount(q, Owner, f) <= MaxPendingPerFile

\* Every submitted job is finished, or given up by its owner.
JobsFinish ==
    \A j \in JobId : (job[j].mem = "alloc") ~> (job[j].Done \/ job[j].mem = "freed")

\* Every WAIT_JOB and every file cleanup returns.
RequestsReturn ==
    \A t \in Threads : pc[t] # "idle" ~> pc[t] = "idle"
=============================================================================
