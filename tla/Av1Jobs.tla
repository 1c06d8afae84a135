------------------------------ MODULE Av1Jobs ------------------------------
(***************************************************************************)
(* The job engine of the AV1 codec (driver/rkav1d/job.c), with the IOCTLs  *)
(* that reach it, EvtFileCleanup and the D0 entry and exit paths of        *)
(* driver/rkav1d/device.c.  One core, one queue, and no watchdog: a job    *)
(* leaves InFlight only through the interrupt.                             *)
(*                                                                         *)
(* Agents: one thread per file (handles are opened for synchronous I/O, so *)
(* a file has one request at a time and its cleanup follows the last one), *)
(* the kick worker, the DPC and the power thread.  A step is one hold of   *)
(* Queue->Lock or one access outside of it.                                *)
(*                                                                         *)
(* The framework is modelled as the code counts on it: requests reach the  *)
(* default queue, which is power managed, in D0 only, D0Exit runs when     *)
(* none is in progress, and the interrupt is disconnected around it.       *)
(*                                                                         *)
(* A register is zero or not; a job's writes are the registers it sets to  *)
(* a non-zero value, every other one being absent from its list.           *)
(***************************************************************************)
EXTENDS Naturals, Sequences, SequencesExt, FiniteSets

CONSTANTS
  Files,               \* file objects, each the thread that has it open
  MaxJobs,             \* job ids handed out
  Regs,                \* registers a job may or may not program
  MaxPendingJobs,      \* RKMPP_MAX_PENDING_JOBS: 8
  MaxPendingPerFile,   \* RKMPP_MAX_PENDING_JOBS_PER_FILE: 4
  MaxCycles,           \* D0 exits
  Faults               \* the decode may end in an error

ASSUME Av1Assumption ==
  /\ MaxJobs \in Nat /\ MaxCycles \in Nat /\ Faults \in BOOLEAN
  /\ MaxPendingJobs \in Nat \ {0} /\ MaxPendingPerFile \in Nat \ {0}
  /\ Files \cap {"worker", "dpc", "power"} = {}

VARIABLES
  q,           \* RKMPP_JOB_QUEUE
  job,         \* id -> RKMPP_JOB
  nextId,      \* RKMPP_JOB_QUEUE.NextId
  needsReset,  \* RKMPP_DEVICE.NeedsCoreReset
  prevMask,    \* RKMPP_JOB_QUEUE.PrevNonzeroMask
  hw,          \* the codec: job decoding, status register, non-zero registers
  ran,         \* id -> how the codec ended that job
  irq,         \* the interrupt: connected, and the status of a queued DPC
  work,        \* KickWorkItem is queued
  gated,       \* the AV1 clocks are gated
  cycles,      \* D0 exits so far
  mapped,      \* files with buffers allocated and mapped
  closed,      \* files whose cleanup has begun
  failed,      \* WdfDeviceSetFailed, or a D0 entry that failed
  errs,        \* file -> RKMPP_FILE_CTX.ErrorCount is not zero
  pc, cur, arg \* agent -> where it is, the job pointer and value it carries

qVars    == <<q, job, nextId, work>>
hwVars   == <<hw, ran, irq>>
regVars  == <<needsReset, prevMask>>
pwrVars  == <<gated, cycles, failed>>
fileVars == <<mapped, closed, errs>>
ctl      == <<pc, cur, arg>>
vars     == <<qVars, hwVars, regVars, pwrVars, fileVars, ctl>>

JobId  == 1 .. MaxJobs
NoJob  == 0
Agents == Files \cup {"worker", "dpc", "power"}

QueueInit ==
  [InFlight |-> NoJob, Pending |-> <<>>, Completed |-> {},
   Draining |-> FALSE, KickRearm |-> FALSE, KickActive |-> FALSE]

NewJob(f, w) == [mem |-> "alloc", Owner |-> f, writes |-> w, WaiterPin |-> 0,
                 Orphan |-> FALSE, Done |-> FALSE, Result |-> "unset"]
NoRecord == [mem |-> "none"]
Freed    == [mem |-> "freed"]

Init ==
  /\ q = QueueInit
  /\ job = [j \in JobId |-> NoRecord]
  /\ nextId = 0 /\ work = FALSE
  /\ needsReset = TRUE /\ prevMask = {}
  /\ hw = [job |-> NoJob, sta |-> "none", regs |-> {}]
  /\ ran = [j \in JobId |-> "unset"]
  /\ irq = [on |-> TRUE, dpc |-> "none"]
  /\ gated = FALSE /\ cycles = 0 /\ failed = FALSE
  /\ mapped = {} /\ closed = {} /\ errs = [f \in Files |-> FALSE]
  /\ pc = [a \in Agents |-> IF a = "power" THEN "d0" ELSE "idle"]
  /\ cur = [a \in Agents |-> NoJob]
  /\ arg = [a \in Agents |-> FALSE]

Goto(a, l)         == pc' = [pc EXCEPT ![a] = l]
GotoWith(a, l, j)  == Goto(a, l) /\ cur' = [cur EXCEPT ![a] = j]
Alloced            == {j \in JobId : job[j].mem = "alloc"}
OwnedBy(f)         == {j \in Alloced : job[j].Owner = f}
InPending          == ToSet(q.Pending)
Free(js, jb)       == [j \in JobId |-> IF j \in js THEN Freed ELSE jb[j]]

\* RemoveEntryList of every job of js.
Without(s, js) ==
  LET kept[i \in 0 .. Len(s)] ==
        IF i = 0 THEN <<>>
        ELSE IF s[i] \in js THEN kept[i - 1] ELSE Append(kept[i - 1], s[i])
  IN kept[Len(s)]

-----------------------------------------------------------------------------
(* Starting a job: RkMppJobStart, and who promotes one.                    *)

\* A promotion under the lock; the caller then calls JobStart.
Promoted(qq) == [qq EXCEPT !.InFlight = Head(qq.Pending), !.Pending = Tail(@)]
CanPromote(qq) == qq.InFlight = NoJob /\ qq.Pending # <<>>

\* The diff write: a register is written if the job names it or the previous
\* kick left it non-zero; any other keeps what the hardware holds.
DiffWrite(held, mask, writes) == (held \ mask) \cup writes

\* RkMppJobStart on a mapped window.  After a failure the mask is dropped, and
\* the hardware is not reset.  Offsets were range-checked at submit.
JobStart(a, next) ==
  /\ pc[a] = "start"
  /\ LET j    == cur[a]
         mask == IF needsReset THEN {} ELSE prevMask
     IN /\ hw' = [job |-> j, sta |-> "none",
                  regs |-> DiffWrite(hw.regs, mask, job[j].writes)]
        /\ prevMask' = job[j].writes
  /\ needsReset' = FALSE
  /\ GotoWith(a, next, NoJob)
  /\ UNCHANGED <<qVars, ran, irq, pwrVars, fileVars, arg>>

\* Mutant: the worker promotes without looking at Draining.
KickWorkerTurnBlind ==
  /\ pc["worker"] = "loop"
  /\ IF ~q.KickRearm
       THEN q' = [q EXCEPT !.KickActive = FALSE] /\ GotoWith("worker", "idle", NoJob)
       ELSE LET qq == [q EXCEPT !.KickRearm = FALSE]
            IN IF CanPromote(qq)
                 THEN q' = Promoted(qq) /\ GotoWith("worker", "start", Head(qq.Pending))
                 ELSE q' = qq /\ UNCHANGED <<pc, cur>>
  /\ UNCHANGED <<job, nextId, work, hwVars, regVars, pwrVars, fileVars, arg>>

\* The work item runs RkMppKickWorker.
KickWorkerBegin ==
  /\ pc["worker"] = "idle" /\ work
  /\ work' = FALSE /\ Goto("worker", "loop")
  /\ UNCHANGED <<q, job, nextId, hwVars, regVars, pwrVars, fileVars, cur, arg>>

\* RkMppKickWorker: one turn of its loop under the lock.
KickWorkerTurn ==
  /\ pc["worker"] = "loop"
  /\ IF ~q.KickRearm
       THEN q' = [q EXCEPT !.KickActive = FALSE] /\ GotoWith("worker", "idle", NoJob)
       ELSE LET qq == [q EXCEPT !.KickRearm = FALSE]
            IN IF ~qq.Draining /\ CanPromote(qq)
                 THEN q' = Promoted(qq) /\ GotoWith("worker", "start", Head(qq.Pending))
                 ELSE q' = qq /\ UNCHANGED <<pc, cur>>
  /\ UNCHANGED <<job, nextId, work, hwVars, regVars, pwrVars, fileVars, arg>>

\* Mutant: the re-arm is set only when the item is queued.
EnqueueKickWorkerOnce(a, next) ==
  /\ pc[a] = "enqueue"
  /\ q' = (IF q.KickActive THEN q ELSE [q EXCEPT !.KickRearm = TRUE, !.KickActive = TRUE])
  /\ work' = (work \/ ~q.KickActive)
  /\ Goto(a, next)
  /\ UNCHANGED <<job, nextId, hwVars, regVars, pwrVars, fileVars, cur, arg>>

\* RkMppEnqueueKickWorker
EnqueueKickWorker(a, next) ==
  /\ pc[a] = "enqueue"
  /\ q' = [q EXCEPT !.KickRearm = TRUE, !.KickActive = TRUE]
  /\ work' = (work \/ ~q.KickActive)
  /\ Goto(a, next)
  /\ UNCHANGED <<job, nextId, hwVars, regVars, pwrVars, fileVars, cur, arg>>

-----------------------------------------------------------------------------
(* The codec, its interrupt and the completion.                            *)

HwFinish(s) ==
  /\ hw.job # NoJob /\ ~gated /\ (s = "error" => Faults)
  /\ ran' = [ran EXCEPT ![hw.job] = s]
  /\ hw' = [hw EXCEPT !.job = NoJob, !.sta = s]
  /\ UNCHANGED <<qVars, irq, regVars, pwrVars, fileVars, ctl>>

\* Mutant: the status is read and left set.
EvtIsrNoClear ==
  /\ irq.on /\ hw.sta # "none"
  /\ irq' = [irq EXCEPT !.dpc = hw.sta]
  /\ UNCHANGED <<qVars, hw, ran, regVars, pwrVars, fileVars, ctl>>

\* RkMppEvtIsr: read and clear the status; a zero status is not ours.
EvtIsr ==
  /\ irq.on /\ hw.sta # "none"
  /\ irq' = [irq EXCEPT !.dpc = hw.sta]
  /\ hw' = [hw EXCEPT !.sta = "none"]
  /\ UNCHANGED <<qVars, ran, regVars, pwrVars, fileVars, ctl>>

\* Mutant: an orphan is freed whoever has it pinned.
FreeHereAlways(j) == job[j].Orphan

\* What RkMppJobComplete does to the queue and the job under the lock.
FreeHere(j)  == job[j].Orphan /\ job[j].WaiterPin = 0
Completing(j, r) ==
  /\ q' = [q EXCEPT !.InFlight = NoJob,
                    !.Completed = IF FreeHere(j) THEN @ ELSE @ \cup {j}]
  /\ job' = IF FreeHere(j)
              THEN Free({j}, job)
              ELSE [job EXCEPT ![j].Done = TRUE, ![j].Result = r]

\* RkMppEvtDpc and RkMppJobComplete: completes whatever is in flight.
EvtDpc ==
  /\ pc["dpc"] = "idle" /\ irq.dpc # "none"
  /\ irq' = [irq EXCEPT !.dpc = "none"]
  /\ LET j == q.InFlight  s == irq.dpc
     IN IF j = NoJob
          THEN UNCHANGED <<q, job, needsReset, errs, pc>>
          ELSE /\ Completing(j, s)
               /\ needsReset' = (needsReset \/ s = "error")
               /\ errs' = [errs EXCEPT ![job[j].Owner] = @ \/ s = "error"]
               /\ Goto("dpc", IF ~q.Draining /\ q.Pending # <<>> THEN "enqueue" ELSE "idle")
  /\ UNCHANGED <<nextId, work, hw, ran, prevMask, pwrVars, mapped, closed, cur, arg>>

-----------------------------------------------------------------------------
(* The IOCTLs: dispatched in D0, one at a time per file.                   *)

Ioctl(f) == pc[f] = "idle" /\ f \notin closed /\ pc["power"] = "d0" /\ ~failed

\* IOCTL_RKMPP_ALLOC_BUFFER, abstracted to the file's first allocation.
AllocBuffer(f) ==
  /\ Ioctl(f) /\ f \notin mapped
  /\ mapped' = mapped \cup {f}
  /\ UNCHANGED <<qVars, hwVars, regVars, pwrVars, closed, errs, ctl>>

\* RkMppJobBufferInUse: a job of this file anywhere on the queue references it.
BufferInUse(f) ==
  \E j \in {q.InFlight} \cup InPending \cup q.Completed :
    j # NoJob /\ job[j].Owner = f

\* IOCTL_RKMPP_FREE_BUFFER
FreeBuffer(f) ==
  /\ Ioctl(f) /\ f \in mapped /\ ~BufferInUse(f)
  /\ mapped' = mapped \ {f}
  /\ UNCHANGED <<qVars, hwVars, regVars, pwrVars, closed, errs, ctl>>

OwnerCount(f) == Cardinality({j \in InPending \cup ({q.InFlight} \ {NoJob}) : job[j].Owner = f})
Admitted(f)   == Len(q.Pending) < MaxPendingJobs /\ OwnerCount(f) < MaxPendingPerFile

\* RkMppJobSubmit of a list that passes validation.
Submit(f) ==
  /\ Ioctl(f) /\ f \in mapped /\ nextId < MaxJobs /\ Admitted(f)
  /\ nextId' = nextId + 1
  /\ \E w \in SUBSET Regs : job' = [job EXCEPT ![nextId'] = NewJob(f, w)]
  /\ IF q.InFlight = NoJob /\ ~q.Draining
       THEN q' = [q EXCEPT !.InFlight = nextId'] /\ GotoWith(f, "start", nextId')
       ELSE q' = [q EXCEPT !.Pending = Append(@, nextId')] /\ UNCHANGED <<pc, cur>>
  /\ UNCHANGED <<work, hwVars, regVars, pwrVars, fileVars, arg>>

\* RkMppJobSubmit turned away: the new block is freed, its id is used up.
SubmitBusy(f) ==
  /\ Ioctl(f) /\ f \in mapped /\ nextId < MaxJobs /\ ~Admitted(f)
  /\ nextId' = nextId + 1
  /\ UNCHANGED <<q, job, work, hwVars, regVars, pwrVars, fileVars, ctl>>

\* RkMppJobWait: reap a completed job, or pin and wait.  Only the file's own
\* jobs are found.
WaitFind(f) ==
  /\ Ioctl(f)
  /\ \E j \in OwnedBy(f) :
       IF j \in q.Completed
         THEN /\ q' = [q EXCEPT !.Completed = @ \ {j}]
              /\ job' = Free({j}, job)
              /\ UNCHANGED <<pc, cur>>
         ELSE /\ job' = [job EXCEPT ![j].WaiterPin = @ + 1]
              /\ GotoWith(f, "wait", j) /\ UNCHANGED q
  /\ UNCHANGED <<nextId, work, hwVars, regVars, pwrVars, fileVars, arg>>

\* KeWaitForSingleObject on Done: satisfied, or out of time.
WaitTimeout(f) ==
  /\ pc[f] = "wait" /\ ~job[cur[f]].Done
  /\ Goto(f, "waitTimeout")
  /\ UNCHANGED <<qVars, hwVars, regVars, pwrVars, fileVars, cur, arg>>

Reap(f, j) ==
  /\ q' = [q EXCEPT !.Completed = @ \ {j}, !.Pending = Without(@, {j})]
  /\ job' = Free({j}, job)

WaitDone(f) ==
  /\ pc[f] = "wait" /\ job[cur[f]].Done
  /\ LET j == cur[f]
     IN IF job[j].WaiterPin = 1
          THEN Reap(f, j)
          ELSE job' = [job EXCEPT ![j].WaiterPin = @ - 1] /\ UNCHANGED q
  /\ GotoWith(f, "idle", NoJob)
  /\ UNCHANGED <<nextId, work, hwVars, regVars, pwrVars, fileVars, arg>>

\* The last pin's timeout: an in-flight job stays attached, to be freed by its
\* completion.
WaitGiveUp(f) ==
  /\ pc[f] = "waitTimeout"
  /\ LET j == cur[f]
     IN IF job[j].WaiterPin > 1
          THEN job' = [job EXCEPT ![j].WaiterPin = @ - 1] /\ UNCHANGED q
          ELSE IF j \in InPending \cup q.Completed
                 THEN Reap(f, j)
                 ELSE /\ job' = [job EXCEPT ![j].WaiterPin = 0, ![j].Orphan = TRUE]
                      /\ UNCHANGED q
  /\ GotoWith(f, "idle", NoJob)
  /\ UNCHANGED <<nextId, work, hwVars, regVars, pwrVars, fileVars, arg>>

-----------------------------------------------------------------------------
(* RkMppEvtFileCleanup, with RkMppJobsDrainOwner.                          *)

\* Some agent is between promoting the in-flight job and kicking it.
Starting == \E a \in Agents : pc[a] = "start"

\* A wait of 500 ms runs out only when the kick has long been written.
OutOfTime(j) == ~job[j].Done /\ ~Starting

\* Phase 1: own pending and completed jobs go; the in-flight one is pinned.
DrainOwner(f) ==
  /\ pc[f] = "idle" /\ f \in mapped \ closed
  /\ closed' = closed \cup {f}
  /\ LET mine == {j \in InPending \cup q.Completed : job[j].Owner = f}
         ours == q.InFlight # NoJob /\ job[q.InFlight].Owner = f
     IN /\ q' = [q EXCEPT !.Pending = Without(@, mine), !.Completed = @ \ mine]
        /\ IF ours
             THEN /\ job' = [Free(mine, job) EXCEPT ![q.InFlight].WaiterPin = @ + 1]
                  /\ GotoWith(f, "drainWait", q.InFlight)
             ELSE job' = Free(mine, job) /\ GotoWith(f, "decide", NoJob)
  /\ UNCHANGED <<nextId, work, hwVars, regVars, pwrVars, mapped, errs, arg>>

DrainTimeout(f) ==
  /\ pc[f] = "drainWait" /\ OutOfTime(cur[f])
  /\ Goto(f, "drainEnd") /\ arg' = [arg EXCEPT ![f] = TRUE]
  /\ UNCHANGED <<qVars, hwVars, regVars, pwrVars, fileVars, cur>>

\* The unified section after the wait: unpin, mark the orphan, reap.
DrainEnd(f) ==
  /\ \/ pc[f] = "drainWait" /\ job[cur[f]].Done
     \/ pc[f] = "drainEnd"
  /\ LET j    == cur[f]
         left == [job EXCEPT ![j].WaiterPin = @ - 1,
                             ![j].Orphan = @ \/ (arg[f] /\ q.InFlight = j)]
         mine == {c \in q.Completed : left[c].Owner = f /\ left[c].WaiterPin = 0}
     IN /\ q' = [q EXCEPT !.Completed = @ \ mine]
        /\ job' = Free(mine, left)
  /\ needsReset' = (needsReset \/ arg[f])
  /\ GotoWith(f, "decide", NoJob)
  /\ UNCHANGED <<nextId, work, hwVars, prevMask, pwrVars, fileVars, arg>>

\* Tier choice.  After a timeout FullAv1Reset stops the codec and clears its
\* registers, and the device is failed for a restart.
CleanupDecide(f) ==
  /\ pc[f] = "decide"
  /\ IF arg[f]
       THEN /\ hw' = [job |-> NoJob, sta |-> "none", regs |-> {}]
            /\ failed' = TRUE
       ELSE UNCHANGED <<hw, failed>>
  /\ needsReset' = (needsReset \/ arg[f] \/ errs[f])
  /\ errs' = [errs EXCEPT ![f] = FALSE]
  /\ Goto(f, "others") /\ arg' = [arg EXCEPT ![f] = FALSE]
  /\ UNCHANGED <<qVars, ran, irq, prevMask, gated, cycles, mapped, closed, cur>>

\* RkMppJobQueueHasOtherOwner
HasOtherOwner(f) ==
  \E j \in InPending \cup ({q.InFlight} \ {NoJob}) : job[j].Owner # f

CleanupOthers(f) ==
  /\ pc[f] = "others"
  /\ arg' = [arg EXCEPT ![f] = HasOtherOwner(f)] /\ Goto(f, "freeAll")
  /\ UNCHANGED <<qVars, hwVars, regVars, pwrVars, fileVars, cur>>

\* RkMppBufFreeAll, then Reattach when nobody else was active, otherwise the
\* flag for the peer's next kick.
CleanupFreeAll(f) ==
  /\ pc[f] = "freeAll"
  /\ mapped' = mapped \ {f}
  /\ needsReset' = (needsReset \/ arg[f])
  /\ Goto(f, "idle") /\ arg' = [arg EXCEPT ![f] = FALSE]
  /\ UNCHANGED <<qVars, hwVars, prevMask, pwrVars, closed, errs, cur>>

-----------------------------------------------------------------------------
(* RkMppEvtD0Exit and RkMppEvtD0Entry.                                     *)

\* The framework stops the queue and disconnects the interrupt.
D0ExitBegin ==
  /\ pc["power"] = "d0" /\ cycles < MaxCycles /\ ~failed
  /\ \A f \in Files : pc[f] \notin {"start", "wait", "waitTimeout"}
  /\ pc["dpc"] = "idle" /\ irq.dpc = "none"
  /\ irq' = [irq EXCEPT !.on = FALSE] /\ cycles' = cycles + 1
  /\ Goto("power", "quiesce")
  /\ UNCHANGED <<qVars, hw, ran, regVars, gated, failed, fileVars, cur, arg>>

\* RkMppJobQueueQuiesce: the flag first, then the snapshot under the lock.
QuiesceFlag ==
  /\ pc["power"] = "quiesce"
  /\ q' = [q EXCEPT !.Draining = TRUE] /\ Goto("power", "snapshot")
  /\ UNCHANGED <<job, nextId, work, hwVars, regVars, pwrVars, fileVars, cur, arg>>

QuiesceSnapshot ==
  /\ pc["power"] = "snapshot"
  /\ GotoWith("power", IF q.InFlight = NoJob THEN "gate" ELSE "quiesceWait", q.InFlight)
  /\ UNCHANGED <<qVars, hwVars, regVars, pwrVars, fileVars, arg>>

QuiesceWait ==
  /\ pc["power"] = "quiesceWait"
  /\ job[cur["power"]].mem = "alloc" => job[cur["power"]].Done \/ OutOfTime(cur["power"])
  /\ GotoWith("power", "gate", NoJob)
  /\ UNCHANGED <<qVars, hwVars, regVars, pwrVars, fileVars, arg>>

\* Iommu.Disable and GateAv1LeafClocks; a decode under way survives or not.
D0ExitGate ==
  /\ pc["power"] = "gate"
  /\ gated' = TRUE /\ Goto("power", "d3")
  /\ hw' \in {hw, [hw EXCEPT !.job = NoJob]}
  /\ UNCHANGED <<qVars, ran, irq, regVars, cycles, failed, fileVars, cur, arg>>

\* UngateAv1LeafClocks and Iommu.Enable, whose NOT_READY is tolerated; any
\* other error fails the entry before Resume.
D0EntryUngate ==
  /\ pc["power"] = "d3"
  /\ gated' = FALSE
  /\ \/ Goto("power", "resume") /\ UNCHANGED failed
     \/ Faults /\ Goto("power", "off") /\ failed' = TRUE
  /\ UNCHANGED <<qVars, hwVars, regVars, cycles, fileVars, cur, arg>>

\* RkMppJobQueueResume
ResumeFlag ==
  /\ pc["power"] = "resume"
  /\ q' = [q EXCEPT !.Draining = FALSE] /\ Goto("power", "promote")
  /\ UNCHANGED <<job, nextId, work, hwVars, regVars, pwrVars, fileVars, cur, arg>>

ResumePromote ==
  /\ pc["power"] = "promote"
  /\ IF CanPromote(q)
       THEN q' = Promoted(q) /\ GotoWith("power", "start", Head(q.Pending))
       ELSE Goto("power", "connect") /\ UNCHANGED <<q, cur>>
  /\ UNCHANGED <<job, nextId, work, hwVars, regVars, pwrVars, fileVars, arg>>

D0Connect ==
  /\ pc["power"] = "connect"
  /\ irq' = [irq EXCEPT !.on = TRUE] /\ Goto("power", "d0")
  /\ UNCHANGED <<qVars, hw, ran, regVars, pwrVars, fileVars, cur, arg>>

-----------------------------------------------------------------------------
ThreadNext(f) ==
  \/ AllocBuffer(f) \/ FreeBuffer(f) \/ Submit(f) \/ SubmitBusy(f) \/ JobStart(f, "idle")
  \/ WaitFind(f) \/ WaitTimeout(f) \/ WaitDone(f) \/ WaitGiveUp(f)
  \/ DrainOwner(f) \/ DrainTimeout(f) \/ DrainEnd(f)
  \/ CleanupDecide(f) \/ CleanupOthers(f) \/ CleanupFreeAll(f)

SystemNext ==
  \/ KickWorkerBegin \/ KickWorkerTurn \/ JobStart("worker", "loop")
  \/ \E s \in {"ok", "error"} : HwFinish(s)
  \/ EvtIsr \/ EvtDpc \/ EnqueueKickWorker("dpc", "idle")

PowerNext ==
  \/ D0ExitBegin \/ QuiesceFlag \/ QuiesceSnapshot \/ QuiesceWait \/ D0ExitGate
  \/ D0EntryUngate \/ ResumeFlag \/ ResumePromote \/ JobStart("power", "connect")
  \/ D0Connect

Next == (\E f \in Files : ThreadNext(f)) \/ SystemNext \/ PowerNext

Spec == Init /\ [][Next]_vars
-----------------------------------------------------------------------------
(* Properties.                                                             *)

TypeOK ==
  /\ q.InFlight \in JobId \cup {NoJob} /\ q.Pending \in Seq(JobId)
  /\ q.Completed \subseteq JobId
  /\ q.Draining \in BOOLEAN /\ q.KickRearm \in BOOLEAN /\ q.KickActive \in BOOLEAN
  /\ \A j \in JobId : job[j].mem \in {"none", "alloc", "freed"}
  /\ \A j \in Alloced :
       /\ job[j].Owner \in Files /\ job[j].writes \subseteq Regs
       /\ job[j].WaiterPin \in 0 .. 1 /\ job[j].Orphan \in BOOLEAN
       /\ job[j].Done \in BOOLEAN /\ job[j].Result \in {"unset", "ok", "error"}
  /\ nextId \in 0 .. MaxJobs /\ work \in BOOLEAN
  /\ needsReset \in BOOLEAN /\ prevMask \subseteq Regs
  /\ hw \in [job : JobId \cup {NoJob}, sta : {"none", "ok", "error"}, regs : SUBSET Regs]
  /\ irq \in [on : BOOLEAN, dpc : {"none", "ok", "error"}]
  /\ gated \in BOOLEAN /\ failed \in BOOLEAN /\ cycles \in 0 .. MaxCycles
  /\ mapped \subseteq Files /\ closed \subseteq Files
  /\ cur \in [Agents -> JobId \cup {NoJob}] /\ arg \in [Agents -> BOOLEAN]

\* No thread holds a pointer to a freed job while it starts, waits for or drains
\* it (job.c takes WaiterPin for that; Quiesce takes none and leans on the
\* interrupt being disconnected).
NoUseAfterFree == \A a \in Agents : cur[a] # NoJob => job[cur[a]].mem = "alloc"

\* An allocated job is in flight, pending or completed, and in one of these
\* only; it is on Completed exactly when its Done event is set.
OnePlace ==
  LET fly == {q.InFlight} \ {NoJob}
  IN /\ fly \cup InPending \cup q.Completed = Alloced
     /\ fly \cap (InPending \cup q.Completed) = {} /\ InPending \cap q.Completed = {}
     /\ Len(q.Pending) = Cardinality(InPending)
     /\ \A j \in Alloced : job[j].Done <=> j \in q.Completed

\* The status a waiter will read is what the codec said of that very job: the
\* DPC completes whatever is in flight, and waits that time out, cleanups and
\* D0 cycles may come between the interrupt and it.
ResultIsOwn == \A j \in q.Completed : job[j].Result = ran[j]

\* Registers are programmed by one thread at a time, on an idle codec whose
\* clocks run: D0Exit and WAIT_JOB timeouts never let a second kick through.
KickSafe ==
  /\ Starting => ~gated /\ hw.job = NoJob
  /\ \A a, b \in Agents : pc[a] = "start" /\ pc[b] = "start" => a = b

\* Whatever the codec decodes, or will when promoted, has its buffers mapped:
\* the reason RkMppJobsDrainOwner exists.
BuffersHeld ==
  LET started == {cur[a] : a \in {x \in Agents : pc[x] = "start"}}
  IN \A j \in ({hw.job} \ {NoJob}) \cup started \cup InPending :
       job[j].mem = "alloc" /\ job[j].Owner \in mapped

\* When a file's cleanup is over, nothing of it is left but an in-flight job
\* whose completion frees it.
OrphansReaped ==
  \A f \in closed : pc[f] = "idle" =>
    \A j \in OwnedBy(f) : j = q.InFlight /\ job[j].Orphan

\* Work is never stranded: with the queue open, pending jobs behind an empty
\* slot have someone on the way who will promote one.
NeverStranded ==
  ~q.Draining /\ CanPromote(q) =>
    \/ pc["dpc"] = "enqueue" \/ pc["power"] = "promote"
    \/ q.KickRearm /\ (work \/ pc["worker"] \in {"loop", "start"})

\* The comment at job.c:640 says that dropping the mask makes the next kick
\* rewrite every register from scratch: a decode never sees a value an earlier
\* job left.
RegsFromScratch == hw.job # NoJob => hw.regs = job[hw.job].writes
=============================================================================
