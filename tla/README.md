# rkvdec in TLA+

A verification project for `rkvdec`, the RK3588 hardware video decoder for
Windows ARM64: a set of kernel drivers (`src/driver`) under a Media Foundation
Transform (`src/mft`).  The modules here model the parts of it where several
threads, interrupts and devices meet (the two job engines, the buffer pool, the IOMMU
drivers, the cluster controller) and, above them, the decode engines of the four
codecs and the transform that drives them.  TLC checks them on small instances; TLAPS
proves the theorems of the `*Proofs` modules for every value of the constants.

Contents: [the system](#the-system), [hard behaviours](#what-is-hard-here),
[modules](#modules-and-the-code), [runs](#runs), [fairness](#fairness),
[proofs](#proofs), [findings](#findings), [what is left out](#what-is-left-out),
[plan](#plan).

## The system

An application's decoder (`mft/dll`) parses a stream, keeps a decoded picture
buffer, builds a bank of registers per picture and hands it to the driver through
IOCTLs.  The driver `rkvdec.sys` has one device per codec core: RVD0 owns the job
queue, RVD1 lends its core to RVD0 through a kernel interface.  Buffers are mapped
for the codec by an IOMMU driver; clocks, resets and power domains belong to
`rkmpp_ccu.sys`.  AV1 has a core, a driver and an IOMMU driver of its own.

| component | state it keeps | operations | talks to | correct when |
|---|---|---|---|---|
| job engine, `rkvdec/job.c` | `Pending`, `Completed`, `InFlightPerCore`, `CoreIdle`, `CorePending`, `OwnerLru`, `KickActive`/`KickRearm`; per job `Done`, `Result`, `WaiterPin`, `OrphanOnComplete` | submit, promote, kick, ISR/DPC, complete, deferred kick worker, wait, drain, peer completion | IOMMU, CCU, RVD1, buffer pool | no job is freed under anybody, lost, or started twice; each one finishes; buffers in use stay mapped |
| file cleanup, `rkvdec/device.c` | `NeedsCoreReset`, `NeedsFullReset` | drain, free buffers, flag or perform a reset | job engine, CCU, IOMMU | a closing session harms no other one |
| peer attachment and PnP, `rkvdec/device.c` | `Peer`, `PeerOpen`, `CoreCount`, `IommuAttached` | arrival, detach, query-remove, prepare and release hardware | RVD1, IOMMU master | no call through an interface that is gone |
| IOCTL dispatch, `rkvdec/ioctl.c` | none | one case per IOCTL, on a parallel queue | all of the above | requests of one handle may overlap |
| RVD1's side, `rkvdec/peer_worker.c`, `RkMppJobRunForeign` | `CompletionCb`, the work items, RVD1's own queue | register, kick, run a foreign job, call back | RVD0 | every accepted kick runs once and is answered once, with its own outcome |
| buffer pool, `shared/rkmpp/bufpool.c` | per file: list, `AllocatedBytes`, `BufferCount`, `Device`; globally `g_totalAllocatedBytes`, `g_nextCookie` | allocate in stages, free if not in use, free all | IOMMU, memory manager | quotas hold, nothing leaks or is freed twice |
| page tables, `shared/iommu/pgtable.c` | start/end bitmaps of the iova space, PTEs, domain lock | map and unmap an MDL with rollback | IOMMU drivers | unmap removes exactly what the map made |
| `rkiommu_vdec` | per instance `PagingEnabled`, `PtAttached`, `Tearing`, consumers; master and slave share a table | enable, disable, reattach, force-reset, flush, fault injection, attach/detach cascade | codec drivers | never enabled without a table; TLBs flushed before pages are reused |
| `rkiommu_av1d` | the same without sharing | the same | AV1 driver | the same |
| `rkmpp_ccu` | cluster reference count, power domain and clock state | raise and lower the cluster, reset a core, gate clocks | PMU/CRU registers | power off only when nobody uses the cluster |
| `rkav1d` | a single-core queue, the mask of registers it believes non-zero | submit, kick, ISR/DPC, wait, drain, D0 entry and exit | its IOMMU, CCU | as the job engine |
| DPB, `mft/dpb.cpp`, `mft/vp9_dpb.cpp` | slots with reference marks, holds (reorder, ready, consumer) and epochs | select, complete, fail, hold, transfer, release, flush | decode engine | the codec never writes a slot that is referenced or held |
| decode engines, `mft/engine` | `reorder_q`, `ready_q`, `wait_for_idr`, parser state | submit, bump, poll, drain, flush | DPB, driver | frames leave in display order, once |
| decoder MFT, `mft/dll` | `stream_epoch_`, `draining_`, VP9 output queue, types | ProcessInput, ProcessOutput, ProcessMessage | engines, Media Foundation | no frame of an old epoch after a flush; a drain ends |
| parsers, register builders | tables | parse, pack | engines | data only |

Interactions that matter to the models: an IOCTL thread enters the queue lock, may
promote jobs and kicks them after the unlock; a kick of core 0 writes RVD0's
registers, a kick of core 1 calls RVD1's `KickJob`; an interrupt's DPC completes
the job in slot 0, and hands the next promotion to a work item so that no kick
happens at DISPATCH_LEVEL; RVD1 answers from a system worker thread through
`RkMppPeerCompletion`; a closing handle drains its jobs, frees its buffers and
resets the codec.

## What is hard here

`PROJECT.json` lists the hazards, each at its line.  In short:

* **who frees a job** when a wait times out, a drain gives up and a completion
  arrives in any order;
* **decisions that outlive the lock**: the clock gate, `HasOtherOwner`, `PeerOpen`,
  an event pointer without a pin, `Done` set after a job is published;
* **coalesced wake-ups**: `KickActive` and `KickRearm` against the worker's exit;
* **two time limits for one decode** on RVD1: 100 ms in software, seconds in the
  codec;
* **failures inside a sequence**: a kick that fails inside the kick loop, a buffer
  whose fourth resource cannot be had, an IOMMU that does not come back after a
  reset;
* **quotas** tested and taken by racing threads;
* **lazily initialised contexts** on a parallel queue;
* **one pool of pictures for three purposes**: references, frames that wait for
  output, frames a consumer reads, with marks, holds and epochs that must agree
  across reordering, frame_num wrap, failed decodes and seeks;
* **back-pressure against reordering**: the queue that is full may be the one that
  only more input can empty;
* **shared power**: three clients, two of them below the same domains, raise, drop,
  reset and gate registers that others depend on;
* **translations that outlive their pages**: two MMUs over one table, lazily enabled,
  wiped by power cycles, attached and removed by PnP in any order;
* **belief and hardware**: `PagingEnabled`, `PrevNonzeroMask`, `prob_ctx_valid` and
  `dpb_to_pool` each say something of the hardware that a failure may make untrue;
* **a lock given up in the middle**: ProcessInput around Submit.

## Modules and the code

| module | models | extends / instantiates |
|---|---|---|
| `JobQueueOps` | the queue record and its pure operators: `PickPendingByOwnerLru`, `PickTargetCore`, `PromoteUntilFull`, `RkMppJobBufferInUse`, `RkMppJobQueueHasOtherOwner` | |
| `RkvdecJobs` | the job engine of RVD0 with file cleanup, peer attachment and the IOMMU's withdrawal | `JobQueueOps` |
| `PeerContract` | abstract: what RVD1 promises RVD0 | |
| `PeerWorker` | RVD1: work items, `RkMppJobRunForeign`, codec, DPC, attach/detach | `PeerContract` (refinement) |
| `BufferPool` | ALLOC_BUFFER, FREE_BUFFER and the freeing at close | |
| `DpbOps` | `mft/dpb.cpp` as operators on a DPB value: holds, sliding window, MMCO, RPS, slot choice, reference lists | |
| `DecodeEngine` | `mft/engine/decode_engine.cpp` for H.264 and H.265: submit, reorder, poll, release, drain, flush | `DpbOps` |
| `CcuCluster` | `rkmpp_ccu`: raise, drop and reset of the two clusters, PMU handshakes, leaf clocks; the calls of the three codec devices | |
| `IovaOps` | `pgtable.c` as operators on a domain: bitmaps, ranges, map with rollback, unmap | |
| `Rkiommu` | `rkiommu_vdec` (master and slave) and `rkiommu_av1d`, with the codec drivers' calls | `IovaOps` |
| `Av1Jobs` | `rkav1d`: queue, kick worker, register diff, interrupt, wait, drain, cleanup, D0 cycle | |
| `Vp9Ops`, `Av1Ops` | the VP9 and AV1 engines as operators on an engine value | |
| `DecoderMft` | the transform: types, messages, ProcessInput, ProcessOutput, over each engine | `Vp9Ops`, `Av1Ops` |
| `RkvdecJobsProofs`, `PeerWorkerProofs`, `BufferPoolProofs`, `RkiommuProofs`, `Av1JobsProofs`, `CcuClusterProofs`, `DecodeEngineProofs`, `DecoderMftProofs` | theorems | the module of the same name |
| `MCJobs`, `MCPeer`, `MCPool`, `MCEngine`, `MCCcu`, `MCIommu`, `MCAv1`, `MCMft` | instances for TLC | |

**Granularity.**  A step is what an agent does between two points where another
can interfere: one hold of a spin lock, or one access outside of it.  So
`RkMppJobComplete` is `JobComplete` (its lock hold), `JobCompleteGate` (the clock
gate after the unlock) and `EnqueueKickWorker`; `RkMppJobsDrainOwner` is
`DrainSweep`, `DrainPin` and `DrainDone`/`DrainTimeout`, its three lock holds.

**RkvdecJobs.**  `q` is `RKMPP_JOB_QUEUE`, `job[j]` the `RKMPP_JOB` with id `j`
(memory included: `mem` says whether the pool block is allocated).  `pc`, `cur`,
`arg` and `promos` are the locals of each agent: user threads, the kick worker, the
DPC, RVD1's calling thread and the PnP thread.  `hwJob`, `gated` and `isr` are the
codec, its clocks and the interrupt on its way to the DPC.  `Bugcheck` holds when
an agent's next step dereferences a freed job or a zeroed interface.  A file has one
set of buffers (`mapped`), freed as a whole; single buffers are `BufferPool`'s.
RVD1 is represented by `atPeer` and the actions of `PeerContract`:
`PeerCompletion` is its Answer, `PeerDrop` its Drop.  That RVD1 really behaves so is
run `peerworker` and theorem `ContractKept`.  RVD1's callbacks do not overlap each
other in this model.

**PeerWorker.**  `item[k]` is where kick `k`'s work item is; `fjob[k]` its transient
job; `slot`, `Completed` and `dpc` are RVD1's own queue and DPC; RVD0 appears only
as `pnp`, `waitsFor` and `registered`.  A reset loses the decode under way without
an interrupt (`LoseDecode`).  With gated clocks a codec ends only by its watchdog.

**BufferPool.**  `pc[t]` walks through the stages of `RkMppBufAlloc`; `live` counts
what the kernel has handed out, by kind.  Whether a buffer is used by a job is
nondeterministic here.  `Overlap` says what the requests of one handle may overlap:
the initialisation of its context, its closing, neither or both.

**DpbOps and DecodeEngine.**  `eng` is the `DecodeEngine` with its DPB; the `d` of
`DpbOps` stands for `DpbCtx` and `H265DpbCtx`, whose hold interfaces are the same code
twice.  `RKMPP_VERIFY` sets `d.trap`.  `Submit` is one access unit that passes
`ProcessInput`'s back-pressure; its outcome is rejected before the DPB is asked,
failed after it, or decoded, and `DecodeOne` says what each leaves behind.  The
stream is a sequence of closed groups of pictures from the constant `Gops`; a seek
(`Flush`) may land anywhere in a group.  The code sees frame_num, order counts and
slot numbers; `data` (what each buffer holds), `view` (the references of the last
decode, as found and as the standard prescribes) and `shown` are history for the
properties, by the pictures' display positions.  There are two epochs: `epoch` is the
caller's `stream_epoch_`, which tags each access unit, and `eng.dpb.epoch` the DPB's.
`Flush` moves both; `Restart` (END_STREAMING, FLUSHes that find no engine,
BEGIN_STREAMING) makes a new DPB of epoch 0 while `epoch` goes on.  There is one caller
at a time, as `decode_engine.h` describes; the MFT's own locking is in `DecoderMft`.

**CcuCluster.**  A locked entry point (`RaiseCluster`, `DropCluster`, the AV1 pair, the
full resets) is a program, a sequence of register operations, that the thread holding
`g_ccu_mutex` runs one per step; `UndoProg` is the error path of a raise.  Core resets
and leaf clocks take no lock and are single steps.  A CRU word is a few named groups of
bits: what the idle handshake of a bus needs, and what the job engine toggles.  The PMU
is external: a handshake succeeds if the bus has its clocks, `Fault` makes it time out
otherwise or by itself (`MaxFaults`), and an acknowledgement may come late
(`PmuSettle`).  The clients' PrepareHardware, D0, kick, completion, session reset and
ReleaseHardware are the sequences of calls their drivers make; a device is released
with no session reset of its own under way.  A completion is two steps, as in
`rkvdec/job.c`: `Complete` clears the slot under the lock, `GateLeafClocks` gates the
clocks after the unlock, and a kick may come in between.  `gating[c]` counts the gates
on their way (`MaxGates` bounds them), `quiet` remembers the jobs kicked with none.

**IovaOps and Rkiommu.**  `dom` is the master's domain (`gen` numbers the domains it has
had, so that a dangling directory is visible), `hw[i]` the MMU of instance `i` with its
TLB.  A TLB may take up any translation while a job runs (`TlbFill`) and keeps it
until a zap, a flush or a power cycle.  A page has a frame, so that a wrong translation
is one to another buffer's frame.  `MapMdl` is three steps as in the code: the
range under the domain lock, the lazy enable after it, and its failure.  `mt[i]` is how
far a reset of core `i` is, by a session cleanup or a kick: `Disable`, power cycle,
`Enable`.  Nothing keeps a lazy enable or a kick out of it, and `rkav1d`'s cleanup may
skip its Reattach; `raced` remembers the instances whose flag this left wrong.  A cleanup
unmaps buffers under a running job when its drain timed out; `orphan` remembers the
instances whose job lost one.  The slave's
arrival is its four calls (open, attach, register, commit), and query-remove, its veto and the
removal may come between them.

**Av1Jobs.**  As `RkvdecJobs` with one core, no peer and no watchdog, plus the D0 cycle:
requests are held back outside D0, the interrupt is disconnected around D0Exit, which
quiesces the queue for at most 500 ms.  `prevMask` and `hw.regs` are what the driver
believes non-zero and what is.

**Vp9Ops, Av1Ops and DecoderMft.**  An engine value carries the slots, the buffer each
stands for and ghosts: `refOk` (the last kick read the pictures the stream means),
`ctxOk` (it started from an intact probability context), `gap` (an event the code lets
pass without arming anything, listed under [findings](#findings)).  `win` is a
ProcessInput of an H.264 or H.265 stream that has given up `lock_`; every other method
may run meanwhile, but no second ProcessInput and no END_STREAMING, which the contract
of a synchronous transform excludes.  Inside that window `DecodeEngine_Submit` goes step
by step: the read of `stream_epoch_`, the IRAP gate, the choice of a slot, the decode, the
hold.  A FLUSH may fall between any two of them; one that finds a step half done changes
the same queues without a lock, a data race after which nothing is said (`GenRace`).  In
`DecoderMft` the H.264 / H.265 engine is its two queues, its hold count, its epoch and its
gate; `DecodeEngine` has the rest.  `erred` remembers an error return of ProcessOutput.
`out` is the sample the last step handed out.

**Environment.**  `Env` (RkvdecJobs), `Mmio`, `PoolFails`, `Overlap` (BufferPool) and
`Faults` select what may go wrong in an instance, so that a run asks one question.  `SyncHandles`
is TRUE in every run of `RkvdecJobs`: the MFT opens the device without `FILE_FLAG_OVERLAPPED`
(`src/mft/engine/backend_windows.cpp`), so the I/O manager serialises the requests
of one handle.  `BufferPool` lets requests of one handle overlap all the same: the
driver's queue is parallel, and the code takes locks for it.

## Runs

| run | instance | checks | shows |
|---|---|---|---|
| `cleanup` | 2 sessions, 2 jobs; close, wait and drain timeouts, FREE_BUFFER, errors, failing resets | `NoUseAfterFree OnePlace OrphansReaped BuffersHeld` | the rules of `WaiterPin` and `OrphanOnComplete` free each job exactly once, whatever the order of timeout, drain and completion |
| `peer` | 2 sessions, 3 jobs, limits 2; the peer arrives at any time and may refuse | `SlotsAgree NoLostKick` | the dispatcher's three views of a core agree; a wake-up is never lost |
| `detach` | 1 session, 3 jobs; the peer leaves and returns, drops kicks, the IOMMU goes | `TypeOK OneDriver` | what survives when the precondition of a detach is violated: counters in range, core 0 with one driver; states after a bugcheck are not explored |
| `live` | 2 sessions, 2 jobs; errors, wait timeouts, register window ok, missing or short | `JobsFinish RequestsReturn` | every job finishes and every request returns, with no deadlock; synchronous kick failures included |
| `peerworker` | 2 kicks, 2 attachments, any window, failing allocations | `ForeignJobsLive WorkersReturn KeepsContract` | RVD1 implements `PeerContract` |
| `pool` | 3 threads, 2 handles, sizes that round and one that is refused, quotas of 2 buffers, 6 and 8 bytes | `FreedOnce QuotaBound ChargesAgree NoResourceLost` | the quota race, every error path, double frees and close |
| `engine` | H.264 and H.265, 2 groups of pictures, a pool of 5, 3 reference frames, frame_num modulo 4, 1 failed access unit, 1 FLUSH, with an engine or without one, restarts, 1 frame with the consumer | `FramesIntact TrapsOnTagOnly RefsExact ListsInOrder NoStall DisplayOrder` | nothing that waits for output is overwritten; the hold checks trap for one reason only, an epoch tag that is not the slot's; the references are the standard's but for three causes (see [findings](#findings)); frames come out in display order |
| `ccu` | 3 clients, a session cleanup of each, 1 handshake that times out by itself, 1 gate on its way | `PoweredWhileHeld JobUndisturbed ColdWhenDropped` | who was told the cluster is up finds it up, whatever the others do; a failed raise gives back what it took |
| `iommu` | both drivers; 4 pages in tables of 2, one reserved, buffers of 2 pages and 1; 2 domains, 1 failing enable; buffers unmapped under jobs, enables inside resets, Reattaches skipped | `IovaExact DmaExact PagingFlagTrue BoundToLiveDomain` | the tables are exactly the live buffers, a job that keeps its buffers reaches no foreign frame, `PagingEnabled` is wrong for two reasons only, no MMU pages through a directory that is gone |
| `av1jobs` | 2 sessions, 3 jobs, limits 2, 1 D0 cycle, failing decodes | `NoUseAfterFree ResultIsOwn KickSafe NeverStranded` | no job is freed under anybody, each ends with its own status and is kicked on an idle, clocked codec only; pending work has somebody coming for it |
| `mft` | each codec; 3 inputs (H.265, VP9: 4), 1 FLUSH at any step of a Submit, 2 input types, 2 sizes, 2 depths, error returns | `EmittedFresh EmittedAsNegotiated HoldsAccounted NoStall RefsFresh CtxClean` | what leaves the transform belongs to the timeline and format agreed on, one kind of access unit aside; slots are lost by error returns only; kicks read what the stream means |
| `v_regs` | `av1jobs` with one register | `RegsFromScratch` | see [findings](#findings) |

**Bounds.**  Two jobs are the fewest for a second promotion (the worker's whole
purpose), three for one pending behind two occupied cores; two sessions for every
interference between files, and a third adds only another `OtherOwner`.  Two kicks
let a late completion meet its successor on RVD1, two attachments let it meet the
next attachment.  Three threads on two handles give both races inside a file and
between files for the one driver-wide quota; cookies are bounded (`MaxCookie`) and
with them the number of allocations that begin.  `LruSize` is the code's 4, larger
than the number of files, so no entry is evicted.  The code's limits of 8 and 4
pending jobs are 2 and 2 in run `peer`, so that they bind.  Pages are two bytes
large, so that one request is rounded up.  Run `engine` has groups of six to eight
pictures.  H.264: a pyramid that is reordered by two, with five references so that
frame_num (modulo 4) wraps while the window of three slides; a group with all six marking
operations whose window then fills up beside a long-term reference; and one that marks
pictures of before and since a wrap.  H.265: a pyramid behind an IDR and behind a CRA.  The
pool of five is too small for three references, the frames back-pressure admits and one
frame with the consumer, so that it runs out of slots, as 16 do for streams with many
references: eviction and failed decodes happen.  Two groups let frames of one meet the IDR
or CRA of the next.

Run `ccu` has no bound but `MaxFaults` and `MaxGates`: clients come and go for ever.  In
`iommu` one page of four is reserved (`rkvdec`), so that the buffers of two pages and of one
fill the rest: ranges are refused, reused and adjacent; two domains let an MMU
keep the directory of the first.  Three jobs in `av1jobs` are one in flight and two
pending, the limit; the registers play no part in its properties, so there are none
(`v_regs` has one).  In `mft` the code's 8 reference slots are 2, its pools of 16 and 12 are 3
(VP9: two references and the picture being decoded; H.264 and H.265: so that the cap
`kPoolSize - 1` binds), its reorder depths are 1 and its queue limits of 8 and 16 are 2: smaller numbers reach slot reuse and back-pressure
sooner, and the code uses them only in comparisons and loops.  Inputs are listed in
`MCMft`: key, intra-only, inter and show-existing frames, hidden frames, superframes,
failures at each stage, changes of size and depth.

`CHECK_DEADLOCK FALSE` is set where the instance may really stop: the bounded number
of jobs, kicks or cookies is used up and every handle is closed, or the run looks for
a defect that stops the machine.  Run `live` checks deadlock: there, only the state
in which all work is done stutters (`Quiescent`).

Symmetry: runs `cleanup`, `peer` and `av1jobs` exchange the two sessions, thread and file together; `pool`
permutes the threads of one handle.  Neither run checks a temporal property.

The cfgs name the properties that are hardest to keep.  The modules state more, which
hold on the same instances: `TypeOK` of every specification, `OneDriver` (run `cleanup`),
`KickProtocol` and `AdmissionBound` (run `peer`), `NeverStranded` (`live`),
`SlotFreeAtCallback` (`peerworker`), `HoldsMatchQueues` (`engine`),
`RefsExact` (`ccu`), `JobsTranslated` and `CallbacksLive` (`iommu`), `OnePlace`,
`BuffersHeld` and `OrphansReaped` (`av1jobs`), `GeometryMatches` (`mft`).

**Mutants.**  Each property of each passing run has a mutated definition beside the
one it replaces (comment "Mutant: ..."), a plausible bug such as a dropped pin test,
a forgotten rearm or a compare-exchange turned into an addition, under which TLC
finds that property violated.

## Fairness

* `RkvdecJobs!Fairness`: weak fairness of every thread inside a request, of the
  queued work item, the queued DPC, the codec (it ends by its own watchdog at the
  latest; `JobKickLocalInner` programs it) and RVD1's answers.  Nothing makes a
  thread start a request.  A WAIT_JOB's timer is not assumed to fire:
  `RequestsReturn` holds for the infinite wait (timeout 0) too.
* `PeerWorker!Fairness`: work items run, queued DPCs run, an attachment that began
  goes on, and the 100 ms timer fires, since `KeWaitForSingleObject` is given it.
  The codec owes nothing.  `LiveCodecSpec` adds the codec's watchdog, for
  `AcceptedAnswered` below: that defect stands even with a codec that always signals.
* `DecodeEngine` and `DecoderMft` state no fairness: `NoStall` is the state in which neither input nor
  output can go on; in `DecodeEngine` deadlock is checked.
* `Av1Jobs`, `Rkiommu` and `CcuCluster` are checked for safety only.  `NeverStranded` of
  `Av1Jobs` is the safety half of progress: somebody is on the way.  That an AV1 job
  ends is up to the codec, as the driver has no watchdog for it.

## Proofs

Assumptions are the named `ASSUME`s of the specifications (types of the constants;
page size positive; a buffer's limit at most its file's; a file is not also the name of
a worker or DPC).  No bound on threads, files, jobs, kicks, pages or attachments is used.

Where a property needs a well-behaved environment, the theorem says so as a hypothesis
on the constant that switches the environment's moves, and TLC shows a counterexample
without it ([findings](#findings)): a detach of the peer while jobs run, which breaks its
documented precondition (`"peerDetach" \notin Env`); requests of one handle that
overlap (`SyncHandles`; the transform's handles are synchronous); the peer's and the
query-remove's waits without a pin (`"peer"`, `"iommuGone"`); a request that begins while
its file's context is being initialised (`"sentinel"` of `BufferPool`, which would lose both
charge and list); a reorder depth that fills the pool (`Roomy`, of `DecodeEngine` and of
`DecoderMft`).  All other moves stay: timeouts of waits and drains, errors, failing resets,
failed decodes, buffers unmapped under a running job, enables inside resets, FLUSHes inside
a Submit, closing and flushing at any time.  Where such a move breaks a promise, the
property names the case it excuses by a history variable (`orphan`, `raced`, `quiet`,
`erred`, the epochs), the plain promise is a definition of its own, and
[findings](#findings) lists it.

`RkvdecJobs`, in three layers, each proved by one step per action:

| theorem | statement | along which argument |
|---|---|---|
| `RkvdecJobsProofs!TypeCorrect` | `Spec => []TypeOK` | `TInv = TypeOK /\ Holding`: an agent at a point of use holds a job or a promotion.  Without `Holding` the records that a step updates could be those of "no job" |
| `RkvdecJobsProofs!KickProtocolHolds` | `Spec => []KickProtocol` | `WInv = KickProtocol /\ NoLostKick` on top of `TInv`: each needs the other, as a rearm is what pays for a pending job and only an active worker honours a rearm |
| `RkvdecJobsProofs!NoKickIsLost` | `Spec => []NoLostKick` | the same; the lemmas on `JobQueueOps` supply that `PromoteUntilFull` leaves core 0 busy or `Pending` empty |
| `RkvdecJobsProofs!CoreDrivenOnce` | `Spec => []OneDriver` | `OInv`: at most one agent, the codec, its interrupt or its completion drives core 0, and only for the job in slot 0, which is neither done nor on a list.  Without the second half a completion could free the slot under another driver |
| `RkvdecJobsProofs!SlotsKeepAgreeing` | `"peerDetach" \notin Env => (Spec => []SlotsAgree)` | `OInv` also covers slot 1 and the agents between a peer kick and its answer |
| `RkvdecJobsProofs!JobInOnePlace` | `Sessions => (Spec => []OnePlace)`, `Sessions` being `SyncHandles` and no detach | `MInv = OneBusy /\ MineInv /\ PinInv /\ PlacedInv /\ ClosedInv`: one request of a handle at a time, so that a job a thread takes off `Completed` is its own file's; a pin belongs to a waiting thread; an allocated job is somewhere; a job on a core has its buffers, or its file is closed and has given it up |
| `RkvdecJobsProofs!BuffersStayHeld` | `Sessions => (Spec => []BuffersHeld)` | the same: what the codec or a kick uses is in a slot, where the drain and `RkMppJobBufferInUse` look |
| `RkvdecJobsProofs!MemoryIsSafe` | `Lone /\ "iommuGone" \notin Env => (Spec => []NoUseAfterFree)`, `Lone` being `Sessions` without the peer | `LoneInv` excludes the agents that touch a job without a slot or a pin (the peer's and the query-remove's); of the others `MInv` says that the job is in a slot or pinned, and the freeing paths take neither |
| `RkvdecJobsProofs!NoOrphanLeft` | `Lone => (Spec => []OrphansReaped)` | the property is inductive over `MInv`: a completion frees an abandoned job nobody has pinned, and who drops the last pin of an abandoned job on `Completed` takes it off |

The other components:

| theorem | statement | along which argument |
|---|---|---|
| `PeerWorkerProofs!PeerInvariant` | `Spec => []IInv` | `IInv = TypeOK /\ CodecInv /\ ItemInv`: which work item may be in the slot, on the codec, in the interrupt or in the DPC, and what its job then looks like |
| `PeerWorkerProofs!ContractKept` | `Spec => KeepsContract` | refinement: each step of `PeerWorker` is a step of `PeerContract` or leaves `told` and `ran` alone; `IInv` gives that a result is the kick's own |
| `PeerWorkerProofs!ForeignJobsStayLive` | `Spec => []ForeignJobsLive` | from `IInv`: a timed-out job is freed by its completion, never by the thread that gave it up |
| `BufferPoolProofs!QuotasHold` | `Spec => []QuotaBound` | `QInv = TypeOK /\ QuotaBound /\ SwapFits`: a thread at the compare-exchange has tested the total it read, so that a successful exchange is within the limit |
| `BufferPoolProofs!BuffersFreedOnce` | `Spec => []FreedOnce` | `CInv = CookiesIssued /\ CookiesDiffer /\ OwnersDiffer`: cookies are below the counter and never shared |
| `BufferPoolProofs!ResourcesAccounted` | `Apart => (Spec => []NoResourceLost)`, `Apart` being `"sentinel" \notin Overlap` | `CtxInv`: one thread initialises a context, and nobody is past it before; `OwnInv`: who owns a cookie is inserting or freeing it; `RInv`: the equation with both sets finite.  Each step adds or removes one element |
| `BufferPoolProofs!BooksBalance` | `Apart => (Spec => []ChargesAgree)` | `ChInv`, over the same `CtxInv` and `CInv`.  The lemmas on `SumFunctionOnSet` (the order of summation does not matter, one element adds its weight) are proved by least counterexample on cardinality, as the library's induction rules cannot be instantiated.  A consequence: the clamps of `RkMppBufReleaseQuota` never act |
| `Av1JobsProofs!Av1NoUseAfterFree`, `Av1ResultIsOwn`, `Av1KickSafe`, `Av1NeverStranded` | `Spec => []` the property of that name | one inductive invariant (`Av1Invariant`): every allocated job is in one place, pins belong to waiting threads, the job in flight is being started by one agent, or is in the codec, or has its status on the way to the DPC, and D0 transitions exclude requests and DPC.  The parts need each other: a status is the job's own because nobody kicks before the DPC has run, and nobody does because the slot is taken until then |
| `RkiommuProofs!IommuIovaExact` | `Spec => []IovaExact` | `IommuInvariant`, of which `IovaInv` says that used, start and end bits mark the reserved and the live ranges and no others, that these are disjoint, and that a page has a PTE exactly if a live buffer covers it: without disjointness an unmap could clear a neighbour's bits |
| `RkiommuProofs!IommuDmaExact` | `Spec => []DmaExact` | `JobsInv`: a job that has lost no buffer (`orphan`) finds its buffers mapped where its registers say, whatever else is unmapped meanwhile; `TlbInv`: of its pages the TLB holds nothing but the PTEs.  `rkiommu_av1d`, which is not flushed at a kick, needs the stronger half: nothing stale at all |
| `RkiommuProofs!IommuPagingFlagTrue` | `Spec => []PagingFlagTrue` | `PagingInv`: the flag is ahead of the MMU only inside `rkav1d`'s own power cycle or on an instance in `raced`, which takes an enable between a Disable and its power cycle, or a skipped Reattach; a Disable, a Reattach or a D0 exit ends it |
| `RkiommuProofs!IommuBoundToLiveDomain` | `Spec => []BoundToLiveDomain` | `HwInv` and `SlaveInv`: an MMU that pages has a started codec, which keeps the device; the slave's borrowed directory is that of the live domain, held by its open handle |
| `CcuClusterProofs!SequencerInvariant` | `Spec => []CInv` | `CInv = BaseInv /\ Place`, `BaseInv` being `PmuInv`, `FaultInv`, `CtlInv` and `CountInv`.  `Place` attaches an assertion to each operation of each program: which bits are still or already set, which domains up, what the counts are.  `PmuInv` relates the five PMU sets (a domain whose last handshake did not time out has status = request and ack = idle request), `CtlInv` says where callers may be (one caller of a core at a time, a file's reset only while its device is up), `CountInv` counts a raise from the last step of the raise to that of the drop |
| `CcuClusterProofs!HeldStaysPowered` | `Spec => []PoweredWhileHeld` | from `CInv`: a client that holds its cluster is in the count, so the program under way raises or drops the other cluster or resets another core, and `Place` says what that leaves alone |
| `CcuClusterProofs!JobsUndisturbed` | `Spec => []JobUndisturbed` | the same, with: no gate is on its way to a core whose job is `quiet`; the writes outside the mutex touch only the leaf bits of one's own core (`CorePlaceKeeps`), which no assertion of another core's program mentions |
| `CcuClusterProofs!DroppedIsCold` | `Spec => []ColdWhenDropped` | at rest `Place` is `Resting`; the undo sequences end there too.  A domain stays on behind a drop only after a fault: without one the buses of the rkvdec cores and of the parents acknowledge (`FaultInv`) |
| `CcuClusterProofs!CountsExact` | `Spec => []RefsExact` | at rest `CountInv` counts exactly the clients that hold |
| `DecodeEngineProofs!TrapsOnlyOnTags` | `Spec => []TrapsOnTagOnly` | `DInv`, whose core is `EngSafe`: the holds of each kind are exactly the entries of `reorder_q`, `ready_q` and the consumer's frames, no two entries name one slot, and the entries of both queues carry the epoch of their slots.  Inside a `Submit` one entry more (`X`) is on its way.  `Clocked` says what epoch the next slot will carry: the DPB's for H.264, 0 for H.265, which stamps none.  A tag that differs from it traps at the first hold, before anything else is changed (`Ended`), and only then |
| `DecodeEngineProofs!PicturesSurvive` | `Spec => []FramesIntact` | also in `DInv`: a slot with a hold is never selected, whatever marking, sliding window, IDR or flush did to its reference marks (`Keeps`: each of them preserves holds and epochs), so `data` changes only in a slot no entry names |
| `DecodeEngineProofs!QueuesMove` | `Roomy => (Spec => []NoStall)`, `Roomy` being a reorder depth less than `PoolSize - 1` | `ReorderInv`: after each step at most `max_num_reorder_pics` frames wait in `reorder_q`, one fewer than the capacity if the pool does not cap it |
| `DecoderMftProofs!FreshAfterFlush` | `Spec => []EmittedFresh` | `MInv = StateInv /\ EngineInv /\ WinInv /\ SizeInv /\ SampleInv`: a queued H.264 or H.265 frame whose tag is not the epoch in which its input came is an IRAP picture (`GenFrames`), since a FLUSH between the unlock and the read of the epoch has armed the IRAP gate before the access unit meets it (`Tagged`); of the others the filter lets pass only those since the last FLUSH; the VP9 and AV1 queues, emptied by a flush, hold no older frame |
| `DecoderMftProofs!NegotiatedFormat` | `Spec => []EmittedAsNegotiated` | `SizeInv`: an output type that no new input type has outrun has the size in force, which the VP9 path compares with each frame before it emits it |
| `DecoderMftProofs!SlotsAccounted` | `Spec => []HoldsAccounted` | `EngineInv`: the hold count is the lengths of the queues and a number of slots left behind, which is 0 as long as ProcessOutput has not returned an error (`GenHolds`), through the folds of bumps, drains and flushes and a FLUSH in the middle of a Submit |
| `DecoderMftProofs!InputOrOutput` | `Roomy => (Spec => []NoStall)`, `Roomy` being `GenReorder < GenPool - 1` | `EngineInv`: with nothing ready, `reorder_q` is within its depth, below the limit at which ProcessInput refuses, unless the pool caps that limit |
| `DecoderMftProofs!KicksReadFresh`, `ContextsClean` | `Spec => []RefsFresh`, `Spec => []CtxClean` | `EngineInv` for VP9 and AV1: unless `gap`, the last kick read what it should (`refOk`) and every filled slot is in `fresh` (for VP9 unless a key frame is awaited); the context it loaded was intact (`ctxOk`) and none marked valid is `dirty` |

`PromoteUntilFull` is written as the iteration of `PromoteOne` over the two cores,
without recursion, and `RkvdecJobsProofs` proves its lemmas from that.  The loops of the
decode engines (bumps, the sliding window, marking operations, releases at a flush, AV1's
temporal units) are folds of the community modules.  What the theorems need of a fold is
that each step of it keeps an invariant; this is proved along its chain of intermediate
values, by least counterexample, as the library's induction rules cannot be instantiated.
`DInv`, `MInv` and `CInv` were checked with TLC on the instances of runs `engine`, `mft`
and `ccu` before they were proved.

Only model-checked:

* every liveness property and the absence of deadlock (fairness and `ENABLED` are
  outside the prover);
* in `DecodeEngine`, `ListsInOrder`, `RefsExact` and `DisplayOrder`: what the sorts, the
  sliding window and the marking operations compute for a whole group of pictures,
  which needs induction over data and well-formed streams;
* `NoUseAfterFree` and `OrphansReaped` of `RkvdecJobs` with the peer, where they fail.

## Findings

Run `v_regs` (`src/driver/rkav1d/job.c:647`): after an error `RkMppJobStart` zeroes
`PrevNonzeroMask` without resetting the codec.  The diff at line 851 then takes every
register for zero and skips those the failed job left set and the next one does not
list (user mode omits zero registers).  `job.c:641` says "Drop the prev-mask so the next
kick rewrites every reg from scratch".  The same happens when a closing session sets
the flag for another one (`device.c:725`).

The properties below are stated in the modules and fail under the constants given, where
none are given under those of the component's run; each contradicts what a comment of the source says.

| property, constants | code | says |
|---|---|---|
| `RkvdecJobs!ClocksRun`, `Env = {}` | the clocks are gated after the unlock, after a concurrent submit has ungated them and started the codec; `CcuCluster!JobUndisturbed` promises the clocks to `quiet` jobs only for this reason | `job.c:1519`: "so we don't race with a concurrent submit" |
| `RkvdecJobs!NoUseAfterFree`, `Env = {"peer"}` | `RkMppPeerCompletion` sets `Done` after publishing the job and unlocking; a WAIT_JOB may have freed it | `job.c:2261`: "safe to remove + free" |
| `DecodeEngine!TrapsOnTagOnly` without its excuse, that is `eng.dpb.trap = "no"` | the tag of an access unit and the epoch of its slot part, and `RKMPP_VERIFY` ends the process: for H.265 at the first picture after any FLUSH, as `H265Dpb_Select` stamps no epoch (`dpb.cpp:778`); for H.264 after a FLUSH that finds no engine (`decoder_mft.cpp:1085`) or an END and BEGIN_STREAMING behind a FLUSH, which make a DPB of epoch 0 while `stream_epoch_` goes on (`dpb.cpp:205`) | `dpb.h:99`: "Stamped onto a slot at Select time" |
| `DecodeEngine!NoStall`, pool 16, 16 reference frames, `LongGops` | the capacity is capped at 15 while reordering may need 17 frames: with max_num_ref_frames 15 or 16 input is refused and nothing is ready | `decode_engine.h:330`: "must be greater than the active reorder threshold" |
| `DecodeEngine!RefsPrescribed`, `PoolSuffices` (also with pool 16, 12 reference frames, `WideGops`) | references and frames waiting for output share the slots; when they are used up `Dpb_Select` evicts a reference the stream still uses (`dpb.cpp:340`), and when none is left the decode fails and the IRAP gate goes up | `decode_engine.h:70`: "no headroom math needed" |
| `DecodeEngine!RefsPrescribed`, group `Wrapped` | MMCO 1 or 3 that reaches back across a frame_num wrap: `find_short_term_by_pic_num` compares raw numbers, and the picture stays a reference | `dpb.cpp:37`: "PicNum == FrameNumWrap == frame_num for refs since wrap-aware" |
| `DecodeEngine!RefsPrescribed`, group `Marked` | the sliding window counts short-term references only (`dpb.cpp:689`), so beside long-term ones it keeps too many | `dpb.cpp:681`: "sliding-window (8.2.5.3)", where the standard counts both |
| `CcuCluster!Av1OffAfterDrop`, `MaxFaults = 0` | D0Exit gates the AV1 bus clocks (`rkav1d/device.c:556`) before ReleaseHardware drops the cluster; the idle request is never acknowledged, the domain stays on with the request asserted, and its parents go off | `rkav1d/device.c:671`: "refcount → 0 → PMU power off" |
| `Rkiommu!PagingStale`, `rkvdec` | the Disable, power cycle, Enable of FileCleanup (`rkvdec/device.c:1174-1191`) or of a kick (`job.c:707-719`, where a TODO names the race) lets in the lazy enable of another session's MapMdl: enabled before the wipe, the MMU is off afterwards while `PagingEnabled` is set, and the last Enable returns at once | `rkvdec/device.c:1188`: "next session will lazy-Enable on first MapMdl" |
| `Rkiommu!PagingStale`, `rkav1d` | after a drain that timed out FileCleanup resets the core and, with another session active, skips the Reattach (`rkav1d/device.c:717-725`): that session runs on untranslated | `rkav1d/device.c:642`: "post-reset Reattach is critical"; `:689`: "The unconditional `Reattach` below" |
| `Rkiommu!PeerTranslated` | RVD1 refuses the connection when its MMU cannot be enabled, but RVD0 goes on dispatching to it, untranslated | `rkvdec/device.c:969` leaves `IommuAttached` FALSE to prevent it |
| `Rkiommu!RegisteredWhileOpen` | a query-remove between the slave's registration and its commit empties `Consumers`; the slave commits unregistered | `rkiommu_vdec/device.c:418`: "without a callback slot, master's later EvtDeviceQueryRemove cascade silently skips us" |
| `DecoderMft!NoStaleSample` | `stream_epoch_` is read as an argument of Submit, after `lock_.unlock()` (`decoder_mft.cpp:1589-1593`): a FLUSH in between gives an old access unit the new epoch, and if it is an IRAP picture the gate lets it through.  `EmittedFresh` says that nothing else gets past a FLUSH | `decoder_mft.h:211`: results "already in flight when FLUSH fired" are rejected |
| `DecoderMft!GenRace` reachable | a FLUSH or ProcessOutput beside a Submit changes the queues and the DPB from another thread; no file of `src/mft/engine` takes a lock | `decoder_mft.cpp:1580`: the engine handles it "via its internal mutex" |
| `DecoderMft!NoLeak` | error returns of ProcessOutput behind the poll (`decoder_mft.cpp:2186`, 2214, 2251-2257, 2274-2291) do not release the frame, so its slot stays held for good; `HoldsAccounted` says that nothing else leaks | `decode_engine.cpp:1330`: "failing to do so would leak holds and eventually exhaust the slot pool" |
| `DecoderMft!NoStall`, `GenReorder >= GenPool - 1` | the cap of the queue's capacity at `kPoolSize - 1`, as for `DecodeEngine!NoStall` | as there |
| `DecoderMft!ArmedShowsNothing` | a show-existing frame has frame_type 0, passes the firebreak and shows a picture of before the flush | `decode_engine_vp9.cpp:236`: "Inter frames and show_existing_frame are dropped silently" |
| `DecoderMft!HeadersMatchBuffers` | after a failed AV1 kick the header tables take the frame, `dpb_to_pool` and the saved CDFs do not | `decode_engine_av1.cpp:1315`: "so future kicks use correct refs" |

The same modules show further defects with other constants:

* `JobsFinish` fails under `FairSpec` with two sessions and `Env = {"close"}`: the
  power cycle chosen by `EvtFileCleanup` can kill a decode that started after
  `HasOtherOwner` was evaluated; no interrupt comes, slot 0 is never released and
  nothing kicks again, although `device.c:1122` expects the next kick to recover.
* `QuietBeforeUnmap` fails with `Env = {"close", "drainTimeout"}`: after a drain
  timeout the buffers are unmapped before the reset, while `job.c:249` says the flag
  is there to "force-reset before freeing buffers".
* `AcceptedAnswered` fails under `LiveCodecSpec` with `MaxKicks = 2`: a kick that meets
  the slot of a timed-out one is turned away with DEVICE_BUSY and never answered, and
  RVD0's slot 1 stays occupied; `rkmpp_peer_worker_ifc.h:36` promises the callback.
* `CtxReady`, and with it `ChargesAgree` and `NoResourceLost`, fails with `Overlap = {"sentinel"}`: a request that starts during the
  initialisation of its file's context takes the sentinel for a device (`ioctl.c:140`:
  "Losers spin briefly").
* `DisplayOrder` fails when an H.265 stream may have a second IDR: only H.264 spills
  `reorder_q` there.  `decode_engine.h:139` assumes a single one.
* `OrphansReaped` fails with `Env = {"peer", "waitTimeout"}`: `RkMppPeerCompletion`
  parks a job that its waiter abandoned, although `job.h:105` says it observes the
  flag.
* `NoUseAfterFree` fails with `"iommuGone"` or `"peerDetach"`:
  `RkMppOnMasterIommuQueryRemove` and `RkMppDetachPeer` wait on a job without a pin.
* With `SyncHandles = FALSE`, the first phase of `RkMppJobsDrainOwner` frees jobs
  that a WAIT_JOB on the same handle has pinned.
* A job that completes between the drain's two lock holds stays on `Completed` when
  its file is gone.
* A failed peer kick is visible on `Completed` before its `Result` is written.
* `RkMppPeerArrival` opens the peer before it registers the callback: a kick that ends
  in between is answered to nobody (`Trampoline` of `PeerWorker`, Drop of the contract).
* `RkMppDetachPeer` leaves an occupied slot 1 invisible (`CoreCount` 1): `SlotsAgree` and
  `AdmissionBound` fail once the peer returns.  After a failed peer kick nobody wakes
  the worker, so `NoLostKick` is stated for core 0 only.

Gaps in `RefsFresh` (ghost `gap`), where the code lets a picture go missing unnoticed.
VP9: a parse failure, an oversized frame or an exhausted pool does not arm the firebreak,
although `decode_engine_vp9.h:105` speaks of "any pre-kick fallible step", and an
intra-only frame disarms it while other slots are stale.  AV1: there is no firebreak;
showing an existing key frame does not refresh all slots, and a hidden key frame with
partial refresh flags maps all of them.

Smaller observations made while modelling, not properties:

* CCU: a failed AV1 raise leaves its reset deasserted; a failed RKVDEC0 or VDPU power-on
  leaves the power bit set; `RkMppPmuPowerOn` succeeds with an idle request pending.
* IOMMU: map and unmap zap the master only, and the per-kick flush is what protects
  RVD1 (`DmaExact`), not the zap under the lock as `ifc.c:281` says; a vetoed
  query-remove leaves the slave detached and RVD0 rejecting requests for good; the
  already-enabled path of `rkiommu_av1d` keeps the old table address; the fault callback
  is never unregistered.
* AV1 driver: WAIT_JOB's already-complete path and the first phase of the drain free a job
  without looking at `WaiterPin`, which only overlapped handles could exploit; a job in
  flight at D0Exit cannot complete, so the quiesce always takes its 500 ms then;
  `otherActive` may be stale at `device.c:713`, so that a Reattach meets another
  session's new job; `device.c:687` describes a reset `RkMppJobStart` does not make.
* MFT: after a failed VP9 init ProcessInput says NOTACCEPTING and ProcessOutput
  NEED_MORE_INPUT for ever; `draining_` and `last_emitted_pts_` survive END and BEGIN; a
  frame dropped during a drain answers NEED_MORE_INPUT with frames still queued;
  GetInputStatus knows nothing of the VP9 queue; the H.264 / H.265 and AV1 paths may
  emit P010 under an NV12 type (`EmittedAsNegotiated` is stated for VP9); AV1 has no size
  guard although `decode_engine_av1.cpp:1339` counts on one; the guard of the others
  takes an 8-bit frame of twice the area for a 10-bit one.

Two facts of the source that no model has: foreign jobs are allocated with tag
`'gFKR'` but `RkMppJobComplete` frees orphans with the local jobs' tag, and
`RkMppJobRunForeign`'s comment describes a wait without timeout.

## What is left out

Requests that fail validation, register contents, cache maintenance, logging and
its counters.  Interrupts that are not the codec's.  `RkMppJobQueueTeardown` and
driver unload.  In the decode engine: field coding, open groups with leading pictures
behind a seek, the parsers' own state, the copy of a frame out of its buffer, and calls
that overlap each other.  In the IOMMU drivers: the overflow of `Consumers`, the fault
report, Snapshot, interrupt masking, and `ForceReset`, which nothing in the repository
calls.  In `rkav1d`: kicks without a register window, the cache
window, error codes.  In the transform: the D3D manager, the drop mode, sample
attributes, traces.  In `BufferPool` the locals of a request are reset when it returns,
to keep states few.  The components listed `not_modelled` in `PROJECT.json`, with
the reason there, are I/O, boilerplate or data.

## Plan

Written in this order, the most important behaviour first:

1. `JobQueueOps`, `RkvdecJobs`, with proofs (done);
2. `PeerContract`, `PeerWorker`, with the refinement proof (done);
3. `BufferPool`, with proofs (done);
4. `DpbOps`, `DecodeEngine` for H.264 and H.265, with proofs of the hold protocol and of
   slot safety (done);
5. `CcuCluster` (done);
6. `IovaOps`, `Rkiommu` (done);
7. `Av1Jobs` (done);
8. `Vp9Ops`, `Av1Ops`, `DecoderMft` (done);
9. proofs: the invariants of `RkvdecJobs`, `PeerWorker`, `BufferPool`, `Av1Jobs`,
   `Rkiommu` and `DecoderMft` that the runs check, and of `DecodeEngine` those that do not
   depend on the stream being well formed (done); the invariants of
   `CcuCluster` for any number of faults (done);
10. liveness of `Av1Jobs` (with a codec that always signals) and of a drain of
    `DecoderMft`, on instances smaller than the safety runs'.
