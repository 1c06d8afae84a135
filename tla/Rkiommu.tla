------------------------------ MODULE Rkiommu ------------------------------
(***************************************************************************)
(* The IOMMU drivers rkiommu_vdec and rkiommu_av1d, with the calls that    *)
(* the codec drivers make into them.                                       *)
(*                                                                         *)
(* rkiommu_vdec has two instances: the master "m", paired with RVD0, owns  *)
(* the domain and takes every MapMdl and UnmapMdl; the slave "s", paired   *)
(* with RVD1, borrows the master's page directory through a shadow domain  *)
(* that a PnP arrival callback installs.  rkiommu_av1d has one instance,   *)
(* "m".  Which driver a behaviour runs is chosen in Init.                  *)
(*                                                                         *)
(* The paired MMUs of one instance (read and write port) are programmed    *)
(* alike and are one MMU here.  A TLB may hold any translation that a walk *)
(* made while a job ran, and keeps it until something drops it.            *)
(***************************************************************************)
EXTENDS IovaOps

CONSTANTS
    Buffers,       \* buffers the sessions may allocate: a set of numbers
    PageCount,     \* buffer -> pages its MDL describes
    MaxGen,        \* bound on the domains the master creates
    MaxFaults      \* bound on paging enables that fail

ASSUME RkiommuAssumption ==
    /\ Buffers \subseteq Nat \ {0}
    /\ PageCount \in [Buffers -> 1 .. 9]
    /\ MaxGen \in Nat /\ MaxFaults \in Nat

VARIABLES
  flavour,   \* "vdec" or "av1d"
  dom,       \* the master's Domain
  buf,       \* buffer -> [st, base]
  hw,        \* instance -> MMIO mapping, PagingEnabled and the MMU itself
  slave,     \* the slave's PnP state
  consumers, \* the master's Consumers[]: who is called on query-remove
  cli,       \* instance -> is its codec driver's device started
  att,       \* instance -> the codec driver's IommuAttached
  conn,      \* RVD0 dispatches to RVD1: "no", "ok", or "bad" if RVD1 said no
  d0,        \* the AV1 codec device is in D0
  run,       \* instance -> the buffers, with their iova, of the job its codec runs
  orphan,    \* history: instances whose job has lost a buffer under way
  mt,        \* instance -> how far a reset of its codec is
  raced,     \* history: instances whose PagingEnabled a reset left behind wrong
  failed,    \* instances whose last paging enable failed
  faults     \* paging enables that failed so far

vars == <<flavour, dom, buf, hw, slave, consumers, cli, att, conn, d0, run, orphan, mt, raced,
          failed, faults>>

Inst == IF flavour = "vdec" THEN {"m", "s"} ELSE {"m"}
AllInst == {"m", "s"}
IsAv1 == flavour = "av1d"
NoGen == 0

HwType == [mmio : BOOLEAN, paging : BOOLEAN, on : BOOLEAN, dte : 0 .. MaxGen,
           tlb : SUBSET (Pages \X Nat)]

-----------------------------------------------------------------------------
(* Frames: page k of buffer b is frame 10 b + k.                           *)

Frame(b, k) == 10 * b + k
Frames(b, base, n) == [p \in Span(base, n) |-> Frame(b, p - base)]
BufPages(b) == Span(buf[b].base, PageCount[b])
\* What a job's registers hold of a buffer: its iova, and so its pages.
Ref(b) == [b |-> b, base |-> buf[b].base]
RefPages(j) == Span(j.base, PageCount[j.b])
Live == {b \in Buffers : buf[b].st # "free"}

(***************************************************************************)
(* The hardware sequences.  Each returns the set of outcomes [h, ok].      *)
(***************************************************************************)

\* Dev->Domain of an instance: the page directory EnableHw programs.
DomainOf(i) == IF i = "s" THEN slave.shadow ELSE IF dom.live THEN dom.gen ELSE NoGen

\* Mutant: the flush is gated on the wrong state of PagingEnabled.
ZapWhenOff(h) == IF h.mmio /\ ~h.paging THEN [h EXCEPT !.tlb = {}] ELSE h

\* The ZAP_CACHE (AV1: FLUSH) that MapMdl, UnmapMdl and FlushTlb issue.
Zap(h) == IF h.mmio /\ h.paging THEN [h EXCEPT !.tlb = {}] ELSE h

\* RkIommuDisableHw of the two drivers.  Nothing here drops a TLB: the next
\* enable does.  The AV1 MMU keeps its table base.
DisableVdec(h) ==
    IF h.mmio /\ h.paging
    THEN [h EXCEPT !.paging = FALSE, !.on = FALSE, !.dte = NoGen] ELSE h

DisableAv1d(h) ==
    IF h.mmio /\ h.paging THEN [h EXCEPT !.paging = FALSE, !.on = FALSE] ELSE h

DisableHw(h) == IF IsAv1 THEN DisableAv1d(h) ELSE DisableVdec(h)

\* The table base written, the TLB flushed and paging switched on; the status
\* may never follow.
Bind(i, h) ==
    LET bound == [h EXCEPT !.dte = DomainOf(i), !.tlb = {}]
    IN  {[h |-> [bound EXCEPT !.paging = TRUE, !.on = TRUE], ok |-> TRUE]}
        \cup (IF faults < MaxFaults
              THEN {[h |-> [bound EXCEPT !.on = FALSE], ok |-> FALSE]} ELSE {})

\* RkIommuEnableHw of the two drivers.  The AV1 MMU that reads back as enabled
\* is left as it is; its table base is not written again.
EnableVdec(i, h) == IF h.paging THEN {[h |-> h, ok |-> TRUE]} ELSE Bind(i, h)

EnableAv1d(i, h) ==
    IF h.paging \/ h.on THEN {[h |-> [h EXCEPT !.paging = TRUE], ok |-> TRUE]}
    ELSE Bind(i, h)

EnableHw(i, h) ==
    IF ~h.mmio \/ DomainOf(i) = NoGen THEN {[h |-> h, ok |-> FALSE]}
    ELSE IF IsAv1 THEN EnableAv1d(i, h) ELSE EnableVdec(i, h)

\* Mutant: the flag is trusted and the enable alone is left.
ReattachEnableOnly(i, h) == EnableHw(i, h)

\* Reattach.
Reattach(i, h) ==
    IF ~h.mmio \/ DomainOf(i) = NoGen THEN {[h |-> h, ok |-> FALSE]}
    ELSE EnableHw(i, DisableHw(h))

\* The codec's FullCoreReset power-cycles the domain the MMU is in.
Wipe(h) == [h EXCEPT !.on = FALSE, !.dte = NoGen, !.tlb = {}]

\* Install outcome r of an enable on instance i; only an outcome that reached
\* the hardware and failed is a fault.
Outcome(i, r) ==
    LET broke == ~r.ok /\ hw[i].mmio /\ DomainOf(i) # NoGen
    IN  /\ hw' = [hw EXCEPT ![i] = r.h]
        /\ failed' = IF r.ok THEN failed \ {i} ELSE IF broke THEN failed \cup {i} ELSE failed
        /\ faults' = IF broke THEN faults + 1 ELSE faults

-----------------------------------------------------------------------------
(* MapMdl and UnmapMdl, called by the sessions' buffer pool.               *)

CanCall == cli["m"] /\ att["m"] /\ d0

\* The part of MapMdl under the domain lock; the lazy enable follows it.
MapRange(b) ==
    /\ CanCall /\ dom.live /\ buf[b].st = "free"
    /\ FreeBases(dom, PageCount[b]) # {}
    /\ LET base == AllocBase(dom, PageCount[b])
       IN  /\ dom' = MapAt(AllocIova(dom, base, PageCount[b]), Frames(b, base, PageCount[b]))
           /\ buf' = [buf EXCEPT ![b] = [st |-> "enabling", base |-> base]]
    /\ UNCHANGED <<flavour, slave, consumers, cli, att, conn, d0, run, orphan, mt, raced, failed, faults>>

\* Only rkiommu_vdec zaps after a map.
MapMdl(b) == ~IsAv1 /\ MapRange(b) /\ hw' = [hw EXCEPT !["m"] = Zap(@)]

MapMdlAv1d(b) == IsAv1 /\ MapRange(b) /\ UNCHANGED hw

\* Page k of the MDL is above 4 GiB, or has no page table and none can be had:
\* the k pages before it are unmapped and the range is freed.
MapMdlFails(b, k) ==
    /\ CanCall /\ dom.live /\ buf[b].st = "free" /\ k < PageCount[b]
    /\ FreeBases(dom, PageCount[b]) # {}
    /\ LET base == AllocBase(dom, PageCount[b])
           done == MapAt(AllocIova(dom, base, PageCount[b]), Frames(b, base, k))
       IN  dom' = FreeIova(UnmapAt(done, base, k), base, PageCount[b])
    /\ UNCHANGED <<flavour, buf, hw, slave, consumers, cli, att, conn, d0, run, orphan, mt, raced, failed,
                   faults>>

\* RkIommuEnableHw at the end of MapMdl; a failure is logged and ignored.  No
\* lock keeps it out of the reset another session or a kick is in: between the
\* reset's Disable and its power cycle it sets a flag the cycle makes wrong.
MapMdlEnable(b) ==
    /\ buf[b].st = "enabling"
    /\ \E r \in EnableHw("m", hw["m"]) : Outcome("m", r)
    /\ buf' = [buf EXCEPT ![b].st = "mapped"]
    /\ raced' = IF mt["m"] = "disabled" THEN raced \cup {"m"} ELSE raced
    /\ UNCHANGED <<flavour, dom, slave, consumers, cli, att, conn, d0, run, orphan, mt>>

\* UnmapMdl.  The free IOCTL first makes sure that no job refers to the buffer;
\* the session cleanup frees every buffer it owns, also when the drain before
\* it timed out and the codec is still at work on them.
UnmapMdl(b) ==
    /\ buf[b].st = "mapped" /\ dom.live
    /\ LET base == buf[b].base
           n == RangeLen(dom, base)
       IN  /\ base \in dom.starts
           /\ dom' = FreeIova(UnmapAt(dom, base, n), base, n)
    /\ hw' = [hw EXCEPT !["m"] = Zap(@)]
    /\ buf' = [buf EXCEPT ![b] = [st |-> "free", base |-> 0]]
    /\ orphan' = orphan \cup {i \in Inst : \E j \in run[i] : j.b = b}
    /\ UNCHANGED <<flavour, slave, consumers, cli, att, conn, d0, run, mt, raced, failed, faults>>

-----------------------------------------------------------------------------
(* The codec's jobs and what its DMA does to the TLB.                      *)

\* JobStart's FlushTlb.  rkvdec flushes before it writes the kick register;
\* rkav1d after it, when the job may have filled the TLB already.
KickHw(h) == Zap(h)

Kick(i, bs) ==
    /\ cli[i] /\ d0 /\ run[i] = {}
    /\ i = "s" => conn # "no" /\ cli["m"]
    /\ bs # {} /\ \A b \in bs : buf[b].st = "mapped"
    /\ hw' = IF IsAv1 THEN hw ELSE [hw EXCEPT ![i] = KickHw(@)]
    /\ run' = [run EXCEPT ![i] = {Ref(b) : b \in bs}]
    /\ UNCHANGED <<flavour, dom, buf, slave, consumers, cli, att, conn, d0, orphan, mt, raced, failed,
                   faults>>

\* FlushTlb at any other time: rkav1d's JobStart after the kick, and the
\* completion of a job whose codec a reset has stopped.
FlushTlb(i) ==
    /\ cli[i] /\ d0 /\ hw' = [hw EXCEPT ![i] = Zap(@)]
    /\ UNCHANGED <<flavour, dom, buf, slave, consumers, cli, att, conn, d0, run, orphan, mt, raced, failed,
                   faults>>

\* A walk on behalf of the running job, of a page it uses.
TlbFill(i, p) ==
    /\ run[i] # {} /\ hw[i].on /\ hw[i].dte = dom.gen /\ dom.live
    /\ \E j \in run[i] : p \in RefPages(j)
    /\ dom.pt[p] # NoFrame /\ ~\E e \in hw[i].tlb : e[1] = p
    /\ hw' = [hw EXCEPT ![i].tlb = @ \cup {<<p, dom.pt[p]>>}]
    /\ UNCHANGED <<flavour, dom, buf, slave, consumers, cli, att, conn, d0, run, orphan, mt, raced, failed,
                   faults>>

\* RkIommuEvtIsr: the job touched a page that has no translation; the handler
\* drops the TLB, acknowledges and leaves the report to the DPC.
EvtIsr(i) ==
    /\ run[i] # {} /\ hw[i].on /\ hw[i].mmio
    /\ hw' = [hw EXCEPT ![i].tlb = {}]
    /\ UNCHANGED <<flavour, dom, buf, slave, consumers, cli, att, conn, d0, run, orphan, mt, raced, failed,
                   faults>>

\* The completion DPC flushes once more.
Finish(i) ==
    /\ run[i] # {}
    /\ run' = [run EXCEPT ![i] = {}] /\ orphan' = orphan \ {i}
    /\ hw' = [hw EXCEPT ![i] = Zap(@)]
    /\ UNCHANGED <<flavour, dom, buf, slave, consumers, cli, att, conn, d0, mt, raced, failed, faults>>

-----------------------------------------------------------------------------
(* The reset of a codec: by EvtFileCleanup, also with a job on the codec    *)
(* (its own after a drain that timed out, or a session's that submitted     *)
(* since HasOtherOwner looked), and by a kick after a wedged job.           *)

\* rkvdec: Iommu.Disable, then the power cycle, then Iommu.Enable.
ResetDisable(i) ==
    /\ cli[i] /\ d0 /\ mt[i] = "no" /\ ~IsAv1
    /\ hw' = [hw EXCEPT ![i] = DisableHw(@)]
    /\ mt' = [mt EXCEPT ![i] = "disabled"]
    /\ raced' = raced \ {i}
    /\ UNCHANGED <<flavour, dom, buf, slave, consumers, cli, att, conn, d0, run, orphan, failed, faults>>

\* rkav1d starts here, when the drain timed out.  The codec stops.
ResetPowerCycle(i) ==
    /\ cli[i] /\ d0 /\ mt[i] = (IF IsAv1 THEN "no" ELSE "disabled")
    /\ hw' = [hw EXCEPT ![i] = Wipe(@)]
    /\ run' = [run EXCEPT ![i] = {}] /\ orphan' = orphan \ {i}
    /\ mt' = [mt EXCEPT ![i] = "wiped"]
    /\ UNCHANGED <<flavour, dom, buf, slave, consumers, cli, att, conn, d0, raced, failed, faults>>

ResetEnable(i) ==
    /\ mt[i] = "wiped" /\ ~IsAv1
    /\ \E r \in EnableHw(i, hw[i]) : Outcome(i, r)
    /\ mt' = [mt EXCEPT ![i] = "no"]
    /\ UNCHANGED <<flavour, dom, buf, slave, consumers, cli, att, conn, d0, run, orphan, raced>>

\* rkav1d's Reattach at the end of every session cleanup ...
CleanupReattach(i) ==
    /\ IsAv1 /\ cli[i] /\ d0 /\ mt[i] \in {"no", "wiped"}
    /\ \E r \in Reattach(i, hw[i]) : Outcome(i, r)
    /\ mt' = [mt EXCEPT ![i] = "no"] /\ raced' = raced \ {i}
    /\ UNCHANGED <<flavour, dom, buf, slave, consumers, cli, att, conn, d0, run, orphan>>

\* ... which is skipped when another session is active, after the reset too.
CleanupSkipsReattach(i) ==
    /\ IsAv1 /\ mt[i] = "wiped"
    /\ mt' = [mt EXCEPT ![i] = "no"] /\ raced' = raced \cup {i}
    /\ UNCHANGED <<flavour, dom, buf, hw, slave, consumers, cli, att, conn, d0, run, orphan, failed,
                   faults>>

-----------------------------------------------------------------------------
(* The codec devices' own PnP and power callbacks.                         *)

\* rkvdec's and rkav1d's EvtPrepareHardware, the IOMMU part.  RVD0 registers
\* with the master, enables (and fails without it), resets and reattaches.
CodecPrepare(i) ==
    /\ ~cli[i] /\ hw[i].mmio /\ (i = "s" => ~slave.tearing)
    /\ \E e \in (IF IsAv1 THEN {[h |-> hw[i], ok |-> TRUE]} ELSE EnableHw(i, hw[i])) :
         IF ~e.ok /\ i = "m"
         THEN /\ Outcome(i, e)
              /\ UNCHANGED <<cli, att, consumers, d0>>
         ELSE /\ \E r \in Reattach(i, Wipe(e.h)) : Outcome(i, r)
              /\ cli' = [cli EXCEPT ![i] = TRUE]
              /\ att' = [att EXCEPT ![i] = e.ok]
              /\ consumers' = IF i = "m" /\ ~IsAv1 THEN consumers \cup {"rvd0"} ELSE consumers
              /\ d0' = TRUE
    /\ UNCHANGED <<flavour, dom, buf, slave, conn, run, orphan, mt, raced>>

\* RkMppPeerOnRvd0Connected on RVD1: RVD0 dispatches to it afterwards whether
\* or not the enable and the reattach worked.
PeerOnRvd0Connected ==
    /\ ~IsAv1 /\ cli["m"] /\ cli["s"] /\ conn = "no" /\ mt["s"] = "no"
    /\ \E e \in EnableHw("s", hw["s"]) :
         IF ~e.ok THEN Outcome("s", e) /\ conn' = "bad" /\ UNCHANGED att
         ELSE \E r \in Reattach("s", Wipe(e.h)) :
                /\ Outcome("s", r)
                /\ conn' = IF r.ok THEN "ok" ELSE "bad"
                /\ att' = IF r.ok THEN [att EXCEPT !["s"] = TRUE] ELSE att
    /\ UNCHANGED <<flavour, dom, buf, slave, consumers, cli, d0, run, orphan, mt, raced>>

\* EvtReleaseHardware of a codec device: every session is closed by then.
CodecRelease(i) ==
    /\ cli[i] /\ run[i] = {} /\ mt[i] = "no"
    /\ i = "m" => Live = {} /\ run["s"] = {}
    /\ hw' = [hw EXCEPT ![i] = DisableHw(@)]
    /\ cli' = [cli EXCEPT ![i] = FALSE]
    /\ att' = [att EXCEPT ![i] = FALSE]
    /\ consumers' = IF i = "m" THEN consumers \ {"rvd0"} ELSE consumers
    /\ conn' = "no" /\ raced' = raced \ {i}
    /\ UNCHANGED <<flavour, dom, buf, slave, d0, run, orphan, mt, failed, faults>>

\* rkav1d's D0 transitions.
D0Exit ==
    /\ IsAv1 /\ cli["m"] /\ d0 /\ run["m"] = {} /\ mt["m"] = "no"
    /\ \A b \in Buffers : buf[b].st # "enabling"
    /\ d0' = FALSE /\ raced' = raced \ {"m"}
    /\ hw' = [hw EXCEPT !["m"] = DisableHw(@)]
    /\ UNCHANGED <<flavour, dom, buf, slave, consumers, cli, att, conn, run, orphan, mt, failed, faults>>

D0Entry ==
    /\ IsAv1 /\ cli["m"] /\ ~d0
    /\ \E r \in EnableHw("m", hw["m"]) : Outcome("m", r) /\ d0' = r.ok
    /\ UNCHANGED <<flavour, dom, buf, slave, consumers, cli, att, conn, run, orphan, mt, raced>>

-----------------------------------------------------------------------------
(* The IOMMU devices' PnP callbacks.                                       *)

SlaveIdle == [shadow |-> NoGen, tearing |-> FALSE, open |-> FALSE, pt |-> FALSE,
              arr |-> "idle", base |-> NoGen]

\* EvtPrepareHardware of the master: a fresh domain, an empty registry, and
\* an arrival for a slave that watches.
PrepareMaster ==
    /\ ~IsAv1 /\ ~hw["m"].mmio /\ dom.gen < MaxGen
    /\ dom' = DomainCreate(FALSE, dom.gen + 1)
    /\ hw' = [hw EXCEPT !["m"].mmio = TRUE]
    /\ consumers' = {}
    /\ slave' = IF hw["s"].mmio /\ ~slave.tearing /\ slave.arr = "idle"
                THEN [slave EXCEPT !.arr = "notified"] ELSE slave
    /\ UNCHANGED <<flavour, buf, cli, att, conn, d0, run, orphan, mt, raced, failed, faults>>

\* EvtPrepareHardware and EvtReleaseHardware of rkiommu_av1d, which has neither
\* registry nor slave.
PrepareAv1d ==
    /\ IsAv1 /\ ~hw["m"].mmio /\ dom.gen < MaxGen
    /\ dom' = DomainCreate(TRUE, dom.gen + 1)
    /\ hw' = [hw EXCEPT !["m"].mmio = TRUE]
    /\ UNCHANGED <<flavour, buf, slave, consumers, cli, att, conn, d0, run, orphan, mt, raced, failed, faults>>

RemoveAv1d ==
    /\ IsAv1 /\ hw["m"].mmio /\ ~cli["m"] /\ Live = {}
    /\ hw' = [hw EXCEPT !["m"] = [@ EXCEPT !.mmio = FALSE, !.paging = FALSE]]
    /\ dom' = DomainDestroy(dom)
    /\ UNCHANGED <<flavour, buf, slave, consumers, cli, att, conn, d0, run, orphan, mt, raced, failed, faults>>

\* EvtPrepareHardware of the slave: it watches, and is told at once of a
\* master that is there already.
PrepareSlave ==
    /\ ~IsAv1 /\ ~hw["s"].mmio /\ slave.arr = "idle"
    /\ hw' = [hw EXCEPT !["s"].mmio = TRUE]
    /\ slave' = [SlaveIdle EXCEPT !.arr = IF dom.live THEN "notified" ELSE "idle"]
    /\ UNCHANGED <<flavour, dom, buf, consumers, cli, att, conn, d0, run, orphan, mt, raced, failed, faults>>

\* RkIommuSlaveOnMasterArrival, four steps: the early check and the open,
\* the attach, the registration, and the commit under StateLock.
ArrivalOpen ==
    /\ slave.arr = "notified"
    /\ slave' = IF slave.tearing \/ slave.open \/ ~dom.live
                THEN [slave EXCEPT !.arr = "idle"]
                ELSE [slave EXCEPT !.arr = "opened", !.base = dom.gen]
    /\ UNCHANGED <<flavour, dom, buf, hw, consumers, cli, att, conn, d0, run, orphan, mt, raced, failed,
                   faults>>

ArrivalAttach ==
    /\ slave.arr = "opened"
    /\ \/ slave' = [slave EXCEPT !.arr = "attached", !.shadow = slave.base]
       \/ slave' = [slave EXCEPT !.arr = "idle", !.base = NoGen]    \* no memory
    /\ UNCHANGED <<flavour, dom, buf, hw, consumers, cli, att, conn, d0, run, orphan, mt, raced, failed,
                   faults>>

ArrivalRegister ==
    /\ slave.arr = "attached"
    /\ consumers' = consumers \cup {"s"}
    /\ slave' = [slave EXCEPT !.arr = "registered"]
    /\ UNCHANGED <<flavour, dom, buf, hw, cli, att, conn, d0, run, orphan, mt, raced, failed, faults>>

ArrivalCommit ==
    /\ slave.arr = "registered"
    /\ IF slave.tearing
       THEN /\ consumers' = consumers \ {"s"}
            /\ hw' = [hw EXCEPT !["s"] = DisableHw(@)]
            /\ slave' = [slave EXCEPT !.arr = "idle", !.base = NoGen, !.shadow = NoGen]
       ELSE /\ slave' = [slave EXCEPT !.arr = "idle", !.base = NoGen, !.open = TRUE,
                                      !.pt = TRUE]
            /\ UNCHANGED <<consumers, hw>>
    /\ UNCHANGED <<flavour, dom, buf, cli, att, conn, d0, run, orphan, mt, raced, failed, faults>>

\* Mutant: the slave forgets the master without stopping its own MMU.
SlaveDetachedNoDisable(h, on) == h

\* RkIommuSlaveDetach's effect on the MMU.
SlaveDetached(h, on) == IF on THEN DisableHw(h) ELSE h

\* EvtDeviceQueryRemove of the master: every consumer is called.  The slave
\* detaches if it is open; RVD0 stops taking requests.
QueryRemoved ==
    /\ consumers' = {}
    /\ hw' = [hw EXCEPT !["s"] = SlaveDetached(@, "s" \in consumers /\ slave.open
                                                    /\ slave.shadow # NoGen)]
    /\ slave' = IF "s" \in consumers /\ slave.open
                THEN [slave EXCEPT !.open = FALSE, !.pt = FALSE, !.shadow = NoGen] ELSE slave
    /\ att' = IF "rvd0" \in consumers THEN [att EXCEPT !["m"] = FALSE] ELSE att

\* Who keeps the master device open once its consumers have been called.
StillOpen ==
    \/ cli["m"]
    \/ slave.arr \in {"opened", "attached", "registered"}
    \/ slave.open /\ "s" \notin consumers

\* The PnP manager refuses the removal because the device is still open.
QueryRemoveVetoed ==
    /\ ~IsAv1 /\ hw["m"].mmio /\ StillOpen
    /\ \A b \in Buffers : buf[b].st # "enabling"
    /\ QueryRemoved
    /\ UNCHANGED <<flavour, dom, buf, cli, conn, d0, run, orphan, mt, raced, failed, faults>>

\* The removal goes on to the master's EvtReleaseHardware: no MMIO access,
\* the domain is destroyed.
RemoveMaster ==
    /\ ~IsAv1 /\ hw["m"].mmio /\ ~StillOpen /\ Live = {}
    /\ consumers' = {}
    /\ LET detach == "s" \in consumers /\ slave.open IN
       /\ hw' = [hw EXCEPT !["s"] = SlaveDetached(@, detach /\ slave.shadow # NoGen),
                           !["m"] = [@ EXCEPT !.mmio = FALSE, !.paging = FALSE]]
       /\ slave' = IF detach
                   THEN [slave EXCEPT !.open = FALSE, !.pt = FALSE, !.shadow = NoGen]
                   ELSE slave
    /\ dom' = DomainDestroy(dom)
    /\ UNCHANGED <<flavour, buf, cli, att, conn, d0, run, orphan, mt, raced, failed, faults>>

\* EvtReleaseHardware of the slave: Tearing first, so that an arrival under
\* way does not commit; then the detach if the arrival has committed.
ReleaseSlaveTearing ==
    /\ hw["s"].mmio /\ ~slave.tearing /\ ~cli["s"]
    /\ slave' = [slave EXCEPT !.tearing = TRUE]
    /\ UNCHANGED <<flavour, dom, buf, hw, consumers, cli, att, conn, d0, run, orphan, mt, raced, failed,
                   faults>>

\* MasterUnregisterQueryRemove.
Scrubbed == consumers \ {"s"}

ReleaseSlave ==
    /\ hw["s"].mmio /\ slave.tearing
    /\ consumers' = IF slave.open THEN Scrubbed ELSE consumers
    /\ slave' = IF slave.open
                THEN [slave EXCEPT !.open = FALSE, !.shadow = NoGen,
                                   !.arr = IF @ = "notified" THEN "idle" ELSE @]
                ELSE [slave EXCEPT !.arr = IF @ = "notified" THEN "idle" ELSE @]
    /\ hw' = [hw EXCEPT !["s"] = [SlaveDetached(@, slave.open /\ slave.shadow # NoGen)
                                  EXCEPT !.paging = FALSE, !.mmio = FALSE]]
    /\ UNCHANGED <<flavour, dom, buf, cli, att, conn, d0, run, orphan, mt, raced, failed, faults>>

-----------------------------------------------------------------------------
NoHw == [mmio |-> FALSE, paging |-> FALSE, on |-> FALSE, dte |-> NoGen, tlb |-> {}]

Init ==
    /\ flavour \in {"vdec", "av1d"}
    /\ dom = [live |-> FALSE, gen |-> NoGen, used |-> {}, starts |-> {}, ends |-> {},
              pt |-> [p \in Pages |-> NoFrame], pts |-> {}]
    /\ buf = [b \in Buffers |-> [st |-> "free", base |-> 0]]
    /\ hw = [i \in AllInst |-> NoHw]
    /\ slave = SlaveIdle
    /\ consumers = {}
    /\ cli = [i \in AllInst |-> FALSE] /\ att = [i \in AllInst |-> FALSE]
    /\ conn = "no" /\ d0 = FALSE
    /\ run = [i \in AllInst |-> {}] /\ mt = [i \in AllInst |-> "no"]
    /\ orphan = {} /\ raced = {} /\ failed = {} /\ faults = 0

Next ==
    \/ \E b \in Buffers : MapMdl(b) \/ MapMdlAv1d(b) \/ MapMdlEnable(b) \/ UnmapMdl(b)
    \/ \E b \in Buffers, k \in 0 .. 8 : MapMdlFails(b, k)
    \/ \E i \in Inst, b \in Buffers : Kick(i, {b})
    \/ \E i \in Inst, p \in Pages : TlbFill(i, p)
    \/ \E i \in Inst : \/ FlushTlb(i) \/ EvtIsr(i) \/ Finish(i)
                       \/ ResetDisable(i) \/ ResetPowerCycle(i) \/ ResetEnable(i)
                       \/ CleanupReattach(i) \/ CleanupSkipsReattach(i)
                       \/ CodecPrepare(i) \/ CodecRelease(i)
    \/ PeerOnRvd0Connected \/ D0Exit \/ D0Entry
    \/ PrepareMaster \/ PrepareSlave \/ PrepareAv1d \/ RemoveAv1d
    \/ ArrivalOpen \/ ArrivalAttach \/ ArrivalRegister \/ ArrivalCommit
    \/ QueryRemoveVetoed \/ RemoveMaster \/ ReleaseSlaveTearing \/ ReleaseSlave

Spec == Init /\ [][Next]_vars

-----------------------------------------------------------------------------
(* Types of every variable.                                                *)
TypeOK ==
    /\ flavour \in {"vdec", "av1d"}
    /\ dom.live \in BOOLEAN /\ dom.gen \in 0 .. MaxGen
    /\ dom.used \subseteq Pages /\ dom.starts \subseteq Pages
    /\ dom.ends \subseteq 0 .. IovaPages
    /\ buf \in [Buffers -> [st : {"free", "enabling", "mapped"}, base : Pages]]
    /\ hw \in [AllInst -> HwType]
    /\ slave \in [shadow : 0 .. MaxGen, tearing : BOOLEAN, open : BOOLEAN, pt : BOOLEAN,
                  arr : {"idle", "notified", "opened", "attached", "registered"},
                  base : 0 .. MaxGen]
    /\ consumers \subseteq {"s", "rvd0"}
    /\ cli \in [AllInst -> BOOLEAN] /\ att \in [AllInst -> BOOLEAN]
    /\ conn \in {"no", "ok", "bad"} /\ d0 \in BOOLEAN
    /\ run \in [AllInst -> SUBSET [b : Buffers, base : Pages]]
    /\ mt \in [AllInst -> {"no", "disabled", "wiped"}]
    /\ orphan \subseteq AllInst /\ raced \subseteq {"m"} /\ failed \subseteq AllInst /\ faults \in 0 .. MaxFaults

\* MapMdl and UnmapMdl keep the page tables and the three bitmaps exactly what
\* the outstanding buffers say: every buffer's pages translate to its own
\* frames, nothing else translates, and no bit is left behind by a failed map
\* or taken from a neighbour by an unmap that measured its range wrongly.
IovaExact ==
    dom.live =>
      LET ranges == Reserved(IsAv1)
                    \cup {[base |-> buf[b].base, n |-> PageCount[b]] : b \in Live}
      IN  /\ \A b, c \in Live : b # c => BufPages(b) \cap BufPages(c) = {}
          /\ dom.used = UNION {Span(r.base, r.n) : r \in ranges}
          /\ dom.starts = {r.base : r \in ranges}
          /\ dom.ends = {r.base + r.n : r \in ranges}
          /\ \A p \in Pages : dom.pt[p] =
                IF \E b \in Live : p \in BufPages(b)
                THEN LET b == CHOOSE b \in Live : p \in BufPages(b)
                     IN  Frame(b, p - buf[b].base)
                ELSE NoFrame

\* A job that is translated reaches no frame but its buffer's, as long as the
\* buffer stays mapped: whatever its TLB holds for the buffer's pages is what the
\* page tables say, although the TLB of the slave is not flushed when the master
\* maps and unmaps, and although a cleanup unmaps the buffers of a session whose
\* job is still at work.  What that abandoned job itself reaches is promised by
\* nobody (the finding QuietBeforeUnmap of the README).
DmaExact ==
    \A i \in Inst \ orphan : \A j \in run[i] : hw[i].on =>
        \A e \in hw[i].tlb : e[1] \in RefPages(j) => e[2] = dom.pt[e[1]]

\* PagingEnabled is TRUE only of an MMU that pages through the live domain's
\* directory, so that the "already enabled" exit of EnableHw is right; and a
\* MMU that pages has the flag, so that no flush is skipped.  The first half
\* fails in two ways, until the next Disable: a lazy enable of MapMdl came between
\* a reset's Disable and its power cycle, or rkav1d skipped the Reattach after
\* its reset (the finding PagingStale of the README).
PagingFlagTrue ==
    \A i \in Inst :
        /\ hw[i].paging /\ mt[i] = "no" /\ i \notin raced => hw[i].on /\ hw[i].dte = dom.gen
        /\ hw[i].on /\ hw[i].mmio => hw[i].paging

\* What the callers of Enable and Reattach take for granted of the flag.
PagingStale == \A i \in Inst : hw[i].paging /\ mt[i] = "no" => hw[i].on

\* No MMU pages through the directory of a domain that was destroyed: the
\* query-remove cascade and the codecs' release have stopped every one first.
BoundToLiveDomain ==
    \A i \in Inst : hw[i].on => dom.live /\ hw[i].dte = dom.gen

\* No job runs untranslated while RVD0 counts as attached, on a core that came
\* up with its MMU, except inside a reset, after one whose flag is wrong, and
\* after a paging enable that failed.
JobsTranslated ==
    \A i \in Inst : run[i] # {} /\ att["m"] /\ (i = "s" => conn = "ok") /\ mt[i] = "no"
                      => hw[i].on \/ i \in failed \cup raced

\* What RVD1's side of the connection says: with the enable refused, RVD1 is
\* not attached, and so nothing is decoded on it.
PeerTranslated == run["s"] # {} /\ att["m"] /\ mt["s"] = "no" => hw["s"].on \/ failed # {}

\* The master's registry holds no callback of a device that is gone: a slave
\* that released its hardware has left it, unless its arrival is under way and
\* is about to.
CallbacksLive ==
    /\ "rvd0" \in consumers => cli["m"]
    /\ "s" \in consumers => hw["s"].mmio \/ slave.arr # "idle"

\* What the attach path says of its registration: an attached slave is in the
\* master's registry, or the cascade skips it.
RegisteredWhileOpen == slave.open => "s" \in consumers
=============================================================================
