--------------------------- MODULE RkiommuProofs ---------------------------
(***************************************************************************)
(* The IOMMU drivers, for any number of buffers, pages, domains and faults *)
(* and for both drivers.                                                   *)
(***************************************************************************)
EXTENDS Rkiommu, TLAPS, WellFoundedInduction

HwRec == [mmio : BOOLEAN, paging : BOOLEAN, on : BOOLEAN, dte : Nat,
          tlb : SUBSET (Pages \X Nat)]

DomRec == [live : BOOLEAN, gen : Nat, used : SUBSET Nat, starts : SUBSET Nat,
           ends : SUBSET Nat, pt : [Pages -> Nat], pts : SUBSET Int]

SlaveRec == [shadow : Nat, tearing : BOOLEAN, open : BOOLEAN, pt : BOOLEAN,
             arr : {"idle", "notified", "opened", "attached", "registered"}, base : Nat]

\* What a job holds of one buffer.
JobRec == [b : Buffers, base : Nat]

TypeInv ==
  /\ flavour \in {"vdec", "av1d"}
  /\ dom \in DomRec
  /\ buf \in [Buffers -> [st : {"free", "enabling", "mapped"}, base : Nat]]
  /\ hw \in [AllInst -> HwRec]
  /\ slave \in SlaveRec
  /\ cli \in [AllInst -> BOOLEAN]
  /\ run \in [AllInst -> SUBSET JobRec]
  /\ mt \in [AllInst -> {"no", "disabled", "wiped"}]

\* A job that lost no buffer finds its buffers where it was told they are.
JobsInv ==
  \A i \in AllInst : i \notin orphan =>
    \A j \in run[i] : buf[j.b].st = "mapped" /\ buf[j.b].base = j.base

\* A codec device that is started, in a reset or in use has its MMU's device
\* started, and a buffer that is not free keeps RVD0 started.  rkiommu_av1d has
\* no slave.
CtlInv ==
  /\ dom.live <=> hw["m"].mmio
  /\ dom.live => dom.gen # NoGen
  /\ \A i \in AllInst : cli[i] => hw[i].mmio
  /\ \A i \in AllInst : mt[i] # "no" => cli[i]
  /\ \A i \in AllInst : i \in raced => cli[i]
  /\ Live # {} => cli["m"]
  /\ slave.tearing => ~cli["s"]
  /\ IsAv1 => ~hw["s"].mmio /\ run["s"] = {} /\ \A i \in AllInst : mt[i] # "disabled"

\* The directory the slave borrows is the one of the live domain, and is kept
\* from an arrival that holds the master open or by an attached slave.
SlaveInv ==
  /\ slave.arr \in {"opened", "attached", "registered"}
       => dom.live /\ slave.base = dom.gen
  /\ slave.shadow # NoGen => /\ dom.live /\ slave.shadow = dom.gen
                             /\ slave.open \/ slave.arr \in {"attached", "registered"}
  /\ IsAv1 => slave = SlaveIdle

\* An MMU that pages belongs to a codec that is started, its driver knows, and
\* it walks the directory of the live domain.
HwInv ==
  \A i \in AllInst :
    hw[i].on => /\ cli[i] /\ hw[i].paging /\ dom.live /\ hw[i].dte = dom.gen
                /\ i = "s" => slave.shadow # NoGen

\* PagingEnabled is ahead of the MMU only inside rkav1d's power cycle, and
\* where a reset left it behind.
PagingInv ==
  \A i \in AllInst :
    \/ i \in raced
    \/ /\ hw[i].paging => hw[i].on \/ (IsAv1 /\ mt[i] = "wiped")
       /\ mt[i] = "disabled" => ~hw[i].paging

\* The ranges that are not free.
Range(b) == [base |-> buf[b].base, n |-> PageCount[b]]
Taken == Reserved(IsAv1) \cup {Range(b) : b \in Live}

Apart(r, s) == Span(r.base, r.n) \cap Span(s.base, s.n) = {}

\* The bitmaps of d say that the ranges R, and no others, are taken.
Marked(d, R) ==
  /\ R \subseteq [base : Nat, n : Nat \ {0}]
  /\ \A r \in R : r.base + r.n <= IovaPages
  /\ \A r, s \in R : r # s => Apart(r, s)
  /\ d.used = UNION {Span(r.base, r.n) : r \in R}
  /\ d.starts = {r.base : r \in R}
  /\ d.ends = {r.base + r.n : r \in R}

IovaInv ==
  dom.live =>
    /\ Marked(dom, Taken)
    /\ \A b \in Live : Range(b) \notin Reserved(IsAv1)
    /\ \A b, c \in Live : Range(b) = Range(c) => b = c
    /\ \A b \in Live : \A p \in BufPages(b) :
         dom.pt[p] = Frame(b, p - buf[b].base) /\ p \div PtEntries \in dom.pts
    /\ \A p \in Pages : dom.pt[p] # NoFrame => \E b \in Live : p \in BufPages(b)

\* The TLB of an MMU that pages holds, for the buffers of the running job, what
\* the page tables say; rkav1d's, which is not flushed before a job is kicked,
\* holds nothing else either.
TlbInv ==
  \A i \in AllInst : hw[i].on =>
    \A e \in hw[i].tlb :
      /\ i \notin orphan => \A j \in run[i] : e[1] \in RefPages(j) => e[2] = dom.pt[e[1]]
      /\ IsAv1 => e[2] = dom.pt[e[1]] /\ e[2] # NoFrame

IInv == /\ TypeInv /\ JobsInv /\ CtlInv /\ SlaveInv /\ HwInv /\ PagingInv
        /\ IovaInv /\ TlbInv

-----------------------------------------------------------------------------
(***************************************************************************)
(* The hardware sequences.                                                 *)
(***************************************************************************)

\* What an instance's directory may be, as SlaveInv and CtlInv give it.
DirOK(i) == DomainOf(i) # NoGen => /\ dom.live /\ DomainOf(i) = dom.gen
                                   /\ i = "s" => slave.shadow # NoGen

\* h is what HwInv and PagingInv leave of an MMU's state between two steps of
\* its driver.
Sane(h) == h.on => h.mmio /\ h.paging

\* What any sequence may do to an MMU: if it pages afterwards, then it paged
\* already and at most its TLB went, or it was bound to the live domain with an
\* empty TLB.
Advance(i, h, g) ==
  /\ g \in HwRec /\ g.mmio = h.mmio
  /\ g.on => /\ g.mmio /\ g.paging
             /\ \/ h.on /\ g.dte = h.dte /\ (g.tlb = h.tlb \/ g.tlb = {})
                \/ /\ g.tlb = {} /\ dom.live /\ g.dte = dom.gen
                   /\ i = "s" => slave.shadow # NoGen

LEMMA ZapFacts ==
  ASSUME NEW i, NEW h \in HwRec, Sane(h)
  PROVE  /\ Advance(i, h, Zap(h)) /\ Zap(h).paging = h.paging /\ Zap(h).on = h.on
         /\ Zap(h).on => Zap(h).tlb = {}
BY DEF Zap, Advance, Sane, HwRec

LEMMA DisableFacts ==
  ASSUME NEW i, NEW h \in HwRec, Sane(h)
  PROVE  /\ DisableHw(h) \in HwRec /\ DisableHw(h).mmio = h.mmio /\ ~DisableHw(h).on
         /\ h.mmio => ~DisableHw(h).paging
         /\ Advance(i, h, DisableHw(h))
BY DEF DisableHw, DisableVdec, DisableAv1d, Advance, Sane, HwRec, NoGen

LEMMA WipeFacts ==
  ASSUME NEW i, NEW h \in HwRec
  PROVE  /\ Wipe(h) \in HwRec /\ Wipe(h).mmio = h.mmio /\ ~Wipe(h).on
         /\ Wipe(h).paging = h.paging
         /\ Advance(i, h, Wipe(h))
BY DEF Wipe, Advance, HwRec, NoGen

LEMMA BindFacts ==
  ASSUME TypeInv, NEW i \in AllInst, NEW h \in HwRec, h.mmio,
         DirOK(i), DomainOf(i) # NoGen, NEW r \in Bind(i, h)
  PROVE  /\ Advance(i, h, r.h) /\ (r.h.paging => r.h.on \/ h.paging)
         /\ r.ok <=> r.h.on
<1>1. DomainOf(i) \in Nat
  BY DEF DomainOf, TypeInv, DomRec, SlaveRec, NoGen
<1>2. r = [h |-> [h EXCEPT !.dte = DomainOf(i), !.tlb = {}, !.paging = TRUE, !.on = TRUE],
           ok |-> TRUE]
      \/ r = [h |-> [h EXCEPT !.dte = DomainOf(i), !.tlb = {}, !.on = FALSE], ok |-> FALSE]
  BY DEF Bind, HwRec
<1>3. CASE r = [h |-> [h EXCEPT !.dte = DomainOf(i), !.tlb = {}, !.paging = TRUE,
                                !.on = TRUE], ok |-> TRUE]
  <2>1. /\ r.ok /\ r.h.on /\ r.h.paging /\ r.h.mmio = h.mmio /\ r.h.dte = DomainOf(i)
        /\ r.h.tlb = {} /\ r.h \in HwRec
    BY <1>1, <1>3 DEF HwRec
  <2> QED BY <2>1 DEF Advance, DirOK
<1>4. CASE r = [h |-> [h EXCEPT !.dte = DomainOf(i), !.tlb = {}, !.on = FALSE],
                ok |-> FALSE]
  <2>1. ~r.ok /\ ~r.h.on /\ r.h.paging = h.paging /\ r.h.mmio = h.mmio /\ r.h \in HwRec
    BY <1>1, <1>4 DEF HwRec
  <2> QED BY <2>1 DEF Advance
<1> QED BY <1>2, <1>3, <1>4

LEMMA EnableFacts ==
  ASSUME TypeInv, NEW i \in AllInst, NEW h \in HwRec, Sane(h), DirOK(i),
         NEW r \in EnableHw(i, h)
  PROVE  /\ Advance(i, h, r.h)
         /\ (h.paging => h.on) => (r.h.paging => r.h.on)
         /\ ~r.ok => (r.h.on => h.on)
         /\ r.ok => h.mmio /\ DomainOf(i) # NoGen
<1>1. CASE ~h.mmio \/ DomainOf(i) = NoGen
  BY <1>1 DEF EnableHw, Advance, Sane, HwRec
<1>2. CASE h.mmio /\ DomainOf(i) # NoGen /\ (h.paging \/ (IsAv1 /\ h.on))
  <2>1. r = [h |-> h, ok |-> TRUE] \/ r = [h |-> [h EXCEPT !.paging = TRUE], ok |-> TRUE]
    BY <1>2 DEF EnableHw, EnableAv1d, EnableVdec
  <2>a. [h EXCEPT !.paging = TRUE] \in HwRec
    BY DEF HwRec
  <2>2. /\ r.ok /\ r.h \in HwRec /\ r.h.mmio = h.mmio /\ r.h.on = h.on
        /\ r.h.dte = h.dte /\ r.h.tlb = h.tlb
        /\ h.on => r.h.paging
    <3>1. CASE r = [h |-> h, ok |-> TRUE]
      BY <3>1 DEF Sane
    <3>2. CASE r = [h |-> [h EXCEPT !.paging = TRUE], ok |-> TRUE]
      BY <2>a, <3>2 DEF HwRec
    <3> QED BY <2>1, <3>1, <3>2
  <2>3. (h.paging => h.on) => (r.h.paging => r.h.on)
    BY <1>2, <2>2
  <2> QED BY <1>2, <2>2, <2>3 DEF Advance
<1>3. CASE h.mmio /\ DomainOf(i) # NoGen /\ ~h.paging /\ ~(IsAv1 /\ h.on)
  <2>1. r \in Bind(i, h)
    BY <1>3 DEF EnableHw, EnableAv1d, EnableVdec
  <2> QED BY <1>3, <2>1, BindFacts
<1> QED BY <1>1, <1>2, <1>3

LEMMA ReattachFacts ==
  ASSUME TypeInv, NEW i \in AllInst, NEW h \in HwRec, Sane(h), DirOK(i),
         NEW r \in Reattach(i, h)
  PROVE  /\ Advance(i, h, r.h)
         /\ h.mmio /\ DomainOf(i) # NoGen => (r.h.paging => r.h.on)
         /\ (h.paging => h.on) => (r.h.paging => r.h.on)
<1>1. CASE ~h.mmio \/ DomainOf(i) = NoGen
  BY <1>1 DEF Reattach, Advance, Sane, HwRec
<1>2. CASE h.mmio /\ DomainOf(i) # NoGen
  <2>1. r \in EnableHw(i, DisableHw(h))
    BY <1>2 DEF Reattach
  <2>2. /\ DisableHw(h) \in HwRec /\ DisableHw(h).mmio = h.mmio /\ ~DisableHw(h).on
        /\ ~DisableHw(h).paging /\ Sane(DisableHw(h))
    BY <1>2, DisableFacts DEF Sane
  <2>3. Advance(i, DisableHw(h), r.h) /\ (r.h.paging => r.h.on)
    BY <2>1, <2>2, EnableFacts
  <2> QED BY <1>2, <2>2, <2>3 DEF Advance
<1> QED BY <1>1, <1>2

-----------------------------------------------------------------------------
(***************************************************************************)
(* Steps that only touch one MMU.                                          *)
(***************************************************************************)

LEMMA MmuReady ==
  ASSUME IInv
  PROVE  \A i \in AllInst : hw[i] \in HwRec /\ Sane(hw[i]) /\ DirOK(i)
<1>1. \A i \in AllInst : hw[i] \in HwRec
  BY DEF IInv, TypeInv
<1>2. \A i \in AllInst : Sane(hw[i])
  BY DEF IInv, CtlInv, HwInv, Sane
<1>3. \A i \in AllInst : DirOK(i)
  BY DEF IInv, CtlInv, SlaveInv, DirOK, DomainOf, AllInst, NoGen
<1> QED BY <1>1, <1>2, <1>3

\* The buffers hold the ranges they held.
Held == /\ buf' \in [Buffers -> [st : {"free", "enabling", "mapped"}, base : Nat]]
        /\ \A b \in Buffers : /\ buf'[b].base = buf[b].base
                              /\ buf'[b].st = "free" <=> buf[b].st = "free"

\* Every job that lost no buffer is the one that ran before, or instance i's and
\* new behind an empty TLB.
Kept(k) == k \notin orphan' => run'[k] = {} \/ (run'[k] = run[k] /\ k \notin orphan)
JobsKept(i, g) ==
  \A k \in AllInst : IsAv1 \/ Kept(k) \/ (k = i /\ (g.on => g.tlb = {}))

MmuStep(i, g) ==
  /\ Advance(i, hw[i], g) /\ hw' = [hw EXCEPT ![i] = g]
  /\ UNCHANGED <<flavour, dom, slave>>
  /\ Held

LEMMA HeldIova ==
  ASSUME IInv, Held, UNCHANGED <<flavour, dom>>
  PROVE  /\ IovaInv' /\ Live' = Live
         /\ \A b \in Buffers : (BufPages(b))' = BufPages(b)
<1>1. Live' = Live /\ IsAv1' = IsAv1 /\ Reserved(IsAv1)' = Reserved(IsAv1)
  BY DEF Live, Held, IsAv1, Reserved
<1>2. \A b \in Buffers : (BufPages(b))' = BufPages(b) /\ (Range(b))' = Range(b)
                         /\ buf'[b].base = buf[b].base
  BY DEF BufPages, Range, Held
<1>3. Live \subseteq Buffers
  BY DEF Live
<1>4. Taken' = Taken
  BY <1>1, <1>2, <1>3 DEF Taken
<1>5. Marked(dom, Taken)' <=> Marked(dom, Taken)
  BY <1>4 DEF Marked
<1> QED BY <1>1, <1>2, <1>3, <1>5 DEF IInv, IovaInv

LEMMA MmuInv ==
  ASSUME IInv, NEW i \in AllInst, NEW g, MmuStep(i, g), g.on => cli'[i],
         \A k \in AllInst : k # i => cli'[k] = cli[k],
         JobsKept(i, g)
  PROVE  /\ SlaveInv' /\ HwInv' /\ IovaInv' /\ TlbInv'
         /\ hw' \in [AllInst -> HwRec] /\ hw'[i] = g
         /\ \A k \in AllInst : hw'[k].mmio = hw[k].mmio /\ (k # i => hw'[k] = hw[k])
<1> USE DEF IInv
<1>1. /\ hw' \in [AllInst -> HwRec] /\ hw'[i] = g
      /\ \A k \in AllInst : hw'[k].mmio = hw[k].mmio /\ (k # i => hw'[k] = hw[k])
  BY DEF TypeInv, MmuStep, Advance
<1>2. SlaveInv'
  BY DEF SlaveInv, MmuStep, IsAv1
<1>3. HwInv'
  BY <1>1 DEF HwInv, MmuStep, Advance
<1>4. IovaInv' /\ \A b \in Buffers : (BufPages(b))' = BufPages(b)
  BY HeldIova DEF MmuStep
<1>5. TlbInv'
  <2> SUFFICES ASSUME NEW k \in AllInst, hw'[k].on, NEW e \in hw'[k].tlb
               PROVE  /\ k \notin orphan' => \A j \in run'[k] : e[1] \in RefPages(j) => e[2] = dom'.pt[e[1]]
                      /\ IsAv1' => e[2] = dom'.pt[e[1]] /\ e[2] # NoFrame
    BY DEF TlbInv
  <2>1. hw[k].on /\ e \in hw[k].tlb /\ dom' = dom /\ IsAv1' = IsAv1
    BY <1>1 DEF MmuStep, Advance, IsAv1
  <2>2. CASE IsAv1
    BY <2>1, <2>2 DEF TlbInv
  <2>3. CASE ~IsAv1
    <3>1. Kept(k)
      BY <1>1, <2>1, <2>3 DEF JobsKept
    <3> QED BY <2>1, <2>3, <3>1 DEF TlbInv, Kept
  <2> QED BY <2>2, <2>3
<1> QED BY <1>1, <1>2, <1>3, <1>4, <1>5

LEMMA InstSub ==
  ASSUME NEW i \in Inst
  PROVE  i \in AllInst /\ (IsAv1 => i = "m")
BY DEF Inst, AllInst, IsAv1

\* A step of instance i's driver or of its codec's.
LEMMA DriverStep ==
  ASSUME IInv, NEW i \in AllInst, NEW g, MmuStep(i, g),
         cli' \in [AllInst -> BOOLEAN], mt' \in [AllInst -> {"no", "disabled", "wiped"}],
         \A k \in AllInst : k # i => cli'[k] = cli[k] /\ mt'[k] = mt[k],
         run' \in [AllInst -> SUBSET JobRec], IsAv1 => run'["s"] = {},
         JobsInv',
         JobsKept(i, g),
         g.on => cli'[i],
         cli'[i] => hw[i].mmio, mt'[i] # "no" => cli'[i], IsAv1 => mt'[i] # "disabled",
         cli'[i] /\ i = "s" => ~slave.tearing, Live # {} /\ i = "m" => cli'[i],
         \A k \in AllInst : k # i => (k \in raced' <=> k \in raced),
         i \in raced' => cli'[i],
         \/ i \in raced'
         \/ /\ g.paging => g.on \/ (IsAv1 /\ mt'[i] = "wiped")
            /\ mt'[i] = "disabled" => ~g.paging
  PROVE  IInv'
<1> USE DEF IInv
<1>1. /\ SlaveInv' /\ HwInv' /\ IovaInv' /\ TlbInv'
      /\ hw' \in [AllInst -> HwRec] /\ hw'[i] = g
      /\ \A k \in AllInst : hw'[k].mmio = hw[k].mmio /\ (k # i => hw'[k] = hw[k])
  BY MmuInv
<1>2. TypeInv'
  BY <1>1 DEF TypeInv, MmuStep, Held
<1>3. CtlInv'
  <2>1. Live' = Live /\ "m" \in AllInst /\ "s" \in AllInst /\ IsAv1' = IsAv1
    BY HeldIova DEF MmuStep, AllInst, IsAv1
  <2> QED BY <1>1, <2>1 DEF CtlInv, MmuStep
<1>4. PagingInv'
  BY <1>1 DEF PagingInv, MmuStep, IsAv1
<1> QED BY <1>1, <1>2, <1>3, <1>4

\* One that changes neither a codec device nor a reset, and does not turn
\* PagingEnabled on during a reset.
LEMMA QuietStep ==
  ASSUME IInv, NEW i \in AllInst, NEW g, MmuStep(i, g), UNCHANGED <<cli, mt, raced>>,
         run' \in [AllInst -> SUBSET JobRec], IsAv1 => run'["s"] = {},
         JobsInv',
         JobsKept(i, g),
         g.on => cli[i],
         \/ i \in raced
         \/ /\ g.paging => g.on \/ (IsAv1 /\ mt[i] = "wiped")
            /\ mt[i] = "disabled" => IsAv1 \/ (g.paging => hw[i].paging)
  PROVE  IInv'
<1>1. /\ cli' \in [AllInst -> BOOLEAN]
      /\ mt' \in [AllInst -> {"no", "disabled", "wiped"}]
      /\ \A k \in AllInst : k # i => cli'[k] = cli[k] /\ mt'[k] = mt[k]
      /\ \A k \in AllInst : k # i => (k \in raced' <=> k \in raced)
      /\ g.on => cli'[i]
  BY DEF IInv, TypeInv
<1>2. /\ cli'[i] => hw[i].mmio
      /\ mt'[i] # "no" => cli'[i]
      /\ i \in raced' => cli'[i]
      /\ cli'[i] /\ i = "s" => ~slave.tearing
      /\ Live # {} /\ i = "m" => cli'[i]
  BY DEF IInv, CtlInv
<1>3. /\ i \in raced \/ (mt[i] = "disabled" => ~hw[i].paging)
      /\ IsAv1 => mt[i] # "disabled"
  BY DEF IInv, PagingInv, CtlInv
<1>4. /\ IsAv1 => mt'[i] # "disabled"
      /\ \/ i \in raced'
         \/ /\ g.paging => g.on \/ (IsAv1 /\ mt'[i] = "wiped")
            /\ mt'[i] = "disabled" => ~g.paging
  BY <1>3
<1> QED BY <1>1, <1>2, <1>4, DriverStep

LEMMA HeldSame ==
  ASSUME IInv, UNCHANGED buf
  PROVE  Held
BY DEF IInv, TypeInv, Held

LEMMA KickInv ==
  ASSUME IInv, NEW i \in Inst, NEW b \in Buffers, Kick(i, {b})
  PROVE  IInv'
<1> DEFINE g == IF IsAv1 THEN hw[i] ELSE Zap(hw[i])
<1>0. i \in AllInst /\ (IsAv1 => i = "m")
  BY InstSub
<1>1. hw[i] \in HwRec /\ Sane(hw[i])
  BY <1>0, MmuReady
<1>2. Advance(i, hw[i], hw[i])
  BY <1>1 DEF Advance, Sane
<1>3. /\ Advance(i, hw[i], g) /\ g.paging = hw[i].paging /\ g.on = hw[i].on
      /\ ~IsAv1 => (g.on => g.tlb = {})
  BY <1>1, <1>2, ZapFacts
<1>4. hw' = [hw EXCEPT ![i] = g]
  <2>1. hw = [hw EXCEPT ![i] = hw[i]]
    BY DEF IInv, TypeInv
  <2> QED BY <2>1 DEF Kick, KickHw
<1>5. MmuStep(i, g)
  BY <1>3, <1>4, HeldSame DEF MmuStep, Kick
<1>6. /\ run' \in [AllInst -> SUBSET JobRec] /\ run'[i] = {Ref(b)} /\ orphan' = orphan
      /\ \A k \in AllInst : k # i => run'[k] = run[k]
  <2>1. Ref(b) \in JobRec
    BY DEF Ref, JobRec, IInv, TypeInv
  <2>2. run' = [run EXCEPT ![i] = {Ref(b)}] /\ orphan' = orphan
    BY DEF Kick
  <2> QED BY <1>0, <2>1, <2>2 DEF IInv, TypeInv
<1>7. JobsInv'
  <2>1. Ref(b).b = b /\ Ref(b).base = buf[b].base /\ buf[b].st = "mapped" /\ buf' = buf
    BY DEF Ref, Kick
  <2> QED BY <1>6, <2>1 DEF IInv, JobsInv
<1>8. IsAv1 => run'["s"] = {}
  BY <1>0, <1>6 DEF IInv, CtlInv, AllInst
<1>9. cli[i] /\ UNCHANGED <<cli, mt, raced>>
  BY DEF Kick
<1>10. i \in raced \/ (hw[i].paging => hw[i].on \/ (IsAv1 /\ mt[i] = "wiped"))
  BY <1>0 DEF IInv, PagingInv
<1> HIDE DEF g
<1>11. JobsKept(i, g)
  BY <1>3, <1>6 DEF JobsKept, Kept
<1> QED BY <1>0, <1>3, <1>5, <1>6, <1>7, <1>8, <1>9, <1>10, <1>11, QuietStep

\* A step that leaves every job as it is or ends one, under the same MMU rules.
LEMMA SameRun ==
  ASSUME IInv, NEW i \in AllInst, NEW g, UNCHANGED <<run, orphan, buf>>
  PROVE  /\ run' \in [AllInst -> SUBSET JobRec] /\ (IsAv1 => run'["s"] = {})
         /\ JobsInv'
         /\ JobsKept(i, g)
BY DEF IInv, TypeInv, CtlInv, AllInst, JobsInv, JobsKept, Kept

LEMMA FlushInv ==
  ASSUME IInv, NEW i \in Inst, FlushTlb(i)
  PROVE  IInv'
<1>0. i \in AllInst
  BY InstSub
<1>1. hw[i] \in HwRec /\ Sane(hw[i])
  BY <1>0, MmuReady
<1>2. PICK g : g = Zap(hw[i])
  OBVIOUS
<1>3. /\ Advance(i, hw[i], g) /\ g.paging = hw[i].paging /\ g.on = hw[i].on
  BY <1>1, <1>2, ZapFacts
<1>5. MmuStep(i, g)
  BY <1>2, <1>3, HeldSame DEF MmuStep, FlushTlb
<1>6. /\ run' \in [AllInst -> SUBSET JobRec] /\ (IsAv1 => run'["s"] = {})
      /\ JobsInv'
      /\ JobsKept(i, g)
  BY <1>0, SameRun DEF FlushTlb
<1>9. hw[i].on => cli[i]
  BY <1>0 DEF IInv, HwInv
<1>10. i \in raced \/ (hw[i].paging => hw[i].on \/ (IsAv1 /\ mt[i] = "wiped"))
  BY <1>0 DEF IInv, PagingInv
<1> QED BY <1>0, <1>3, <1>5, <1>6, <1>9, <1>10, QuietStep DEF FlushTlb

LEMMA IsrInv ==
  ASSUME IInv, NEW i \in Inst, EvtIsr(i)
  PROVE  IInv'
<1>0. i \in AllInst
  BY InstSub
<1>1. hw[i] \in HwRec /\ Sane(hw[i])
  BY <1>0, MmuReady
<1>2. PICK g : g = [hw[i] EXCEPT !.tlb = {}]
  OBVIOUS
<1>3. /\ Advance(i, hw[i], g) /\ g.paging = hw[i].paging /\ g.on = hw[i].on
  BY <1>1, <1>2 DEF Advance, HwRec, Sane
<1>4. hw' = [hw EXCEPT ![i] = g]
  BY <1>2 DEF EvtIsr
<1>5. MmuStep(i, g)
  BY <1>3, <1>4, HeldSame DEF MmuStep, EvtIsr
<1>6. /\ run' \in [AllInst -> SUBSET JobRec] /\ (IsAv1 => run'["s"] = {})
      /\ JobsInv'
      /\ JobsKept(i, g)
  BY <1>0, SameRun DEF EvtIsr
<1>9. hw[i].on => cli[i]
  BY <1>0 DEF IInv, HwInv
<1>10. i \in raced \/ (hw[i].paging => hw[i].on \/ (IsAv1 /\ mt[i] = "wiped"))
  BY <1>0 DEF IInv, PagingInv
<1> QED BY <1>0, <1>3, <1>5, <1>6, <1>9, <1>10, QuietStep DEF EvtIsr

LEMMA FinishInv ==
  ASSUME IInv, NEW i \in Inst, Finish(i)
  PROVE  IInv'
<1>0. i \in AllInst
  BY InstSub
<1>1. hw[i] \in HwRec /\ Sane(hw[i])
  BY <1>0, MmuReady
<1>2. PICK g : g = Zap(hw[i])
  OBVIOUS
<1>3. /\ Advance(i, hw[i], g) /\ g.paging = hw[i].paging /\ g.on = hw[i].on
  BY <1>1, <1>2, ZapFacts
<1>5. MmuStep(i, g)
  BY <1>2, <1>3, HeldSame DEF MmuStep, Finish
<1>6. /\ run' \in [AllInst -> SUBSET JobRec] /\ (IsAv1 => run'["s"] = {})
      /\ JobsInv'
      /\ JobsKept(i, g)
  <2>1. /\ run' = [run EXCEPT ![i] = {}] /\ orphan' = orphan \ {i} /\ buf' = buf
    BY DEF Finish
  <2> QED BY <1>0, <2>1 DEF IInv, TypeInv, CtlInv, AllInst, JobsInv, JobsKept, Kept
<1>9. hw[i].on => cli[i]
  BY <1>0 DEF IInv, HwInv
<1>10. i \in raced \/ (hw[i].paging => hw[i].on \/ (IsAv1 /\ mt[i] = "wiped"))
  BY <1>0 DEF IInv, PagingInv
<1> QED BY <1>0, <1>3, <1>5, <1>6, <1>9, <1>10, QuietStep DEF Finish

LEMMA TlbFillInv ==
  ASSUME IInv, NEW i \in Inst, NEW p \in Pages, TlbFill(i, p)
  PROVE  IInv'
<1> USE DEF IInv
<1>0. i \in AllInst
  BY InstSub
<1>1. hw[i] \in HwRec /\ dom.pt[p] \in Nat
  BY <1>0 DEF TypeInv, DomRec
<1>2. PICK g : g = [hw[i] EXCEPT !.tlb = @ \cup {<<p, dom.pt[p]>>}]
  OBVIOUS
<1>3. /\ g \in HwRec /\ g.tlb = hw[i].tlb \cup {<<p, dom.pt[p]>>}
      /\ g.mmio = hw[i].mmio /\ g.paging = hw[i].paging /\ g.on = hw[i].on
      /\ g.dte = hw[i].dte
  BY <1>1, <1>2 DEF HwRec
<1>4. hw' = [hw EXCEPT ![i] = g]
  BY <1>2 DEF TlbFill
<1>5. hw' \in [AllInst -> HwRec] /\ hw'[i] = g /\ \A k \in AllInst : k # i => hw'[k] = hw[k]
  BY <1>0, <1>3, <1>4 DEF TypeInv
<1>6. TypeInv'
  BY <1>5 DEF TypeInv, TlbFill
<1>7. JobsInv' /\ CtlInv' /\ SlaveInv' /\ HwInv' /\ PagingInv'
  BY <1>3, <1>5 DEF JobsInv, CtlInv, SlaveInv, HwInv, PagingInv, TlbFill, Live, IsAv1, AllInst
<1>8. IovaInv' /\ \A b \in Buffers : (BufPages(b))' = BufPages(b)
  BY HeldSame, HeldIova DEF TlbFill
<1>9. TlbInv'
  <2> SUFFICES ASSUME NEW k \in AllInst, hw'[k].on, NEW e \in hw'[k].tlb
               PROVE  /\ k \notin orphan' => \A j \in run'[k] : e[1] \in RefPages(j) => e[2] = dom'.pt[e[1]]
                      /\ IsAv1' => e[2] = dom'.pt[e[1]] /\ e[2] # NoFrame
    BY DEF TlbInv
  <2>1. dom' = dom /\ IsAv1' = IsAv1 /\ run' = run /\ orphan' = orphan /\ dom.pt[p] # NoFrame
    BY DEF TlbFill, IsAv1
  <2>2. CASE e \in hw[k].tlb
    <3>1. hw[k].on
      BY <1>3, <1>5
    <3> QED BY <2>1, <2>2, <3>1 DEF TlbInv
  <2>3. CASE e \notin hw[k].tlb
    <3>1. e = <<p, dom.pt[p]>>
      BY <1>3, <1>5, <2>3
    <3> QED BY <2>1, <3>1
  <2> QED BY <2>2, <2>3
<1> QED BY <1>6, <1>7, <1>8, <1>9

LEMMA MapMdlEnableInv ==
  ASSUME IInv, NEW b \in Buffers, MapMdlEnable(b)
  PROVE  IInv'
<1>0. "m" \in AllInst
  BY DEF AllInst
<1>1. hw["m"] \in HwRec /\ Sane(hw["m"]) /\ DirOK("m") /\ TypeInv
  BY <1>0, MmuReady DEF IInv
<1>2. PICK r \in EnableHw("m", hw["m"]) : Outcome("m", r)
  BY DEF MapMdlEnable
<1>3. /\ Advance("m", hw["m"], r.h)
      /\ (hw["m"].paging => hw["m"].on) => (r.h.paging => r.h.on)
  BY <1>0, <1>1, <1>2, EnableFacts
<1>4. Held
  BY DEF Held, MapMdlEnable, IInv, TypeInv
<1>5. MmuStep("m", r.h)
  BY <1>2, <1>3, <1>4 DEF MmuStep, Outcome, MapMdlEnable
<1>6. /\ run' \in [AllInst -> SUBSET JobRec] /\ (IsAv1 => run'["s"] = {})
      /\ JobsInv' /\ JobsKept("m", r.h)
  <2>1. /\ buf[b].st = "enabling" /\ buf' = [buf EXCEPT ![b].st = "mapped"]
        /\ UNCHANGED <<run, orphan>>
    BY DEF MapMdlEnable
  <2>2. \A c \in Buffers : buf'[c].base = buf[c].base /\ (c # b => buf'[c].st = buf[c].st)
                           /\ buf'[b].st = "mapped"
    BY <2>1 DEF IInv, TypeInv
  <2>3. \A k \in AllInst : \A j \in run[k] : j.b \in Buffers
    BY DEF IInv, TypeInv, JobRec
  <2> QED BY <2>1, <2>2, <2>3 DEF IInv, TypeInv, CtlInv, JobsInv, JobsKept, Kept
<1>7. cli["m"]
  <2>1. b \in Live
    BY DEF MapMdlEnable, Live
  <2> QED BY <2>1 DEF IInv, CtlInv
<1>8. /\ cli' = cli /\ mt' = mt
      /\ raced' = IF mt["m"] = "disabled" THEN raced \cup {"m"} ELSE raced
  BY DEF MapMdlEnable
<1>9. \/ "m" \in raced'
      \/ /\ r.h.paging => r.h.on \/ (IsAv1 /\ mt'["m"] = "wiped")
         /\ mt'["m"] = "disabled" => ~r.h.paging
  <2>1. "m" \in raced \/ (hw["m"].paging => hw["m"].on \/ (IsAv1 /\ mt["m"] = "wiped"))
    BY <1>0 DEF IInv, PagingInv
  <2> QED BY <1>3, <1>8, <2>1
<1>10. /\ cli' \in [AllInst -> BOOLEAN] /\ mt' \in [AllInst -> {"no", "disabled", "wiped"}]
       /\ hw["m"].mmio /\ (IsAv1 => mt'["m"] # "disabled")
  BY <1>0, <1>7, <1>8 DEF IInv, TypeInv, CtlInv
<1>11. \A k \in AllInst : k # "m" => /\ cli'[k] = cli[k] /\ mt'[k] = mt[k]
                                      /\ k \in raced' <=> k \in raced
  BY <1>8
<1> QED BY <1>0, <1>5, <1>6, <1>7, <1>8, <1>9, <1>10, <1>11, DriverStep

\* A step of a reset; the power cycle ends the job.
LEMMA ResetStep ==
  ASSUME IInv, NEW i \in AllInst, NEW g, NEW x \in {"no", "disabled", "wiped"},
         Advance(i, hw[i], g), hw' = [hw EXCEPT ![i] = g], mt' = [mt EXCEPT ![i] = x],
         UNCHANGED <<flavour, dom, slave, buf, cli>>, cli[i], IsAv1 => x # "disabled",
         \/ UNCHANGED <<run, orphan>>
         \/ run' = [run EXCEPT ![i] = {}] /\ orphan' = orphan \ {i},
         raced' = raced \/ raced' = raced \ {i} \/ raced' = raced \cup {i},
         \/ i \in raced'
         \/ /\ g.paging => g.on \/ (IsAv1 /\ x = "wiped")
            /\ x = "disabled" => ~g.paging
  PROVE  IInv'
<1>1. MmuStep(i, g)
  BY HeldSame DEF MmuStep
<1>2. /\ run' \in [AllInst -> SUBSET JobRec] /\ (IsAv1 => run'["s"] = {})
      /\ JobsInv' /\ JobsKept(i, g)
  <2>1. CASE UNCHANGED <<run, orphan>>
    BY <2>1, SameRun
  <2>2. CASE run' = [run EXCEPT ![i] = {}] /\ orphan' = orphan \ {i}
    BY <2>2 DEF IInv, TypeInv, CtlInv, AllInst, JobsInv, JobsKept, Kept
  <2> QED BY <2>1, <2>2
<1>3. /\ cli' \in [AllInst -> BOOLEAN] /\ cli'[i]
      /\ mt' \in [AllInst -> {"no", "disabled", "wiped"}] /\ mt'[i] = x
      /\ \A k \in AllInst : k # i => /\ cli'[k] = cli[k] /\ mt'[k] = mt[k]
                                     /\ k \in raced' <=> k \in raced
  BY DEF IInv, TypeInv
<1>4. hw[i].mmio /\ (i = "s" => ~slave.tearing)
  BY DEF IInv, CtlInv
<1> QED BY <1>1, <1>2, <1>3, <1>4, DriverStep

LEMMA ResetInv ==
  ASSUME IInv, NEW i \in Inst,
         \/ ResetDisable(i) \/ ResetPowerCycle(i) \/ ResetEnable(i)
         \/ CleanupReattach(i) \/ CleanupSkipsReattach(i)
  PROVE  IInv'
<1>0. i \in AllInst /\ TypeInv
  BY InstSub DEF IInv
<1>1. hw[i] \in HwRec /\ Sane(hw[i]) /\ DirOK(i)
  BY <1>0, MmuReady
<1>2. /\ mt[i] # "no" => cli[i]
      /\ cli[i] => hw[i].mmio /\ (i = "m" => dom.live /\ dom.gen # NoGen)
  BY <1>0 DEF IInv, CtlInv
<1>3. \/ i \in raced
      \/ /\ hw[i].paging => hw[i].on \/ (IsAv1 /\ mt[i] = "wiped")
         /\ mt[i] = "disabled" => ~hw[i].paging
  BY <1>0 DEF IInv, PagingInv
<1>4. cli[i] /\ IsAv1 => DomainOf(i) # NoGen
  BY <1>2, InstSub DEF DomainOf
<1>5. CASE ResetDisable(i)
  <2>1. /\ Advance(i, hw[i], DisableHw(hw[i])) /\ ~DisableHw(hw[i]).on
        /\ hw[i].mmio => ~DisableHw(hw[i]).paging
    BY <1>0, <1>1, DisableFacts
  <2> QED BY <1>0, <1>2, <1>5, <2>1, ResetStep DEF ResetDisable
<1>6. CASE ResetPowerCycle(i)
  <2>1. /\ Advance(i, hw[i], Wipe(hw[i])) /\ ~Wipe(hw[i]).on
        /\ Wipe(hw[i]).paging = hw[i].paging
    BY <1>0, <1>1, WipeFacts
  <2>2. i \in raced \/ (~IsAv1 => ~hw[i].paging)
    BY <1>3, <1>6 DEF ResetPowerCycle
  <2>3. cli[i]
    BY <1>6 DEF ResetPowerCycle
  <2> QED BY <1>0, <1>6, <2>1, <2>2, <2>3, ResetStep DEF ResetPowerCycle
<1>7. CASE ResetEnable(i)
  <2>1. PICK r \in EnableHw(i, hw[i]) : Outcome(i, r)
    BY <1>7 DEF ResetEnable
  <2>2. cli[i] /\ mt[i] = "wiped" /\ ~IsAv1
    BY <1>2, <1>7 DEF ResetEnable
  <2>3. Advance(i, hw[i], r.h) /\ (i \in raced \/ (r.h.paging => r.h.on))
    BY <1>0, <1>1, <1>3, <2>1, <2>2, EnableFacts
  <2> QED BY <1>0, <1>7, <2>1, <2>2, <2>3, ResetStep DEF ResetEnable, Outcome
<1>8. CASE CleanupReattach(i)
  <2>1. PICK r \in Reattach(i, hw[i]) : Outcome(i, r)
    BY <1>8 DEF CleanupReattach
  <2>2. cli[i] /\ IsAv1
    BY <1>8 DEF CleanupReattach
  <2>3. Advance(i, hw[i], r.h) /\ (r.h.paging => r.h.on)
    BY <1>0, <1>1, <1>2, <1>4, <2>1, <2>2, ReattachFacts
  <2> QED BY <1>0, <1>8, <2>1, <2>2, <2>3, ResetStep DEF CleanupReattach, Outcome
<1>9. CASE CleanupSkipsReattach(i)
  <2>1. Advance(i, hw[i], hw[i]) /\ hw' = [hw EXCEPT ![i] = hw[i]]
    BY <1>0, <1>1, <1>9 DEF Advance, Sane, CleanupSkipsReattach, TypeInv
  <2>2. i \in raced' /\ cli[i]
    BY <1>2, <1>9 DEF CleanupSkipsReattach
  <2> QED BY <1>0, <1>9, <2>1, <2>2, ResetStep DEF CleanupSkipsReattach
<1> QED BY <1>5, <1>6, <1>7, <1>8, <1>9

-----------------------------------------------------------------------------
(***************************************************************************)
(* The codec devices' callbacks.                                           *)
(***************************************************************************)

\* A reset of the core that follows an enable, as in EvtPrepareHardware and
\* in the peer's connection.
LEMMA ResetAndReattach ==
  ASSUME TypeInv, NEW i \in AllInst, NEW h \in HwRec, Sane(h), DirOK(i),
         NEW e, Advance(i, h, e), NEW r \in Reattach(i, Wipe(e))
  PROVE  /\ Advance(i, h, r.h)
         /\ e.mmio /\ DomainOf(i) # NoGen => (r.h.paging => r.h.on)
         /\ ~e.paging => (r.h.paging => r.h.on)
<1>1. e \in HwRec /\ e.mmio = h.mmio
  BY DEF Advance
<1>2. /\ Wipe(e) \in HwRec /\ Wipe(e).mmio = h.mmio /\ ~Wipe(e).on
      /\ Wipe(e).paging = e.paging /\ Sane(Wipe(e))
  BY <1>1, WipeFacts DEF Sane
<1>3. /\ Advance(i, Wipe(e), r.h)
      /\ Wipe(e).mmio /\ DomainOf(i) # NoGen => (r.h.paging => r.h.on)
      /\ (Wipe(e).paging => Wipe(e).on) => (r.h.paging => r.h.on)
  BY <1>2, ReattachFacts
<1> QED BY <1>1, <1>2, <1>3 DEF Advance

LEMMA CodecPrepareInv ==
  ASSUME IInv, NEW i \in Inst, CodecPrepare(i)
  PROVE  IInv'
<1>0. i \in AllInst /\ TypeInv
  BY InstSub DEF IInv
<1>1. hw[i] \in HwRec /\ Sane(hw[i]) /\ DirOK(i)
  BY <1>0, MmuReady
<1>2. ~cli[i] /\ hw[i].mmio /\ (i = "s" => ~slave.tearing) /\ UNCHANGED <<mt, raced, run, orphan, buf>>
      /\ UNCHANGED <<flavour, dom, slave>>
  BY DEF CodecPrepare
<1>3. ~hw[i].on /\ mt[i] = "no" /\ i \notin raced
  BY <1>0, <1>2 DEF IInv, HwInv, CtlInv
<1>4. ~hw[i].paging
  BY <1>0, <1>3 DEF IInv, PagingInv
<1>5. PICK e \in (IF IsAv1 THEN {[h |-> hw[i], ok |-> TRUE]} ELSE EnableHw(i, hw[i])) :
         IF ~e.ok /\ i = "m"
         THEN /\ Outcome(i, e)
              /\ UNCHANGED <<cli, att, consumers, d0>>
         ELSE /\ \E r \in Reattach(i, Wipe(e.h)) : Outcome(i, r)
              /\ cli' = [cli EXCEPT ![i] = TRUE]
  BY DEF CodecPrepare
<1>6. /\ Advance(i, hw[i], e.h)
      /\ e.h.paging => e.h.on
      /\ ~e.ok => ~e.h.on
      /\ e.ok => IsAv1 \/ DomainOf(i) # NoGen
  <2>1. CASE IsAv1
    <3>1. e = [h |-> hw[i], ok |-> TRUE]
      BY <1>5, <2>1
    <3> QED BY <1>1, <1>3, <1>4, <2>1, <3>1 DEF Advance
  <2>2. CASE ~IsAv1
    BY <1>0, <1>1, <1>3, <1>4, <1>5, <2>2, EnableFacts
  <2> QED BY <2>1, <2>2
<1>7. \A g : /\ run' \in [AllInst -> SUBSET JobRec] /\ (IsAv1 => run'["s"] = {})
            /\ JobsInv' /\ JobsKept(i, g)
  BY <1>0, <1>2, SameRun
<1>8. CASE ~e.ok /\ i = "m"
  <2>1. MmuStep(i, e.h)
    BY <1>2, <1>5, <1>6, <1>8, HeldSame DEF MmuStep, Outcome
  <2>2. ~e.h.on /\ ~e.h.paging /\ UNCHANGED cli
    BY <1>5, <1>6, <1>8
  <2> QED BY <1>0, <1>2, <1>7, <2>1, <2>2, QuietStep
<1>9. CASE ~(~e.ok /\ i = "m")
  <2>1. PICK r \in Reattach(i, Wipe(e.h)) : Outcome(i, r)
    BY <1>5, <1>9
  <2>2. cli' = [cli EXCEPT ![i] = TRUE]
    BY <1>5, <1>9
  <2>3. /\ Advance(i, hw[i], r.h)
        /\ e.h.mmio /\ DomainOf(i) # NoGen => (r.h.paging => r.h.on)
        /\ ~e.h.paging => (r.h.paging => r.h.on)
    BY <1>0, <1>1, <1>6, <2>1, ResetAndReattach
  <2>4. e.h.mmio
    BY <1>2, <1>6 DEF Advance
  <2>5. r.h.paging => r.h.on
    <3>1. CASE IsAv1
      <4>1. DomainOf(i) # NoGen
        BY <1>0, <1>2, <3>1, InstSub DEF DomainOf, IInv, CtlInv
      <4> QED BY <2>3, <2>4, <4>1
    <3>2. CASE e.ok /\ ~IsAv1
      BY <1>6, <2>3, <2>4, <3>2
    <3>3. CASE ~e.ok
      BY <1>6, <2>3, <3>3
    <3> QED BY <3>1, <3>2, <3>3
  <2>6. MmuStep(i, r.h)
    BY <1>2, <2>1, <2>3, HeldSame DEF MmuStep, Outcome
  <2>7. /\ cli' \in [AllInst -> BOOLEAN] /\ cli'[i] /\ mt'[i] = "no"
        /\ mt' \in [AllInst -> {"no", "disabled", "wiped"}]
        /\ \A k \in AllInst : k # i => /\ cli'[k] = cli[k] /\ mt'[k] = mt[k]
                                       /\ k \in raced' <=> k \in raced
    BY <1>0, <1>2, <1>3, <2>2 DEF TypeInv
  <2> QED BY <1>0, <1>2, <1>7, <2>5, <2>6, <2>7, DriverStep
<1> QED BY <1>8, <1>9

LEMMA PeerConnectedInv ==
  ASSUME IInv, PeerOnRvd0Connected
  PROVE  IInv'
<1>0. "s" \in AllInst /\ TypeInv
  BY DEF IInv, AllInst
<1>1. hw["s"] \in HwRec /\ Sane(hw["s"]) /\ DirOK("s")
  BY <1>0, MmuReady
<1>2. /\ cli["s"] /\ mt["s"] = "no" /\ ~IsAv1
      /\ UNCHANGED <<flavour, dom, slave, buf, cli, run, orphan, mt, raced>>
  BY DEF PeerOnRvd0Connected
<1>3. "s" \in raced \/ (hw["s"].paging => hw["s"].on)
  BY <1>0, <1>2 DEF IInv, PagingInv
<1>4. PICK e \in EnableHw("s", hw["s"]) :
         IF ~e.ok THEN Outcome("s", e)
         ELSE \E r \in Reattach("s", Wipe(e.h)) : Outcome("s", r)
  BY DEF PeerOnRvd0Connected
<1>5. /\ Advance("s", hw["s"], e.h)
      /\ "s" \in raced \/ (e.h.paging => e.h.on)
      /\ e.ok => hw["s"].mmio /\ DomainOf("s") # NoGen
  BY <1>0, <1>1, <1>3, <1>4, EnableFacts
<1>6. PICK g : /\ Advance("s", hw["s"], g) /\ hw' = [hw EXCEPT !["s"] = g]
               /\ "s" \in raced \/ (g.paging => g.on)
  <2>1. CASE ~e.ok
    BY <1>4, <1>5, <2>1 DEF Outcome
  <2>2. CASE e.ok
    <3>1. PICK r \in Reattach("s", Wipe(e.h)) : Outcome("s", r)
      BY <1>4, <2>2
    <3>2. /\ Advance("s", hw["s"], r.h)
          /\ e.h.mmio /\ DomainOf("s") # NoGen => (r.h.paging => r.h.on)
      BY <1>0, <1>1, <1>5, <3>1, ResetAndReattach
    <3>3. e.h.mmio
      BY <1>5, <2>2 DEF Advance
    <3> QED BY <1>5, <2>2, <3>1, <3>2, <3>3 DEF Outcome
  <2> QED BY <2>1, <2>2
<1>7. MmuStep("s", g)
  BY <1>2, <1>6, HeldSame DEF MmuStep
<1>8. /\ run' \in [AllInst -> SUBSET JobRec] /\ (IsAv1 => run'["s"] = {})
      /\ JobsInv'
      /\ JobsKept("s", g)
  BY <1>0, <1>2, SameRun
<1> QED BY <1>0, <1>2, <1>6, <1>7, <1>8, QuietStep

LEMMA CodecReleaseInv ==
  ASSUME IInv, NEW i \in Inst, CodecRelease(i)
  PROVE  IInv'
<1>0. i \in AllInst /\ TypeInv
  BY InstSub DEF IInv
<1>1. hw[i] \in HwRec /\ Sane(hw[i]) /\ DirOK(i)
  BY <1>0, MmuReady
<1>2. PICK g : g = DisableHw(hw[i])
  OBVIOUS
<1>3. Advance(i, hw[i], g) /\ ~g.on /\ (hw[i].mmio => ~g.paging)
  BY <1>0, <1>1, <1>2, DisableFacts
<1>4. cli[i] /\ mt[i] = "no" /\ hw[i].mmio
  BY <1>0 DEF CodecRelease, IInv, CtlInv
<1>5. MmuStep(i, g)
  BY <1>2, <1>3, HeldSame DEF MmuStep, CodecRelease
<1>6. /\ run' \in [AllInst -> SUBSET JobRec] /\ (IsAv1 => run'["s"] = {})
      /\ JobsInv'
      /\ JobsKept(i, g)
  BY <1>0, SameRun DEF CodecRelease
<1>7. /\ cli' \in [AllInst -> BOOLEAN] /\ ~cli'[i] /\ mt'[i] = "no"
      /\ mt' \in [AllInst -> {"no", "disabled", "wiped"}]
      /\ i \notin raced'
      /\ \A k \in AllInst : k # i => /\ cli'[k] = cli[k] /\ mt'[k] = mt[k]
                                     /\ k \in raced' <=> k \in raced
  BY <1>0, <1>4 DEF TypeInv, CodecRelease
<1>8. ~(Live # {} /\ i = "m")
  BY DEF CodecRelease
<1> QED BY <1>0, <1>3, <1>4, <1>5, <1>6, <1>7, <1>8, DriverStep

LEMMA D0Inv ==
  ASSUME IInv, D0Exit \/ D0Entry
  PROVE  IInv'
<1>0. "m" \in AllInst /\ TypeInv
  BY DEF IInv, AllInst
<1>1. hw["m"] \in HwRec /\ Sane(hw["m"]) /\ DirOK("m")
  BY <1>0, MmuReady
<1>2. cli["m"] /\ IsAv1 /\ hw["m"].mmio /\ DomainOf("m") # NoGen
      /\ UNCHANGED <<flavour, dom, slave, buf, cli, run, orphan, mt>>
  BY <1>0 DEF D0Exit, D0Entry, IInv, CtlInv, DomainOf
<1>3. "m" \in raced \/ (hw["m"].paging => hw["m"].on \/ mt["m"] = "wiped")
  BY <1>0 DEF IInv, PagingInv
<1>4. PICK g : /\ Advance("m", hw["m"], g) /\ hw' = [hw EXCEPT !["m"] = g]
               /\ "m" \in raced' \/ (g.paging => g.on \/ mt["m"] = "wiped")
  <2>1. CASE D0Exit
    BY <1>0, <1>1, <1>2, <2>1, DisableFacts DEF D0Exit
  <2>2. CASE D0Entry
    <3>1. PICK r \in EnableHw("m", hw["m"]) : Outcome("m", r)
      BY <2>2 DEF D0Entry
    <3>2. /\ Advance("m", hw["m"], r.h)
          /\ (hw["m"].paging => hw["m"].on) => (r.h.paging => r.h.on)
      BY <1>0, <1>1, <3>1, EnableFacts
    <3>3. raced' = raced
      BY <2>2 DEF D0Entry
    <3> QED BY <1>3, <3>1, <3>2, <3>3 DEF Outcome
  <2> QED BY <2>1, <2>2
<1>5. MmuStep("m", g)
  BY <1>2, <1>4, HeldSame DEF MmuStep
<1>6. /\ run' \in [AllInst -> SUBSET JobRec] /\ (IsAv1 => run'["s"] = {})
      /\ JobsInv'
      /\ JobsKept("m", g)
  BY <1>0, <1>2, SameRun
<1>7. raced' = raced \/ raced' = raced \ {"m"}
  BY DEF D0Exit, D0Entry
<1>8. /\ cli' \in [AllInst -> BOOLEAN] /\ mt' \in [AllInst -> {"no", "disabled", "wiped"}]
      /\ mt'["m"] # "disabled"
      /\ \A k \in AllInst : k # "m" => /\ cli'[k] = cli[k] /\ mt'[k] = mt[k]
                                       /\ k \in raced' <=> k \in raced
  BY <1>0, <1>2, <1>7 DEF TypeInv, IInv, CtlInv
<1> QED BY <1>0, <1>2, <1>4, <1>5, <1>6, <1>8, DriverStep

-----------------------------------------------------------------------------
(***************************************************************************)
(* The IOMMU devices' callbacks.                                           *)
(***************************************************************************)

\* The slave's PnP state moves and its MMU is left alone or stopped.
LEMMA SlaveStep ==
  ASSUME IInv, UNCHANGED <<flavour, dom, buf, cli, run, orphan, mt, raced>>, slave' \in SlaveRec, SlaveInv',
         NEW g \in HwRec, hw' = [hw EXCEPT !["s"] = g],
         g = hw["s"] \/ (~g.on /\ (g.paging => hw["s"].paging /\ ~hw["s"].on)),
         g.on => slave'.shadow # NoGen, cli["s"] => g.mmio,
         slave'.tearing => ~cli["s"], IsAv1 => ~g.mmio
  PROVE  IInv'
<1> USE DEF IInv
<1>1. /\ hw' \in [AllInst -> HwRec] /\ hw'["s"] = g
      /\ \A k \in AllInst : k # "s" => hw'[k] = hw[k]
      /\ "m" \in AllInst /\ "s" \in AllInst /\ "m" # "s"
  BY DEF TypeInv, AllInst
<1>2. TypeInv'
  BY <1>1 DEF TypeInv
<1>3. Live' = Live /\ IsAv1' = IsAv1
  BY DEF Live, IsAv1
<1>4. CtlInv'
  BY <1>1, <1>3 DEF CtlInv
<1>5. HwInv'
  BY <1>1 DEF HwInv, AllInst
<1>6. PagingInv'
  BY <1>1, <1>3 DEF PagingInv
<1>7. IovaInv' /\ \A b \in Buffers : (BufPages(b))' = BufPages(b)
  BY HeldSame, HeldIova
<1>8. TlbInv'
  <2>1. \A k \in AllInst : hw'[k].on => hw[k].on /\ hw'[k].tlb = hw[k].tlb
    BY <1>1
  <2> QED BY <1>3, <2>1 DEF TlbInv
<1>9. JobsInv'
  BY DEF JobsInv
<1> QED BY <1>2, <1>4, <1>5, <1>6, <1>7, <1>8, <1>9

LEMMA ArrivalInv ==
  ASSUME IInv, ArrivalOpen \/ ArrivalAttach \/ ArrivalRegister \/ ArrivalCommit
               \/ ReleaseSlaveTearing
  PROVE  IInv'
<1> USE DEF IInv
<1>1. /\ UNCHANGED <<flavour, dom, buf, cli, run, orphan, mt, raced>> /\ slave \in SlaveRec
      /\ dom.gen \in Nat /\ (dom.live => dom.gen # NoGen) /\ "s" \in AllInst
  BY DEF ArrivalOpen, ArrivalAttach, ArrivalRegister, ArrivalCommit, ReleaseSlaveTearing,
         TypeInv, DomRec, AllInst, CtlInv
<1>2. /\ hw["s"] \in HwRec /\ Sane(hw["s"]) /\ hw = [hw EXCEPT !["s"] = hw["s"]]
  BY <1>1, MmuReady DEF TypeInv
<1>3. /\ slave.tearing => ~cli["s"]
      /\ cli["s"] => hw["s"].mmio
      /\ IsAv1 => ~hw["s"].mmio /\ slave = SlaveIdle
      /\ hw["s"].on => cli["s"] /\ slave.shadow # NoGen
  BY <1>1 DEF CtlInv, SlaveInv, HwInv
<1>a. IsAv1 => slave.arr = "idle"
  BY <1>3 DEF SlaveIdle
<1>4. CASE ArrivalOpen
  <2>1. /\ slave' \in SlaveRec /\ slave'.shadow = slave.shadow
        /\ slave'.tearing = slave.tearing
    BY <1>1, <1>4 DEF ArrivalOpen, SlaveRec
  <2>2. SlaveInv'
    BY <1>1, <1>a, <1>4 DEF ArrivalOpen, SlaveRec, SlaveInv, IsAv1
  <2> QED BY <1>1, <1>2, <1>3, <1>4, <2>1, <2>2, SlaveStep DEF ArrivalOpen
<1>5. CASE ArrivalAttach
  <2>1. /\ slave' \in SlaveRec /\ slave'.tearing = slave.tearing
        /\ slave'.shadow = slave.shadow \/ (slave'.shadow = dom.gen /\ dom.live)
    <3>1. slave.base = dom.gen /\ dom.live /\ NoGen \in Nat
      BY <1>5 DEF ArrivalAttach, SlaveInv, NoGen
    <3>2. CASE slave' = [slave EXCEPT !.arr = "attached", !.shadow = slave.base]
      BY <1>1, <3>1, <3>2 DEF SlaveRec
    <3>3. CASE slave' = [slave EXCEPT !.arr = "idle", !.base = NoGen]
      BY <1>1, <3>1, <3>3 DEF SlaveRec
    <3> QED BY <1>5, <3>2, <3>3 DEF ArrivalAttach
  <2>2. SlaveInv'
    BY <1>1, <1>a, <1>5 DEF ArrivalAttach, SlaveRec, SlaveInv, IsAv1
  <2> QED BY <1>1, <1>2, <1>3, <1>5, <2>1, <2>2, SlaveStep DEF ArrivalAttach
<1>6. CASE ArrivalRegister
  <2>1. /\ slave' \in SlaveRec /\ slave'.shadow = slave.shadow
        /\ slave'.tearing = slave.tearing
    BY <1>1, <1>6 DEF ArrivalRegister, SlaveRec
  <2>2. SlaveInv'
    BY <1>1, <1>a, <1>6 DEF ArrivalRegister, SlaveRec, SlaveInv, IsAv1
  <2> QED BY <1>1, <1>2, <1>3, <1>6, <2>1, <2>2, SlaveStep DEF ArrivalRegister
<1>7. CASE ArrivalCommit
  <2>0. NoGen \in Nat
    BY DEF NoGen
  <2>1. /\ slave' \in SlaveRec /\ slave'.tearing = slave.tearing
        /\ ~slave.tearing => slave'.shadow = slave.shadow
        /\ slave'.arr = "idle"
        /\ slave'.shadow # NoGen => slave'.shadow = slave.shadow /\ slave'.open
    <3>1. CASE slave.tearing
      BY <1>1, <1>7, <2>0, <3>1 DEF ArrivalCommit, SlaveRec
    <3>2. CASE ~slave.tearing
      BY <1>1, <1>7, <2>0, <3>2 DEF ArrivalCommit, SlaveRec
    <3> QED BY <3>1, <3>2
  <2>2. SlaveInv'
    BY <1>1, <1>a, <1>7, <2>1 DEF ArrivalCommit, SlaveInv, IsAv1
  <2>3. CASE slave.tearing
    <3>1. PICK g : g = DisableHw(hw["s"])
      OBVIOUS
    <3>2. g \in HwRec /\ g.mmio = hw["s"].mmio /\ ~g.on /\ (hw["s"].mmio => ~g.paging)
      BY <1>1, <1>2, <3>1, DisableFacts
    <3>3. g.paging => hw["s"].paging /\ ~hw["s"].on
      BY <1>2, <1>3, <2>3, <3>1, <3>2 DEF DisableHw, DisableVdec, DisableAv1d
    <3>4. hw' = [hw EXCEPT !["s"] = g]
      BY <1>7, <2>3, <3>1 DEF ArrivalCommit
    <3> QED BY <1>1, <1>3, <2>1, <2>2, <3>2, <3>3, <3>4, SlaveStep
  <2>4. CASE ~slave.tearing
    BY <1>1, <1>2, <1>3, <1>7, <2>1, <2>2, <2>4, SlaveStep DEF ArrivalCommit
  <2> QED BY <2>3, <2>4
<1>8. CASE ReleaseSlaveTearing
  <2>1. /\ slave' \in SlaveRec /\ slave'.shadow = slave.shadow /\ ~cli["s"]
    BY <1>1, <1>8 DEF ReleaseSlaveTearing, SlaveRec
  <2>2. SlaveInv'
    BY <1>1, <1>3, <1>8 DEF ReleaseSlaveTearing, SlaveRec, SlaveInv, IsAv1
  <2> QED BY <1>1, <1>2, <1>3, <1>8, <2>1, <2>2, SlaveStep DEF ReleaseSlaveTearing
<1> QED BY <1>4, <1>5, <1>6, <1>7, <1>8

LEMMA ReleaseSlaveInv ==
  ASSUME IInv, ReleaseSlave
  PROVE  IInv'
<1> USE DEF IInv
<1>1. /\ UNCHANGED <<flavour, dom, buf, cli, run, orphan, mt, raced>> /\ slave \in SlaveRec
      /\ "s" \in AllInst /\ ~cli["s"] /\ hw["s"].mmio /\ slave.tearing /\ ~IsAv1
  BY DEF ReleaseSlave, TypeInv, AllInst, CtlInv
<1>2. hw["s"] \in HwRec /\ Sane(hw["s"]) /\ ~hw["s"].on
  BY <1>1, MmuReady DEF HwInv
<1>3. slave' \in SlaveRec /\ slave'.tearing
  BY <1>1 DEF ReleaseSlave, SlaveRec, NoGen
<1>4. SlaveInv'
  BY <1>1 DEF ReleaseSlave, SlaveRec, SlaveInv, IsAv1, NoGen
<1>5. PICK h : h = SlaveDetached(hw["s"], slave.open /\ slave.shadow # NoGen)
  OBVIOUS
<1>6. h \in HwRec /\ ~h.on
  BY <1>1, <1>2, <1>5, DisableFacts DEF SlaveDetached
<1>7. PICK g : g = [h EXCEPT !.paging = FALSE, !.mmio = FALSE]
  OBVIOUS
<1>8. g \in HwRec /\ ~g.on /\ ~g.paging /\ ~g.mmio
  BY <1>6, <1>7 DEF HwRec
<1>9. hw' = [hw EXCEPT !["s"] = g]
  BY <1>5, <1>7 DEF ReleaseSlave
<1> QED BY <1>1, <1>3, <1>4, <1>8, <1>9, SlaveStep

LEMMA QueryRemoveVetoedInv ==
  ASSUME IInv, QueryRemoveVetoed
  PROVE  IInv'
<1> USE DEF IInv
<1>1. /\ UNCHANGED <<flavour, dom, buf, cli, run, orphan, mt, raced>> /\ slave \in SlaveRec
      /\ "s" \in AllInst /\ ~IsAv1
  BY DEF QueryRemoveVetoed, TypeInv, AllInst
<1>2. /\ hw["s"] \in HwRec /\ Sane(hw["s"]) 
  BY <1>1, MmuReady
<1>3. /\ slave.tearing => ~cli["s"]
      /\ cli["s"] => hw["s"].mmio
      /\ hw["s"].on => slave.shadow # NoGen
  BY <1>1 DEF CtlInv, HwInv
<1>4. /\ slave' \in SlaveRec /\ slave'.tearing = slave.tearing
      /\ slave'.shadow = slave.shadow \/ ("s" \in consumers /\ slave.open)
  BY <1>1 DEF QueryRemoveVetoed, QueryRemoved, SlaveRec, NoGen
<1>5. SlaveInv'
  BY <1>1 DEF QueryRemoveVetoed, QueryRemoved, SlaveRec, SlaveInv, IsAv1, NoGen
<1>6. PICK g : g = SlaveDetached(hw["s"], "s" \in consumers /\ slave.open /\ slave.shadow # NoGen)
  OBVIOUS
<1>7. hw' = [hw EXCEPT !["s"] = g]
  BY <1>6 DEF QueryRemoveVetoed, QueryRemoved
<1>8. CASE "s" \in consumers /\ slave.open /\ slave.shadow # NoGen
  <2>1. g = DisableHw(hw["s"])
    BY <1>6, <1>8 DEF SlaveDetached
  <2>2. g \in HwRec /\ g.mmio = hw["s"].mmio /\ ~g.on
    BY <1>1, <1>2, <2>1, DisableFacts
  <2>3. g.paging => hw["s"].paging /\ ~hw["s"].on
    BY <1>2, <2>1 DEF DisableHw, DisableVdec, DisableAv1d, HwRec, Sane
  <2> QED BY <1>1, <1>3, <1>4, <1>5, <1>7, <2>2, <2>3, SlaveStep
<1>9. CASE ~("s" \in consumers /\ slave.open /\ slave.shadow # NoGen)
  <2>1. g = hw["s"]
    BY <1>6, <1>9 DEF SlaveDetached
  <2>2. g.on => slave'.shadow # NoGen
    BY <1>3, <1>4, <1>9, <2>1
  <2> QED BY <1>1, <1>2, <1>3, <1>4, <1>5, <1>7, <2>1, <2>2, SlaveStep
<1> QED BY <1>8, <1>9

LEMMA PrepareSlaveInv ==
  ASSUME IInv, PrepareSlave
  PROVE  IInv'
<1> USE DEF IInv
<1>1. /\ UNCHANGED <<flavour, dom, buf, cli, run, orphan, mt, raced>> /\ "s" \in AllInst /\ ~IsAv1
      /\ ~hw["s"].mmio
  BY DEF PrepareSlave, AllInst
<1>2. hw["s"] \in HwRec /\ ~hw["s"].on
  BY <1>1, MmuReady DEF Sane
<1>3. /\ slave' \in SlaveRec /\ slave'.shadow = NoGen /\ ~slave'.tearing
      /\ slave'.arr \in {"idle", "notified"}
  BY DEF PrepareSlave, SlaveRec, SlaveIdle, NoGen
<1>4. SlaveInv'
  BY <1>1, <1>3 DEF SlaveInv, IsAv1
<1>5. PICK g : g = [hw["s"] EXCEPT !.mmio = TRUE]
  OBVIOUS
<1>6. g \in HwRec /\ ~g.on /\ g.paging = hw["s"].paging /\ g.mmio
  BY <1>2, <1>5 DEF HwRec
<1>7. hw' = [hw EXCEPT !["s"] = g]
  BY <1>5 DEF PrepareSlave
<1> QED BY <1>1, <1>2, <1>3, <1>4, <1>6, <1>7, SlaveStep

LEMMA ReservedFacts ==
  ASSUME NEW av1 \in BOOLEAN, NEW d, NEW g, d = DomainCreate(av1, g)
  PROVE  Marked(d, Reserved(av1))
<1>1. \A r \in Reserved(av1) :
        \/ r = [base |-> 0, n |-> 1]
        \/ RcbPages # 0 /\ r = [base |-> IovaPages - RcbPages, n |-> RcbPages]
  BY DEF Reserved
<1>2. \A r \in Reserved(av1) : /\ r \in [base : Nat, n : Nat \ {0}]
                               /\ r.base + r.n <= IovaPages
  BY <1>1, IovaAssumption
<1>3. \A r, s \in Reserved(av1) : r # s => Apart(r, s)
  <2> SUFFICES ASSUME NEW r \in Reserved(av1), NEW s \in Reserved(av1), r # s
               PROVE  Apart(r, s)
    OBVIOUS
  <2>1. \A a \in Span(0, 1), b \in Span(IovaPages - RcbPages, RcbPages) : a # b
    BY IovaAssumption DEF Span
  <2> QED BY <1>1, <2>1 DEF Apart
<1> QED BY <1>2, <1>3 DEF Marked, DomainCreate

\* A domain comes up: no buffer is outstanding and nothing pages.
LEMMA CreateInv ==
  ASSUME IInv, PrepareMaster \/ PrepareAv1d
  PROVE  IInv'
<1> USE DEF IInv
<1>1. /\ UNCHANGED <<flavour, buf, cli, run, orphan, mt, raced>> /\ ~hw["m"].mmio
      /\ dom' = DomainCreate(IsAv1, dom.gen + 1)
      /\ hw' = [hw EXCEPT !["m"].mmio = TRUE]
  BY DEF PrepareMaster, PrepareAv1d, IsAv1
<1>2. /\ "m" \in AllInst /\ "s" \in AllInst /\ "m" # "s" /\ IsAv1' = IsAv1
  BY <1>1 DEF AllInst, IsAv1
<1>3. /\ ~dom.live /\ ~cli["m"] /\ Live = {} /\ dom.gen \in Nat
      /\ slave.shadow = NoGen /\ slave.arr \notin {"opened", "attached", "registered"}
  BY <1>1, <1>2 DEF CtlInv, SlaveInv, TypeInv, DomRec
<1>4. Live' = {}
  BY <1>1, <1>3 DEF Live
<1>5. dom'.live /\ dom'.gen = dom.gen + 1 /\ dom'.gen # NoGen
  BY <1>1, <1>3 DEF DomainCreate, NoGen
<1>6. /\ hw' \in [AllInst -> HwRec] /\ hw'["m"].mmio
      /\ \A k \in AllInst : /\ hw'[k].on = hw[k].on /\ hw'[k].paging = hw[k].paging
                            /\ k # "m" => hw'[k] = hw[k]
  <2>1. PICK g : g = [hw["m"] EXCEPT !.mmio = TRUE]
    OBVIOUS
  <2>2. hw["m"] \in HwRec
    BY <1>2 DEF TypeInv
  <2>3. g \in HwRec /\ g.mmio /\ g.on = hw["m"].on /\ g.paging = hw["m"].paging
    BY <2>1, <2>2 DEF HwRec
  <2>4. hw' = [hw EXCEPT !["m"] = g]
    BY <1>1, <2>1
  <2> QED BY <1>2, <2>3, <2>4 DEF TypeInv
<1>7. Marked(dom', Reserved(IsAv1))
  BY <1>1, ReservedFacts DEF IsAv1
<1>8. dom' \in DomRec
  <2>1. /\ dom'.used \subseteq Nat /\ dom'.starts \subseteq Nat /\ dom'.ends \subseteq Nat
    <3>1. /\ \A r \in Reserved(IsAv1) : r.base \in Nat /\ r.n \in Nat
          /\ \A b, n \in Nat : Span(b, n) \subseteq Nat
      BY <1>7 DEF Marked, Span
    <3> QED BY <1>7, <3>1 DEF Marked
  <2>2. dom' = [live |-> TRUE, gen |-> dom.gen + 1, used |-> dom'.used, starts |-> dom'.starts,
                ends |-> dom'.ends, pt |-> [p \in Pages |-> NoFrame], pts |-> {}]
    BY <1>1 DEF DomainCreate
  <2>3. [p \in Pages |-> NoFrame] \in [Pages -> Nat]
    BY DEF NoFrame
  <2>4. PICK u, v, w \in SUBSET Nat : u = dom'.used /\ v = dom'.starts /\ w = dom'.ends
    BY <2>1
  <2>5. dom.gen + 1 \in Nat
    BY <1>3
  <2>6. dom' = [live |-> TRUE, gen |-> dom.gen + 1, used |-> u, starts |-> v,
                ends |-> w, pt |-> [p \in Pages |-> NoFrame], pts |-> {}]
    BY <2>2, <2>4
  <2> QED BY <2>3, <2>5, <2>6 DEF DomRec
<1>9. slave' \in SlaveRec /\ slave'.shadow = slave.shadow /\ slave'.tearing = slave.tearing
      /\ slave'.arr \in {slave.arr, "notified"} /\ (IsAv1 => slave' = slave)
  BY DEF PrepareMaster, PrepareAv1d, TypeInv, SlaveRec
<1>10. TypeInv'
  BY <1>1, <1>6, <1>8, <1>9 DEF TypeInv
<1>11. CtlInv'
  BY <1>1, <1>2, <1>4, <1>5, <1>6, <1>9 DEF CtlInv
<1>12. SlaveInv'
  BY <1>1, <1>2, <1>3, <1>9 DEF SlaveInv
<1>13. HwInv' /\ TlbInv'
  <2>1. \A k \in AllInst : ~hw'[k].on
    BY <1>3, <1>6 DEF HwInv
  <2> QED BY <2>1 DEF HwInv, TlbInv
<1>14. PagingInv'
  BY <1>1, <1>2, <1>6 DEF PagingInv
<1>15. IovaInv'
  <2>1. Taken' = Reserved(IsAv1)
    BY <1>2, <1>4 DEF Taken
  <2>2. \A p \in Pages : dom'.pt[p] = NoFrame
    BY <1>1 DEF DomainCreate
  <2> QED BY <1>4, <1>7, <2>1, <2>2 DEF IovaInv, Marked
<1>16. JobsInv'
  BY <1>1 DEF JobsInv
<1> QED BY <1>10, <1>11, <1>12, <1>13, <1>14, <1>15, <1>16

\* A domain goes down: the cascade and the codecs' release have stopped both
\* MMUs and no directory is borrowed.
LEMMA DestroyInv ==
  ASSUME IInv, RemoveMaster \/ RemoveAv1d
  PROVE  IInv'
<1> USE DEF IInv
<1>1. /\ UNCHANGED <<flavour, buf, cli, run, orphan, mt, raced>> /\ hw["m"].mmio /\ ~cli["m"] /\ Live = {}
      /\ dom' = DomainDestroy(dom)
  BY DEF RemoveMaster, RemoveAv1d, StillOpen
<1>2. /\ "m" \in AllInst /\ "s" \in AllInst /\ "m" # "s" /\ IsAv1' = IsAv1 /\ Live' = Live
  BY <1>1 DEF AllInst, IsAv1, Live
<1>3. hw["s"] \in HwRec /\ Sane(hw["s"]) /\ hw["m"] \in HwRec /\ ~hw["m"].on
  BY <1>1, <1>2, MmuReady DEF HwInv
<1>4. /\ slave' \in SlaveRec /\ slave'.tearing = slave.tearing /\ slave'.shadow = NoGen
      /\ slave'.arr \notin {"opened", "attached", "registered"}
      /\ IsAv1 => slave' = SlaveIdle
  <2>1. CASE RemoveMaster
    <3>1. /\ slave.arr \notin {"opened", "attached", "registered"} /\ ~IsAv1
          /\ slave.open => "s" \in consumers
      BY <2>1 DEF RemoveMaster, StillOpen
    <3>2. slave \in SlaveRec
      BY DEF TypeInv
    <3>3. CASE "s" \in consumers /\ slave.open
      <4>1. slave' = [slave EXCEPT !.open = FALSE, !.pt = FALSE, !.shadow = NoGen]
        BY <2>1, <3>3 DEF RemoveMaster
      <4> QED BY <3>1, <3>2, <4>1 DEF SlaveRec, NoGen
    <3>4. CASE ~("s" \in consumers /\ slave.open)
      <4>1. slave' = slave
        BY <2>1, <3>4 DEF RemoveMaster
      <4> QED BY <3>1, <3>2, <3>4, <4>1 DEF SlaveInv
    <3> QED BY <3>3, <3>4
  <2>2. CASE RemoveAv1d
    BY <2>2 DEF RemoveAv1d, SlaveInv, SlaveIdle, TypeInv
  <2> QED BY <2>1, <2>2
<1>5. PICK g : /\ g \in HwRec /\ g.mmio = hw["s"].mmio /\ ~g.on /\ hw'["s"] = g
               /\ g.paging => hw["s"].paging /\ ~hw["s"].on
               /\ hw' = [hw EXCEPT !["s"] = g,
                                   !["m"] = [hw["m"] EXCEPT !.mmio = FALSE, !.paging = FALSE]]
  <2>1. CASE RemoveMaster
    <3>1. /\ slave.arr \notin {"opened", "attached", "registered"} /\ ~IsAv1
          /\ slave.open => "s" \in consumers
      BY <2>1 DEF RemoveMaster, StillOpen
    <3>2. PICK on : on = ("s" \in consumers /\ slave.open /\ slave.shadow # NoGen)
      OBVIOUS
    <3>3. hw' = [hw EXCEPT !["s"] = SlaveDetached(hw["s"], on),
                           !["m"] = [hw["m"] EXCEPT !.mmio = FALSE, !.paging = FALSE]]
      BY <1>2, <2>1, <3>2 DEF RemoveMaster, TypeInv
    <3>4. hw'["s"] = SlaveDetached(hw["s"], on)
      BY <1>2, <3>3 DEF TypeInv
    <3>5. CASE on
      <4>1. /\ DisableHw(hw["s"]) \in HwRec /\ DisableHw(hw["s"]).mmio = hw["s"].mmio
            /\ ~DisableHw(hw["s"]).on
        BY <1>2, <1>3, DisableFacts
      <4>2. DisableHw(hw["s"]).paging => hw["s"].paging /\ ~hw["s"].on
        BY <1>3 DEF DisableHw, DisableVdec, DisableAv1d, HwRec, Sane
      <4> QED BY <3>3, <3>4, <3>5, <4>1, <4>2 DEF SlaveDetached
    <3>6. CASE ~on
      <4>1. ~hw["s"].on
        BY <1>2, <3>1, <3>2, <3>6 DEF HwInv, SlaveInv
      <4> QED BY <1>3, <3>3, <3>4, <3>6, <4>1 DEF SlaveDetached
    <3> QED BY <3>2, <3>5, <3>6
  <2>2. CASE RemoveAv1d
    <3>1. hw' = [hw EXCEPT !["m"] = [hw["m"] EXCEPT !.mmio = FALSE, !.paging = FALSE]]
      BY <2>2 DEF RemoveAv1d
    <3>2. hw' = [hw EXCEPT !["s"] = hw["s"],
                           !["m"] = [hw["m"] EXCEPT !.mmio = FALSE, !.paging = FALSE]]
      BY <1>2, <3>1 DEF TypeInv
    <3>3. hw'["s"] = hw["s"] /\ ~hw["s"].on
      BY <1>2, <1>3, <2>2, <3>1 DEF TypeInv, RemoveAv1d, CtlInv, Sane
    <3> QED BY <1>3, <3>2, <3>3
  <2> QED BY <2>1, <2>2
<1>6. /\ hw' \in [AllInst -> HwRec] /\ ~hw'["m"].mmio /\ ~hw'["m"].paging /\ ~hw'["m"].on
  <2>1. PICK h : h = [hw["m"] EXCEPT !.mmio = FALSE, !.paging = FALSE]
    OBVIOUS
  <2>2. h \in HwRec /\ ~h.mmio /\ ~h.paging /\ ~h.on
    BY <1>3, <2>1 DEF HwRec
  <2>3. hw' = [hw EXCEPT !["s"] = g, !["m"] = h]
    BY <1>5, <2>1
  <2>4. hw' = [k \in AllInst |-> IF k = "m" THEN h ELSE IF k = "s" THEN g ELSE hw[k]]
    BY <1>2, <2>3 DEF TypeInv
  <2>5. hw'["m"] = h /\ \A k \in AllInst : hw'[k] \in HwRec
    BY <1>2, <1>5, <2>2, <2>4 DEF AllInst
  <2> QED BY <2>2, <2>4, <2>5
<1>7. dom' \in DomRec /\ ~dom'.live /\ dom'.gen = dom.gen
  <2>1. [p \in Pages |-> NoFrame] \in [Pages -> Nat] /\ dom.gen \in Nat
    BY DEF NoFrame, TypeInv, DomRec
  <2> QED BY <1>1, <2>1 DEF DomainDestroy, DomRec
<1>8. TypeInv'
  BY <1>1, <1>4, <1>6, <1>7 DEF TypeInv
<1>9. CtlInv'
  BY <1>1, <1>2, <1>4, <1>5, <1>6, <1>7 DEF CtlInv, AllInst
<1>10. SlaveInv'
  BY <1>2, <1>4 DEF SlaveInv
<1>11. HwInv' /\ TlbInv' /\ IovaInv'
  BY <1>5, <1>6, <1>7 DEF HwInv, TlbInv, IovaInv, AllInst
<1>12. PagingInv'
  BY <1>1, <1>2, <1>5, <1>6 DEF PagingInv, AllInst
<1>13. JobsInv'
  BY <1>1 DEF JobsInv
<1> QED BY <1>8, <1>9, <1>10, <1>11, <1>12, <1>13

-----------------------------------------------------------------------------
(***************************************************************************)
(* The allocator of shared/iommu/pgtable.c.                                *)
(***************************************************************************)

\* The downward scan finds a base when there is one.
LEMMA AllocBaseFacts ==
  ASSUME NEW d, NEW n \in Nat, FreeBases(d, n) # {}
  PROVE  AllocBase(d, n) \in FreeBases(d, n)
<1>1. FreeBases(d, n) \subseteq 0 .. IovaPages - 1 /\ IovaPages \in Nat
  BY IovaAssumption DEF FreeBases, Pages
<1>2. PICK S : S = {IovaPages - b : b \in FreeBases(d, n)}
  OBVIOUS
<1>3. S \in SUBSET Nat /\ S # {}
  BY <1>1, <1>2
<1>4. PICK x \in S : \A y \in S : ~ (<<y, x>> \in OpToRel(<, Nat))
  BY <1>3, NatLessThanWellFounded, WFMin
<1>5. \A y \in S : ~ (y < x)
  BY <1>3, <1>4 DEF OpToRel
<1>6. PICK b \in FreeBases(d, n) : x = IovaPages - b
  BY <1>2, <1>4
<1>7. \A c \in FreeBases(d, n) : c <= b
  <2> TAKE c \in FreeBases(d, n)
  <2>1. IovaPages - c \in S
    BY <1>2
  <2>2. ~(IovaPages - c < IovaPages - b)
    BY <1>5, <1>6, <2>1
  <2> QED BY <1>1, <1>6, <2>2
<1> QED BY <1>6, <1>7 DEF AllocBase

LEMMA FreeBaseFacts ==
  ASSUME NEW d, NEW R, Marked(d, R), NEW n \in Nat \ {0}, NEW base \in FreeBases(d, n)
  PROVE  /\ base \in Nat /\ base + n <= IovaPages /\ Span(base, n) \subseteq Pages
         /\ \A r \in R : Apart([base |-> base, n |-> n], r)
         /\ \A r \in R : base # r.base /\ base + n # r.base + r.n
         /\ [base |-> base, n |-> n] \notin R
<1>1. /\ base \in Nat /\ base + n <= IovaPages /\ Span(base, n) \cap d.used = {}
  BY IovaAssumption DEF FreeBases, Pages
<1>2. Span(base, n) \subseteq Pages
  BY <1>1, IovaAssumption DEF Span, Pages
<1>3. \A r \in R : Span(base, n) \cap Span(r.base, r.n) = {}
  BY <1>1 DEF Marked
<1>4. \A r \in R : base # r.base /\ base + n # r.base + r.n
  <2> TAKE r \in R
  <2>1. r.base \in Nat /\ r.n \in Nat \ {0}
    BY DEF Marked
  <2>2. base \in Span(base, n) /\ base + n - 1 \in Span(base, n)
    BY <1>1 DEF Span
  <2>3. r.base \in Span(r.base, r.n) /\ r.base + r.n - 1 \in Span(r.base, r.n)
    BY <2>1 DEF Span
  <2> QED BY <1>1, <1>3, <2>1, <2>2, <2>3
<1>5. [base |-> base, n |-> n] \notin R
  BY <1>4
<1> QED BY <1>1, <1>2, <1>3, <1>4, <1>5 DEF Apart

LEMMA AllocFacts ==
  ASSUME NEW d \in DomRec, NEW R, Marked(d, R), NEW n \in Nat \ {0},
         NEW base \in FreeBases(d, n), NEW e, e = AllocIova(d, base, n)
  PROVE  /\ e \in DomRec /\ e.pt = d.pt /\ e.pts = d.pts /\ e.live = d.live /\ e.gen = d.gen
         /\ Marked(e, R \cup {[base |-> base, n |-> n]})
<1>1. /\ base \in Nat /\ base + n <= IovaPages
      /\ \A r \in R : Apart([base |-> base, n |-> n], r)
  BY FreeBaseFacts
<1>2. /\ e.used = d.used \cup Span(base, n) /\ e.starts = d.starts \cup {base}
      /\ e.ends = d.ends \cup {base + n}
      /\ e.pt = d.pt /\ e.pts = d.pts /\ e.live = d.live /\ e.gen = d.gen
  BY DEF AllocIova, DomRec
<1>3. e \in DomRec
  <2>1. Span(base, n) \subseteq Nat /\ base + n \in Nat
    BY <1>1 DEF Span
  <2> QED BY <1>1, <2>1 DEF AllocIova, DomRec
<1>4. PICK x : x = [base |-> base, n |-> n]
  OBVIOUS
<1>5. x \in [base : Nat, n : Nat \ {0}] /\ x.base = base /\ x.n = n
  BY <1>1, <1>4
<1>6. \A r, s \in R \cup {x} : r # s => Apart(r, s)
  <2>1. \A r \in R : Apart(x, r) /\ Apart(r, x)
    BY <1>1, <1>4 DEF Apart
  <2>2. \A r, s \in R : r # s => Apart(r, s)
    BY DEF Marked
  <2> QED BY <2>1, <2>2
<1>7. /\ R \cup {x} \subseteq [base : Nat, n : Nat \ {0}]
      /\ \A r \in R \cup {x} : r.base + r.n <= IovaPages
  BY <1>1, <1>5 DEF Marked
<1>8. e.used = UNION {Span(r.base, r.n) : r \in R \cup {x}}
  <2>1. d.used = UNION {Span(r.base, r.n) : r \in R}
    BY DEF Marked
  <2> QED BY <1>2, <1>5, <2>1
<1>9. e.starts = {r.base : r \in R \cup {x}} /\ e.ends = {r.base + r.n : r \in R \cup {x}}
  <2>1. d.starts = {r.base : r \in R} /\ d.ends = {r.base + r.n : r \in R}
    BY DEF Marked
  <2> QED BY <1>2, <1>5, <2>1
<1> QED BY <1>2, <1>3, <1>4, <1>6, <1>7, <1>8, <1>9 DEF Marked

LEMMA FreeFacts ==
  ASSUME NEW d \in DomRec, NEW R, Marked(d, R), NEW x \in R,
         NEW e, e = FreeIova(d, x.base, x.n)
  PROVE  /\ e \in DomRec /\ e.pt = d.pt /\ e.pts = d.pts /\ e.live = d.live /\ e.gen = d.gen
         /\ Marked(e, R \ {x})
<1>1. /\ x.base \in Nat /\ x.n \in Nat \ {0} /\ x.base \in d.starts
      /\ x.base \in Span(x.base, x.n) /\ x.base + x.n - 1 \in Span(x.base, x.n)
  BY DEF Marked, Span
<1>2. /\ e.used = d.used \ Span(x.base, x.n) /\ e.starts = d.starts \ {x.base}
      /\ e.ends = d.ends \ {x.base + x.n}
      /\ e.pt = d.pt /\ e.pts = d.pts /\ e.live = d.live /\ e.gen = d.gen
      /\ e \in DomRec
  BY <1>1 DEF FreeIova, DomRec
<1>3. \A r \in R : r # x => /\ Span(r.base, r.n) \cap Span(x.base, x.n) = {}
                           /\ r.base # x.base /\ r.base + r.n # x.base + x.n
  <2> SUFFICES ASSUME NEW r \in R, r # x
               PROVE  /\ Span(r.base, r.n) \cap Span(x.base, x.n) = {}
                      /\ r.base # x.base /\ r.base + r.n # x.base + x.n
    OBVIOUS
  <2>1. Span(r.base, r.n) \cap Span(x.base, x.n) = {}
    BY DEF Marked, Apart
  <2>2. r.base \in Nat /\ r.n \in Nat \ {0}
    BY DEF Marked
  <2>3. r.base \in Span(r.base, r.n) /\ r.base + r.n - 1 \in Span(r.base, r.n)
    BY <2>2 DEF Span
  <2> QED BY <1>1, <2>1, <2>2, <2>3
<1>4. e.used = UNION {Span(r.base, r.n) : r \in R \ {x}}
  <2>1. d.used = UNION {Span(r.base, r.n) : r \in R}
    BY DEF Marked
  <2> QED BY <1>2, <1>3, <2>1
<1>5. e.starts = {r.base : r \in R \ {x}} /\ e.ends = {r.base + r.n : r \in R \ {x}}
  <2>1. d.starts = {r.base : r \in R} /\ d.ends = {r.base + r.n : r \in R}
    BY DEF Marked
  <2> QED BY <1>2, <1>3, <2>1
<1>6. /\ R \ {x} \subseteq [base : Nat, n : Nat \ {0}]
      /\ \A r \in R \ {x} : r.base + r.n <= IovaPages
      /\ \A r, s \in R \ {x} : r # s => Apart(r, s)
  BY DEF Marked
<1> QED BY <1>2, <1>4, <1>5, <1>6 DEF Marked

\* UnmapMdl measures the range it frees by the next end mark, and finds its
\* own: no other range ends inside it.
LEMMA RangeLenFacts ==
  ASSUME NEW d, NEW R, Marked(d, R), NEW x \in R
  PROVE  RangeLen(d, x.base) = x.n
<1>1. /\ x.base \in Nat /\ x.n \in Nat \ {0} /\ x.base + x.n \in d.ends
      /\ d.ends = {r.base + r.n : r \in R}
  BY DEF Marked
<1>2. \A f \in d.ends : f > x.base => x.base + x.n <= f
  <2> SUFFICES ASSUME NEW r \in R, r.base + r.n > x.base
               PROVE  x.base + x.n <= r.base + r.n
    BY <1>1
  <2>1. r.base \in Nat /\ r.n \in Nat \ {0}
    BY DEF Marked
  <2>2. CASE r = x
    BY <1>1, <2>2
  <2>3. CASE r # x
    <3>1. Span(r.base, r.n) \cap Span(x.base, x.n) = {}
      BY <2>3 DEF Marked, Apart
    <3>2. r.base + r.n - 1 \in Span(r.base, r.n)
      BY <2>1 DEF Span
    <3>3. r.base + r.n - 1 \notin Span(x.base, x.n)
      BY <3>1, <3>2
    <3> QED BY <1>1, <2>1, <3>3 DEF Span
  <2> QED BY <2>2, <2>3
<1>3. \A f \in d.ends : f \in Nat
  BY <1>1 DEF Marked
<1>4. EndOf(d, x.base) = x.base + x.n
  <2>1. x.base + x.n > x.base
    BY <1>1
  <2>2. \A e \in d.ends : (e > x.base /\ \A f \in d.ends : f > x.base => e <= f)
                            => e = x.base + x.n
    <3> SUFFICES ASSUME NEW e \in d.ends, e > x.base,
                        \A f \in d.ends : f > x.base => e <= f
                 PROVE  e = x.base + x.n
      OBVIOUS
    <3>1. e <= x.base + x.n /\ x.base + x.n <= e /\ e \in Nat /\ x.base + x.n \in Nat
      BY <1>1, <1>2, <1>3, <2>1
    <3> QED BY <3>1
  <2> QED BY <1>1, <1>2, <2>1, <2>2 DEF EndOf
<1> QED BY <1>1, <1>4 DEF RangeLen

-----------------------------------------------------------------------------
(***************************************************************************)
(* MapMdl and UnmapMdl.                                                    *)
(***************************************************************************)

\* The part of the invariant that a map or an unmap hardly touches.
LEMMA BufStep ==
  ASSUME IInv, UNCHANGED <<flavour, slave, cli, run, mt, raced>>,
         buf' \in [Buffers -> [st : {"free", "enabling", "mapped"}, base : Nat]],
         dom' \in DomRec, dom'.live = dom.live, dom'.gen = dom.gen,
         hw' = hw \/ hw' = [hw EXCEPT !["m"] = Zap(hw["m"])],
         cli["m"] \/ Live' = {}
  PROVE  /\ TypeInv' /\ CtlInv' /\ SlaveInv' /\ HwInv' /\ PagingInv'
         /\ \A k \in AllInst : hw'[k].on => hw[k].on /\ (hw'[k].tlb = hw[k].tlb \/ hw'[k].tlb = {})
         /\ hw' = [hw EXCEPT !["m"] = Zap(hw["m"])] => (hw'["m"].on => hw'["m"].tlb = {})
<1> USE DEF IInv
<1>0. "m" \in AllInst /\ IsAv1' = IsAv1
  BY DEF AllInst, IsAv1
<1>1. hw["m"] \in HwRec /\ Sane(hw["m"])
  BY <1>0, MmuReady
<1>2. PICK z : z = Zap(hw["m"])
  OBVIOUS
<1>3. /\ z \in HwRec /\ z.mmio = hw["m"].mmio /\ z.paging = hw["m"].paging
      /\ z.on = hw["m"].on /\ (z.on => z.tlb = {} /\ z.dte = hw["m"].dte)
  BY <1>1, <1>2, ZapFacts DEF Advance, Zap, HwRec
<1>4. /\ hw' \in [AllInst -> HwRec] /\ (hw'["m"] = z \/ hw' = hw)
      /\ \A k \in AllInst : /\ hw'[k].mmio = hw[k].mmio /\ hw'[k].paging = hw[k].paging
                            /\ hw'[k].on = hw[k].on
                            /\ hw[k].on => hw'[k].dte = hw[k].dte
                            /\ hw'[k] = hw[k] \/ k = "m"
  BY <1>0, <1>2, <1>3 DEF TypeInv
<1>5. TypeInv'
  BY <1>4 DEF TypeInv
<1>6. CtlInv'
  BY <1>0, <1>4 DEF CtlInv, AllInst
<1>7. SlaveInv'
  BY <1>0 DEF SlaveInv
<1>8. HwInv'
  BY <1>4 DEF HwInv
<1>9. PagingInv'
  BY <1>0, <1>4 DEF PagingInv
<1>10. /\ \A k \in AllInst : hw'[k].on => hw[k].on /\ (hw'[k].tlb = hw[k].tlb \/ hw'[k].tlb = {})
       /\ hw' = [hw EXCEPT !["m"] = Zap(hw["m"])] => (hw'["m"].on => hw'["m"].tlb = {})
  BY <1>0, <1>2, <1>3, <1>4 DEF TypeInv
<1> QED BY <1>5, <1>6, <1>7, <1>8, <1>9, <1>10

LEMMA FrameFacts ==
  ASSUME NEW b \in Buffers, NEW base \in Nat, NEW n \in Nat
  PROVE  \A p \in Span(base, n) : Frame(b, p - base) \in Nat /\ Frame(b, p - base) # NoFrame
<1>1. b \in Nat /\ b >= 1
  BY RkiommuAssumption
<1> QED BY <1>1 DEF Frame, Span, NoFrame

LEMMA MapAtFacts ==
  ASSUME NEW d \in DomRec, NEW b \in Buffers, NEW base \in Nat, NEW n \in Nat,
         Span(base, n) \subseteq Pages, NEW e, e = MapAt(d, Frames(b, base, n))
  PROVE  /\ e \in DomRec /\ e.used = d.used /\ e.starts = d.starts /\ e.ends = d.ends
         /\ e.live = d.live /\ e.gen = d.gen
         /\ \A p \in Pages : e.pt[p] = IF p \in Span(base, n) THEN Frame(b, p - base)
                                       ELSE d.pt[p]
         /\ d.pts \subseteq e.pts
         /\ \A p \in Span(base, n) : p \div PtEntries \in e.pts
<1>1. DOMAIN Frames(b, base, n) = Span(base, n)
  BY DEF Frames
<1>2. PICK t : t = [p \in Pages |-> IF p \in Span(base, n) THEN Frame(b, p - base) ELSE d.pt[p]]
  OBVIOUS
<1>3. t \in [Pages -> Nat]
  BY <1>2, FrameFacts DEF DomRec
<1>4. PICK u : u = d.pts \cup Tables(Span(base, n))
  OBVIOUS
<1>5. u \subseteq Int
  <2>1. \A p \in Span(base, n) : p \div PtEntries \in Int
    BY IovaAssumption DEF Span
  <2> QED BY <1>4, <2>1 DEF Tables, DomRec
<1>6. e = [d EXCEPT !.pt = t, !.pts = u]
  BY <1>1, <1>2, <1>4 DEF MapAt, Frames
<1>7. /\ e \in DomRec /\ e.used = d.used /\ e.starts = d.starts /\ e.ends = d.ends
      /\ e.live = d.live /\ e.gen = d.gen /\ e.pt = t /\ e.pts = u
  BY <1>3, <1>5, <1>6 DEF DomRec
<1> QED BY <1>2, <1>4, <1>7 DEF Tables

LEMMA UnmapAtFacts ==
  ASSUME NEW d \in DomRec, NEW base, NEW n, NEW e, e = UnmapAt(d, base, n)
  PROVE  /\ e \in DomRec /\ e.used = d.used /\ e.starts = d.starts /\ e.ends = d.ends
         /\ e.live = d.live /\ e.gen = d.gen /\ e.pts = d.pts
         /\ \A p \in Pages :
              e.pt[p] = IF p \in Span(base, n) /\ p \div PtEntries \in d.pts THEN NoFrame
                        ELSE d.pt[p]
<1>1. PICK t : t = [p \in Pages |-> IF p \in Span(base, n) /\ p \div PtEntries \in d.pts
                                    THEN NoFrame ELSE d.pt[p]]
  OBVIOUS
<1>2. t \in [Pages -> Nat]
  BY <1>1 DEF DomRec, NoFrame
<1>3. e = [d EXCEPT !.pt = t]
  BY <1>1 DEF UnmapAt
<1> QED BY <1>1, <1>2, <1>3 DEF DomRec

\* Two outstanding ranges share no page.
LEMMA LiveApart ==
  ASSUME IInv, dom.live
  PROVE  /\ \A b, c \in Live : b # c => BufPages(b) \cap BufPages(c) = {}
         /\ \A b \in Live : /\ Range(b) \in Taken /\ BufPages(b) \subseteq Pages
                            /\ buf[b].base \in Nat /\ PageCount[b] \in Nat \ {0}
<1>1. \A b \in Live : Range(b) \in Taken
  BY DEF Taken
<1>2. \A b \in Live : BufPages(b) = Span(Range(b).base, Range(b).n)
                      /\ buf[b].base \in Nat /\ PageCount[b] \in Nat \ {0}
                      /\ Range(b).base = buf[b].base /\ Range(b).n = PageCount[b]
  BY RkiommuAssumption DEF BufPages, Range, Live, IInv, TypeInv
<1>3. Marked(dom, Taken) /\ \A b, c \in Live : Range(b) = Range(c) => b = c
  BY DEF IInv, IovaInv
<1>4. \A b \in Live : BufPages(b) \subseteq Pages
  <2> TAKE b \in Live
  <2>1. buf[b].base + PageCount[b] <= IovaPages
    BY <1>1, <1>2, <1>3 DEF Marked
  <2> QED BY <1>2, <2>1, IovaAssumption DEF Span, Pages
<1>5. \A b, c \in Live : b # c => Apart(Range(b), Range(c))
  BY <1>1, <1>3 DEF Marked
<1> QED BY <1>1, <1>2, <1>4, <1>5 DEF Apart

LEMMA MapInv ==
  ASSUME IInv, NEW b \in Buffers, MapMdl(b) \/ MapMdlAv1d(b)
  PROVE  IInv'
<1> USE DEF IInv
<1>1. /\ MapRange(b) /\ cli["m"] /\ dom.live /\ buf[b].st = "free"
      /\ UNCHANGED <<flavour, slave, cli, run, mt, raced>>
      /\ hw' = hw \/ hw' = [hw EXCEPT !["m"] = Zap(hw["m"])]
  BY DEF MapMdl, MapMdlAv1d, MapRange, CanCall
<1>2. PICK n : n = PageCount[b] /\ n \in Nat \ {0}
  BY RkiommuAssumption
<1>3. PICK base : base = AllocBase(dom, n) /\ base \in FreeBases(dom, n)
  BY <1>1, <1>2, AllocBaseFacts DEF MapRange
<1>4. PICK x : x = [base |-> base, n |-> n]
  OBVIOUS
<1>5. Marked(dom, Taken) /\ dom \in DomRec
  BY <1>1 DEF IovaInv, TypeInv
<1>6. /\ base \in Nat /\ Span(base, n) \subseteq Pages /\ x \notin Taken
      /\ \A r \in Taken : Span(base, n) \cap Span(r.base, r.n) = {}
  <2>1. \A r \in Taken : Apart(x, r)
    BY <1>2, <1>3, <1>4, <1>5, FreeBaseFacts
  <2> QED BY <1>2, <1>3, <1>4, <1>5, <2>1, FreeBaseFacts DEF Apart
<1>7. PICK d : d = AllocIova(dom, base, n)
  OBVIOUS
<1>8. /\ d \in DomRec /\ d.pt = dom.pt /\ d.pts = dom.pts /\ d.live = dom.live
      /\ d.gen = dom.gen /\ Marked(d, Taken \cup {x})
  BY <1>2, <1>3, <1>4, <1>5, <1>7, AllocFacts
<1>9. /\ dom' = MapAt(d, Frames(b, base, n))
      /\ buf' = [buf EXCEPT ![b] = [st |-> "enabling", base |-> base]]
  BY <1>1, <1>2, <1>3, <1>7 DEF MapRange
<1>10. /\ dom' \in DomRec /\ dom'.used = d.used /\ dom'.starts = d.starts
       /\ dom'.ends = d.ends /\ dom'.live = dom.live /\ dom'.gen = dom.gen
       /\ \A p \in Pages : dom'.pt[p] = IF p \in Span(base, n) THEN Frame(b, p - base)
                                        ELSE dom.pt[p]
       /\ dom.pts \subseteq dom'.pts
       /\ \A p \in Span(base, n) : p \div PtEntries \in dom'.pts
  BY <1>2, <1>6, <1>8, <1>9, MapAtFacts
<1>11. /\ buf' \in [Buffers -> [st : {"free", "enabling", "mapped"}, base : Nat]]
       /\ buf'[b].base = base /\ buf'[b].st = "enabling"
       /\ \A c \in Buffers : c # b => buf'[c] = buf[c]
  BY <1>6, <1>9 DEF TypeInv
<1>12. /\ Live' = Live \cup {b} /\ b \notin Live /\ Live \subseteq Buffers
       /\ IsAv1' = IsAv1
  BY <1>1, <1>11 DEF Live, IsAv1
<1>13. /\ (Range(b))' = x /\ (BufPages(b))' = Span(base, n)
       /\ \A c \in Live : (Range(c))' = Range(c) /\ (BufPages(c))' = BufPages(c)
                          /\ buf'[c].base = buf[c].base
  BY <1>2, <1>4, <1>11, <1>12 DEF Range, BufPages
<1>14. /\ \A k \in AllInst : k \notin orphan' =>
            k \notin orphan /\ \A j \in run[k] : j.b \in Live /\ RefPages(j) = BufPages(j.b)
       /\ JobsInv'
  <2>1. run' = run /\ orphan' = orphan
    BY <1>1 DEF MapRange
  <2>2. \A k \in AllInst : \A j \in run[k] : j.b \in Buffers
    BY DEF TypeInv, JobRec
  <2> QED BY <1>1, <1>11, <2>1, <2>2 DEF JobsInv, Live, RefPages, BufPages
<1>15. \A c \in Live : BufPages(c) \cap Span(base, n) = {} /\ BufPages(c) \subseteq Pages
  <2>1. \A c \in Live : Range(c) \in Taken /\ BufPages(c) \subseteq Pages
    BY <1>1, LiveApart
  <2>2. \A c \in Live : BufPages(c) = Span(Range(c).base, Range(c).n)
    BY DEF BufPages, Range
  <2> QED BY <1>6, <2>1, <2>2
<1>16. /\ TypeInv' /\ CtlInv' /\ SlaveInv' /\ HwInv' /\ PagingInv'
       /\ \A k \in AllInst : hw'[k].on => hw[k].on
                               /\ (hw'[k].tlb = hw[k].tlb \/ hw'[k].tlb = {})
  BY <1>1, <1>10, <1>11, BufStep
<1>17. IovaInv'
  <2>1. Taken' = Taken \cup {x}
    BY <1>12, <1>13 DEF Taken
  <2>2. Marked(dom', Taken')
    BY <1>8, <1>10, <2>1 DEF Marked
  <2>3. \A c \in Live' : (Range(c))' \notin Reserved(IsAv1')
    BY <1>1, <1>6, <1>12, <1>13 DEF IovaInv, Taken
  <2>4. \A c, e \in Live' : (Range(c))' = (Range(e))' => c = e
    BY <1>1, <1>6, <1>12, <1>13 DEF IovaInv, Taken
  <2>5. \A c \in Live' : \A p \in (BufPages(c))' :
          dom'.pt[p] = Frame(c, p - buf'[c].base) /\ p \div PtEntries \in dom'.pts
    <3>1. \A p \in Span(base, n) : dom'.pt[p] = Frame(b, p - base)
      BY <1>6, <1>10
    <3>2. \A c \in Live : \A p \in BufPages(c) : dom'.pt[p] = dom.pt[p]
      BY <1>10, <1>15
    <3>3. \A c \in Live : \A p \in BufPages(c) :
            dom.pt[p] = Frame(c, p - buf[c].base) /\ p \div PtEntries \in dom.pts
      BY <1>1 DEF IovaInv
    <3> QED BY <1>10, <1>11, <1>12, <1>13, <3>1, <3>2, <3>3
  <2>6. \A p \in Pages : dom'.pt[p] # NoFrame => \E c \in Live' : p \in (BufPages(c))'
    <3> SUFFICES ASSUME NEW p \in Pages, dom'.pt[p] # NoFrame
                 PROVE  \E c \in Live' : p \in (BufPages(c))'
      OBVIOUS
    <3>1. CASE p \in Span(base, n)
      BY <1>12, <1>13, <3>1
    <3>2. CASE p \notin Span(base, n)
      <4>1. dom.pt[p] # NoFrame
        BY <1>10, <3>2
      <4>2. PICK c \in Live : p \in BufPages(c)
        BY <1>1, <4>1 DEF IovaInv
      <4> QED BY <1>12, <1>13, <4>2
    <3> QED BY <3>1, <3>2
  <2> QED BY <1>12, <2>2, <2>3, <2>4, <2>5, <2>6 DEF IovaInv
<1>18. TlbInv'
  <2> SUFFICES ASSUME NEW k \in AllInst, hw'[k].on, NEW e \in hw'[k].tlb
               PROVE  /\ k \notin orphan' =>
                           \A j \in run'[k] : e[1] \in RefPages(j) => e[2] = dom'.pt[e[1]]
                      /\ IsAv1' => e[2] = dom'.pt[e[1]] /\ e[2] # NoFrame
    BY DEF TlbInv
  <2>1. hw[k].on /\ e \in hw[k].tlb /\ run' = run /\ e[1] \in Pages
    BY <1>1, <1>16 DEF TypeInv, HwRec
  <2>2. \A c \in Live : e[1] \in BufPages(c) => dom'.pt[e[1]] = dom.pt[e[1]]
    BY <1>10, <1>15
  <2>3. k \notin orphan' => \A j \in run'[k] : e[1] \in RefPages(j) => e[2] = dom'.pt[e[1]]
    BY <1>14, <2>1, <2>2 DEF TlbInv
  <2>4. ASSUME IsAv1 PROVE e[2] = dom'.pt[e[1]] /\ e[2] # NoFrame
    <3>1. e[2] = dom.pt[e[1]] /\ e[2] # NoFrame
      BY <2>1, <2>4 DEF TlbInv
    <3>2. PICK c \in Live : e[1] \in BufPages(c)
      BY <1>1, <2>1, <3>1 DEF IovaInv
    <3> QED BY <2>2, <3>1, <3>2
  <2> QED BY <1>12, <2>3, <2>4
<1> QED BY <1>14, <1>16, <1>17, <1>18

LEMMA MapFailsInv ==
  ASSUME IInv, NEW b \in Buffers, NEW k \in 0 .. 8, MapMdlFails(b, k)
  PROVE  IInv'
<1> USE DEF IInv
<1>1. /\ cli["m"] /\ dom.live /\ UNCHANGED <<flavour, slave, cli, run, mt, raced, orphan, buf, hw>>
      /\ k < PageCount[b]
  BY DEF MapMdlFails, CanCall
<1>2. PICK n : n = PageCount[b] /\ n \in Nat \ {0} /\ k \in Nat /\ k < n
  BY <1>1, RkiommuAssumption
<1>3. PICK base : base = AllocBase(dom, n) /\ base \in FreeBases(dom, n)
  BY <1>2, AllocBaseFacts DEF MapMdlFails
<1>4. PICK x : x = [base |-> base, n |-> n]
  OBVIOUS
<1>5. Marked(dom, Taken) /\ dom \in DomRec
  BY <1>1 DEF IovaInv, TypeInv
<1>6. /\ base \in Nat /\ Span(base, n) \subseteq Pages /\ x \notin Taken
      /\ Span(base, k) \subseteq Span(base, n)
      /\ \A r \in Taken : Span(base, n) \cap Span(r.base, r.n) = {}
  <2>1. \A r \in Taken : Apart(x, r)
    BY <1>2, <1>3, <1>4, <1>5, FreeBaseFacts
  <2>2. base \in Nat /\ Span(base, n) \subseteq Pages /\ x \notin Taken
    BY <1>2, <1>3, <1>4, <1>5, FreeBaseFacts
  <2>3. Span(base, k) \subseteq Span(base, n)
    BY <1>2, <2>2 DEF Span
  <2> QED BY <1>4, <2>1, <2>2, <2>3 DEF Apart
<1>7. PICK d : d = AllocIova(dom, base, n)
  OBVIOUS
<1>8. /\ d \in DomRec /\ d.pt = dom.pt /\ d.pts = dom.pts /\ d.live = dom.live
      /\ d.gen = dom.gen /\ Marked(d, Taken \cup {x})
  BY <1>2, <1>3, <1>4, <1>5, <1>7, AllocFacts
<1>9. PICK e : e = MapAt(d, Frames(b, base, k))
  OBVIOUS
<1>10. /\ e \in DomRec /\ e.used = d.used /\ e.starts = d.starts
       /\ e.ends = d.ends /\ e.live = dom.live /\ e.gen = dom.gen
       /\ \A p \in Pages : e.pt[p] = IF p \in Span(base, k) THEN Frame(b, p - base)
                                     ELSE dom.pt[p]
       /\ dom.pts \subseteq e.pts
       /\ \A p \in Span(base, k) : p \div PtEntries \in e.pts
  BY <1>2, <1>6, <1>8, <1>9, MapAtFacts
<1>11. PICK u : u = UnmapAt(e, base, k)
  OBVIOUS
<1>12. /\ u \in DomRec /\ u.used = d.used /\ u.starts = d.starts
       /\ u.ends = d.ends /\ u.live = dom.live /\ u.gen = dom.gen
       /\ \A p \in Pages : u.pt[p] = IF p \in Span(base, k) THEN NoFrame ELSE dom.pt[p]
       /\ dom.pts \subseteq u.pts
  BY <1>10, <1>11, UnmapAtFacts
<1>13. \A p \in Span(base, k) : dom.pt[p] = NoFrame
  <2> SUFFICES ASSUME NEW p \in Span(base, k), dom.pt[p] # NoFrame
               PROVE  FALSE
    OBVIOUS
  <2>1. PICK c \in Live : p \in BufPages(c)
    BY <1>1, <1>6 DEF IovaInv
  <2>2. Range(c) \in Taken /\ BufPages(c) = Span(Range(c).base, Range(c).n)
    BY DEF BufPages, Range, Taken
  <2> QED BY <1>6, <2>1, <2>2
<1>14. \A p \in Pages : u.pt[p] = dom.pt[p]
  BY <1>12, <1>13
<1>15. Marked(u, Taken \cup {x})
  BY <1>8, <1>12 DEF Marked
<1>16. dom' = FreeIova(u, x.base, x.n)
  BY <1>2, <1>3, <1>4, <1>7, <1>9, <1>11 DEF MapMdlFails
<1>17. /\ dom' \in DomRec /\ dom'.pt = u.pt /\ dom'.pts = u.pts /\ dom'.live = dom.live
       /\ dom'.gen = dom.gen /\ Marked(dom', Taken)
  <2>1. (Taken \cup {x}) \ {x} = Taken /\ x \in Taken \cup {x}
    BY <1>6
  <2> QED BY <1>12, <1>15, <1>16, <2>1, FreeFacts
<1>18. /\ TypeInv' /\ CtlInv' /\ SlaveInv' /\ HwInv' /\ PagingInv'
  BY <1>1, <1>17, BufStep DEF TypeInv
<1>19. /\ Live' = Live /\ Taken' = Taken /\ IsAv1' = IsAv1 /\ Live \subseteq Buffers
       /\ \A c \in Buffers : (Range(c))' = Range(c) /\ (BufPages(c))' = BufPages(c)
                             /\ buf'[c] = buf[c]
  BY <1>1 DEF Live, Taken, IsAv1, Range, BufPages
<1>20. \A c \in Live : BufPages(c) \subseteq Pages
  BY <1>1, LiveApart
<1>21. IovaInv'
  <2>1. \A c \in Live : \A p \in BufPages(c) :
          dom'.pt[p] = dom.pt[p] /\ (p \div PtEntries \in dom.pts => p \div PtEntries \in dom'.pts)
    BY <1>12, <1>14, <1>17, <1>20
  <2> QED BY <1>1, <1>14, <1>17, <1>19, <2>1 DEF IovaInv
<1>22. TlbInv'
  <2>1. \A i \in AllInst : \A e1 \in hw[i].tlb : e1[1] \in Pages
    BY DEF TypeInv, HwRec
  <2> QED BY <1>1, <1>14, <1>17, <1>19, <2>1 DEF TlbInv
<1>23. JobsInv'
  BY <1>1 DEF JobsInv
<1> QED BY <1>18, <1>21, <1>22, <1>23

LEMMA UnmapInv ==
  ASSUME IInv, NEW b \in Buffers, UnmapMdl(b)
  PROVE  IInv'
<1> USE DEF IInv
<1>1. /\ dom.live /\ buf[b].st = "mapped" /\ UNCHANGED <<flavour, slave, cli, run, mt, raced>>
      /\ hw' = [hw EXCEPT !["m"] = Zap(hw["m"])]
      /\ buf' = [buf EXCEPT ![b] = [st |-> "free", base |-> 0]]
      /\ orphan' = orphan \cup {i \in Inst : \E j \in run[i] : j.b = b}
  BY DEF UnmapMdl
<1>2. b \in Live /\ cli["m"]
  BY <1>1 DEF Live, CtlInv
<1>a. PICK x : x = Range(b)
  OBVIOUS
<1>3. /\ x = Range(b) /\ x.base = buf[b].base /\ x.n = PageCount[b] /\ x \in Taken
      /\ BufPages(b) = Span(x.base, x.n)
  BY <1>2, <1>a DEF Range, Taken, BufPages
<1>4. Marked(dom, Taken) /\ dom \in DomRec
  BY <1>1 DEF IovaInv, TypeInv
<1>5. RangeLen(dom, x.base) = x.n
  BY <1>3, <1>4, RangeLenFacts
<1>6. PICK d : d = UnmapAt(dom, x.base, x.n)
  OBVIOUS
<1>7. /\ d \in DomRec /\ d.used = dom.used /\ d.starts = dom.starts /\ d.ends = dom.ends
      /\ d.live = dom.live /\ d.gen = dom.gen /\ d.pts = dom.pts
      /\ \A p \in Pages :
           d.pt[p] = IF p \in BufPages(b) /\ p \div PtEntries \in dom.pts THEN NoFrame
                     ELSE dom.pt[p]
  BY <1>3, <1>4, <1>6, UnmapAtFacts
<1>8. \A p \in Pages : d.pt[p] = IF p \in BufPages(b) THEN NoFrame ELSE dom.pt[p]
  <2>1. \A p \in BufPages(b) : p \div PtEntries \in dom.pts
    BY <1>1, <1>2 DEF IovaInv
  <2> QED BY <1>7, <2>1
<1>9. Marked(d, Taken)
  BY <1>4, <1>7 DEF Marked
<1>10. dom' = FreeIova(d, x.base, x.n)
  BY <1>3, <1>5, <1>6 DEF UnmapMdl
<1>11. /\ dom' \in DomRec /\ dom'.pt = d.pt /\ dom'.pts = dom.pts /\ dom'.live = dom.live
       /\ dom'.gen = dom.gen /\ Marked(dom', Taken \ {x})
  <2>1. x \in Taken /\ d \in DomRec
    BY <1>3, <1>7
  <2>2. /\ dom' \in DomRec /\ dom'.pt = d.pt /\ dom'.pts = d.pts /\ dom'.live = d.live
        /\ dom'.gen = d.gen /\ Marked(dom', Taken \ {x})
    BY <1>9, <1>10, <2>1, FreeFacts
  <2> QED BY <1>7, <2>2
<1>12. /\ buf' \in [Buffers -> [st : {"free", "enabling", "mapped"}, base : Nat]]
       /\ buf'[b].st = "free" /\ \A c \in Buffers : c # b => buf'[c] = buf[c]
  BY <1>1 DEF TypeInv
<1>13. /\ Live' = Live \ {b} /\ Live \subseteq Buffers /\ IsAv1' = IsAv1
       /\ \A c \in Live' : (Range(c))' = Range(c) /\ (BufPages(c))' = BufPages(c)
                           /\ buf'[c].base = buf[c].base
  BY <1>1, <1>12 DEF Live, IsAv1, Range, BufPages
<1>14. /\ \A k \in AllInst : k \notin orphan' =>
            /\ k \notin orphan
            /\ \A j \in run[k] : j.b \in Live \ {b} /\ RefPages(j) = BufPages(j.b)
       /\ JobsInv'
  <2>1. \A k \in AllInst : k \in Inst \/ run[k] = {}
    BY DEF CtlInv, AllInst, Inst, IsAv1, TypeInv
  <2>2. \A k \in AllInst : \A j \in run[k] : j.b \in Buffers
    BY DEF TypeInv, JobRec
  <2> QED BY <1>1, <1>12, <2>1, <2>2 DEF JobsInv, Live, RefPages, BufPages
<1>15. /\ \A c \in Live : c # b => BufPages(c) \cap BufPages(b) = {}
       /\ \A c \in Live : BufPages(c) \subseteq Pages
  BY <1>1, <1>2, LiveApart
<1>16. /\ TypeInv' /\ CtlInv' /\ SlaveInv' /\ HwInv' /\ PagingInv'
       /\ \A k \in AllInst : hw'[k].on => hw[k].on
                               /\ (hw'[k].tlb = hw[k].tlb \/ hw'[k].tlb = {})
       /\ hw'["m"].on => hw'["m"].tlb = {}
  BY <1>1, <1>2, <1>11, <1>12, BufStep
<1>17. IovaInv'
  <2>1. Taken' = Taken \ {x}
    <3>1. x \notin Reserved(IsAv1) /\ \A c \in Live : Range(c) = x => c = b
      BY <1>1, <1>2, <1>3 DEF IovaInv
    <3> QED BY <1>3, <1>13, <3>1 DEF Taken
  <2>2. \A c \in Live' : (Range(c))' \notin Reserved(IsAv1')
    BY <1>1, <1>13 DEF IovaInv
  <2>3. \A c, e \in Live' : (Range(c))' = (Range(e))' => c = e
    BY <1>1, <1>13 DEF IovaInv
  <2>4. \A c \in Live' : \A p \in (BufPages(c))' :
          dom'.pt[p] = Frame(c, p - buf'[c].base) /\ p \div PtEntries \in dom'.pts
    <3>1. \A c \in Live' : \A p \in BufPages(c) : dom'.pt[p] = dom.pt[p]
      BY <1>8, <1>11, <1>13, <1>15
    <3>2. \A c \in Live : \A p \in BufPages(c) :
            dom.pt[p] = Frame(c, p - buf[c].base) /\ p \div PtEntries \in dom.pts
      BY <1>1 DEF IovaInv
    <3> QED BY <1>11, <1>13, <3>1, <3>2
  <2>5. \A p \in Pages : dom'.pt[p] # NoFrame => \E c \in Live' : p \in (BufPages(c))'
    <3> SUFFICES ASSUME NEW p \in Pages, dom'.pt[p] # NoFrame
                 PROVE  \E c \in Live' : p \in (BufPages(c))'
      OBVIOUS
    <3>1. p \notin BufPages(b) /\ dom.pt[p] # NoFrame
      BY <1>8, <1>11
    <3>2. PICK c \in Live : p \in BufPages(c)
      BY <1>1, <3>1 DEF IovaInv
    <3> QED BY <1>13, <3>1, <3>2
  <2> QED BY <1>11, <2>1, <2>2, <2>3, <2>4, <2>5 DEF IovaInv
<1>18. TlbInv'
  <2> SUFFICES ASSUME NEW k \in AllInst, hw'[k].on, NEW e \in hw'[k].tlb
               PROVE  /\ k \notin orphan' =>
                           \A j \in run'[k] : e[1] \in RefPages(j) => e[2] = dom'.pt[e[1]]
                      /\ IsAv1' => e[2] = dom'.pt[e[1]] /\ e[2] # NoFrame
    BY DEF TlbInv
  <2>1. hw[k].on /\ e \in hw[k].tlb /\ run' = run /\ e[1] \in Pages /\ k # "m"
    BY <1>1, <1>16 DEF TypeInv, HwRec
  <2>2. ~IsAv1
    BY <2>1 DEF HwInv, CtlInv, AllInst
  <2>3. \A c \in Live \ {b} : e[1] \in BufPages(c) => dom'.pt[e[1]] = dom.pt[e[1]]
    BY <1>8, <1>11, <1>15
  <2> QED BY <1>13, <1>14, <2>1, <2>2, <2>3 DEF TlbInv
<1> QED BY <1>14, <1>16, <1>17, <1>18

-----------------------------------------------------------------------------
(***************************************************************************)
(* The theorems.                                                           *)
(***************************************************************************)

LEMMA InitInv == Init => IInv
<1> SUFFICES ASSUME Init PROVE IInv
  OBVIOUS
<1> USE DEF Init
<1>0. Live = {}
  BY DEF Live
<1>1. NoHw \in HwRec /\ SlaveIdle \in SlaveRec
  BY DEF NoHw, HwRec, SlaveIdle, SlaveRec, NoGen
<1>2. dom \in DomRec
  <2>1. [p \in Pages |-> NoFrame] \in [Pages -> Nat]
    BY DEF NoFrame
  <2> QED BY <2>1 DEF DomRec, NoGen
<1>3. TypeInv
  BY <1>1, <1>2 DEF TypeInv
<1>4. \A i \in AllInst : /\ ~hw[i].on /\ ~hw[i].mmio /\ ~hw[i].paging /\ ~cli[i]
                         /\ mt[i] = "no" /\ run[i] = {}
  BY DEF NoHw
<1>5. CtlInv
  BY <1>0, <1>4 DEF CtlInv, AllInst, SlaveIdle
<1>6. SlaveInv
  BY DEF SlaveInv, SlaveIdle, NoGen
<1>7. JobsInv /\ HwInv /\ PagingInv /\ TlbInv /\ IovaInv
  BY <1>4 DEF JobsInv, HwInv, PagingInv, TlbInv, IovaInv
<1> QED BY <1>3, <1>5, <1>6, <1>7 DEF IInv

LEMMA StutterInv ==
  ASSUME IInv, UNCHANGED vars
  PROVE  IInv'
<1> USE DEF IInv
<1>1. UNCHANGED <<flavour, dom, buf, hw, slave, cli, run, orphan, mt, raced>>
  BY DEF vars
<1>2. TypeInv' /\ JobsInv' /\ CtlInv' /\ SlaveInv' /\ HwInv' /\ PagingInv'
  BY <1>1 DEF TypeInv, JobsInv, CtlInv, SlaveInv, HwInv, PagingInv, Live, IsAv1
<1>3. IovaInv' /\ \A b \in Buffers : (BufPages(b))' = BufPages(b)
  BY <1>1, HeldSame, HeldIova
<1>4. TlbInv'
  BY <1>1 DEF TlbInv, IsAv1
<1> QED BY <1>2, <1>3, <1>4

LEMMA NextInv == IInv /\ [Next]_vars => IInv'
<1> SUFFICES ASSUME IInv, [Next]_vars PROVE IInv'
  OBVIOUS
<1>1. ASSUME NEW b \in Buffers,
             MapMdl(b) \/ MapMdlAv1d(b) \/ MapMdlEnable(b) \/ UnmapMdl(b)
      PROVE  IInv'
  BY <1>1, MapInv, MapMdlEnableInv, UnmapInv
<1>2. ASSUME NEW b \in Buffers, NEW k \in 0 .. 8, MapMdlFails(b, k) PROVE IInv'
  BY <1>2, MapFailsInv
<1>3. ASSUME NEW i \in Inst, NEW b \in Buffers, Kick(i, {b}) PROVE IInv'
  BY <1>3, KickInv
<1>4. ASSUME NEW i \in Inst, NEW p \in Pages, TlbFill(i, p) PROVE IInv'
  BY <1>4, TlbFillInv
<1>5. ASSUME NEW i \in Inst, \/ FlushTlb(i) \/ EvtIsr(i) \/ Finish(i)
                             \/ CodecPrepare(i) \/ CodecRelease(i)
      PROVE  IInv'
  BY <1>5, FlushInv, IsrInv, FinishInv, CodecPrepareInv, CodecReleaseInv
<1>6. ASSUME NEW i \in Inst, \/ ResetDisable(i) \/ ResetPowerCycle(i) \/ ResetEnable(i)
                             \/ CleanupReattach(i) \/ CleanupSkipsReattach(i)
      PROVE  IInv'
  BY <1>6, ResetInv
<1>7. CASE PeerOnRvd0Connected \/ D0Exit \/ D0Entry
  BY <1>7, PeerConnectedInv, D0Inv
<1>8. CASE PrepareMaster \/ PrepareSlave \/ PrepareAv1d \/ RemoveAv1d \/ RemoveMaster
  BY <1>8, CreateInv, PrepareSlaveInv, DestroyInv
<1>9. CASE \/ ArrivalOpen \/ ArrivalAttach \/ ArrivalRegister \/ ArrivalCommit
           \/ ReleaseSlaveTearing \/ QueryRemoveVetoed \/ ReleaseSlave
  BY <1>9, ArrivalInv, QueryRemoveVetoedInv, ReleaseSlaveInv
<1>10. CASE UNCHANGED vars
  BY <1>10, StutterInv
<1> QED BY <1>1, <1>2, <1>3, <1>4, <1>5, <1>6, <1>7, <1>8, <1>9, <1>10 DEF Next

\* The inductive invariant of the IOMMU drivers.
THEOREM IommuInvariant == Spec => []IInv
<1>1. Init => IInv
  BY InitInv
<1>2. IInv /\ [Next]_vars => IInv'
  BY NextInv
<1> QED BY <1>1, <1>2, PTL DEF Spec

\* MapMdl, its rollback and UnmapMdl keep the page tables and the bitmaps
\* exactly what the outstanding buffers say, for any space, page-table size and
\* set of buffers.
THEOREM IommuIovaExact == Spec => []IovaExact
<1>1. IInv => IovaExact
  <2> SUFFICES ASSUME IInv, dom.live
               PROVE  LET ranges == Reserved(IsAv1)
                            \cup {[base |-> buf[b].base, n |-> PageCount[b]] : b \in Live}
                      IN  /\ \A b, c \in Live : b # c => BufPages(b) \cap BufPages(c) = {}
                          /\ dom.used = UNION {Span(r.base, r.n) : r \in ranges}
                          /\ dom.starts = {r.base : r \in ranges}
                          /\ dom.ends = {r.base + r.n : r \in ranges}
                          /\ \A p \in Pages : dom.pt[p] =
                                IF \E b \in Live : p \in BufPages(b)
                                THEN LET b == CHOOSE b \in Live : p \in BufPages(b)
                                     IN  Frame(b, p - buf[b].base)
                                ELSE NoFrame
    BY DEF IovaExact
  <2> DEFINE ranges == Reserved(IsAv1)
                         \cup {[base |-> buf[b].base, n |-> PageCount[b]] : b \in Live}
  <2>1. ranges = Taken
    BY DEF Taken, Range
  <2>2. /\ dom.used = UNION {Span(r.base, r.n) : r \in Taken}
        /\ dom.starts = {r.base : r \in Taken}
        /\ dom.ends = {r.base + r.n : r \in Taken}
    BY DEF IInv, IovaInv, Marked
  <2>3. \A b, c \in Live : b # c => BufPages(b) \cap BufPages(c) = {}
    BY LiveApart
  <2>4. ASSUME NEW p \in Pages
        PROVE  dom.pt[p] = IF \E b \in Live : p \in BufPages(b)
                           THEN LET b == CHOOSE b \in Live : p \in BufPages(b)
                                IN  Frame(b, p - buf[b].base)
                           ELSE NoFrame
    <3>1. CASE \E b \in Live : p \in BufPages(b)
      <4>1. PICK c : c = CHOOSE b \in Live : p \in BufPages(b)
        OBVIOUS
      <4>2. c \in Live /\ p \in BufPages(c)
        BY <3>1, <4>1
      <4>3. dom.pt[p] = Frame(c, p - buf[c].base)
        BY <4>2 DEF IInv, IovaInv
      <4> QED BY <3>1, <4>1, <4>3
    <3>2. CASE ~\E b \in Live : p \in BufPages(b)
      BY <3>2 DEF IInv, IovaInv
    <3> QED BY <3>1, <3>2
  <2> HIDE DEF ranges
  <2>5. /\ dom.used = UNION {Span(r.base, r.n) : r \in ranges}
        /\ dom.starts = {r.base : r \in ranges}
        /\ dom.ends = {r.base + r.n : r \in ranges}
    BY <2>1, <2>2
  <2> USE DEF ranges
  <2> QED BY <2>3, <2>4, <2>5
<1> QED BY <1>1, IommuInvariant, PTL

\* A job that is translated and whose buffers stay mapped reaches no other frame,
\* whichever order maps, unmaps, kicks, flushes and resets of both cores come in,
\* and although a session cleanup may unmap the buffers of another job at work.
THEOREM IommuDmaExact == Spec => []DmaExact
<1>1. IInv => DmaExact
  <2>1. \A i \in Inst : i \in AllInst
    BY InstSub
  <2> QED BY <2>1 DEF IInv, TlbInv, DmaExact
<1> QED BY <1>1, IommuInvariant, PTL

\* PagingEnabled is TRUE only of an MMU that pages through the live domain's
\* directory, outside a reset and where none left it behind: the lazy enables of
\* MapMdl run beside the resets of other sessions and of kicks.  An MMU that
\* pages always has the flag.
THEOREM IommuPagingFlagTrue == Spec => []PagingFlagTrue
<1>1. IInv => PagingFlagTrue
  <2>1. \A i \in Inst : i \in AllInst
    BY InstSub
  <2> QED BY <2>1 DEF IInv, PagingInv, HwInv, PagingFlagTrue
<1> QED BY <1>1, IommuInvariant, PTL

\* No MMU ever pages through the directory of a destroyed domain, although a
\* MapMdl may run inside another session's reset.
THEOREM IommuBoundToLiveDomain == Spec => []BoundToLiveDomain
<1>1. IInv => BoundToLiveDomain
  <2>1. \A i \in Inst : i \in AllInst
    BY InstSub
  <2> QED BY <2>1 DEF IInv, HwInv, BoundToLiveDomain
<1> QED BY <1>1, IommuInvariant, PTL
=============================================================================
