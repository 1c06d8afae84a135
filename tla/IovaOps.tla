------------------------------ MODULE IovaOps ------------------------------
(***************************************************************************)
(* shared/iommu/pgtable.c: an IOMMU domain, that is one page directory and *)
(* the three IOVA bitmaps beside it.  Everything here runs under the       *)
(* domain's Lock, so an operator is a function from domains to domains.    *)
(*                                                                         *)
(* A bitmap is the set of its set bits.  pt[p] is the frame that the PTE   *)
(* of IOVA page p names, NoFrame when the PTE is not valid; pts holds the  *)
(* directory indices whose page table exists.                              *)
(***************************************************************************)
EXTENDS Naturals, FiniteSets

CONSTANTS
    IovaPages,     \* RK_IOMMU_IOVA_PAGES
    PtEntries,     \* RK_IOMMU_PT_ENTRIES
    RcbPages       \* pages of the RCB-SRAM range at the top of the space

ASSUME IovaAssumption ==
    /\ IovaPages \in Nat /\ PtEntries \in Nat \ {0} /\ RcbPages \in Nat
    /\ RcbPages + 1 < IovaPages

NoFrame == 0
Pages   == 0 .. IovaPages - 1
Span(base, n) == base .. base + n - 1

\* Page 0 and the RCB range, each entered like an allocation; the AV1 domain
\* has no RCB range.
Reserved(av1) == {[base |-> 0, n |-> 1]} \cup
    (IF av1 \/ RcbPages = 0 THEN {}
     ELSE {[base |-> IovaPages - RcbPages, n |-> RcbPages]})

\* RkIommuDomainCreateVdec, RkIommuDomainCreateAv1d.
DomainCreate(av1, gen) ==
    [live   |-> TRUE,
     gen    |-> gen,
     used   |-> UNION {Span(r.base, r.n) : r \in Reserved(av1)},
     starts |-> {r.base : r \in Reserved(av1)},
     ends   |-> {r.base + r.n : r \in Reserved(av1)},
     pt     |-> [p \in Pages |-> NoFrame],
     pts    |-> {}]

\* RkIommuDomainDestroy; gen stays so that the next domain is a new one.
DomainDestroy(d) ==
    [live |-> FALSE, gen |-> d.gen, used |-> {}, starts |-> {}, ends |-> {},
     pt |-> [p \in Pages |-> NoFrame], pts |-> {}]

\* The bases at which n consecutive bits are clear.
FreeBases(d, n) ==
    {b \in Pages : b + n <= IovaPages /\ Span(b, n) \cap d.used = {}}

\* RkIommuAllocIova: the scan runs from the top bit down, so the first run of
\* n clear bits it completes is the one with the highest base.
AllocBase(d, n) == CHOOSE b \in FreeBases(d, n) : \A c \in FreeBases(d, n) : c <= b

\* Mutant: the end mark is set on the last page and not one past it.
AllocIovaEndInside(d, base, n) ==
    [d EXCEPT !.used = @ \cup Span(base, n),
              !.starts = @ \cup {base},
              !.ends = @ \cup {base + n - 1}]

AllocIova(d, base, n) ==
    [d EXCEPT !.used = @ \cup Span(base, n),
              !.starts = @ \cup {base},
              !.ends = @ \cup {base + n}]

\* RkIommuFreeIova: refused unless a range starts at base.
FreeIova(d, base, n) ==
    IF base \notin d.starts THEN d
    ELSE [d EXCEPT !.used = @ \ Span(base, n),
                   !.starts = @ \ {base},
                   !.ends = @ \ {base + n}]

Tables(ps) == {p \div PtEntries : p \in ps}

\* RkIommuMapAt for the pages of a function from pages to frames.  A page
\* table once allocated stays until the domain is destroyed.
MapAt(d, frames) ==
    [d EXCEPT !.pt = [p \in Pages |-> IF p \in DOMAIN frames THEN frames[p] ELSE d.pt[p]],
              !.pts = @ \cup Tables(DOMAIN frames)]

\* RkIommuUnmapAt.
UnmapAt(d, base, n) ==
    [d EXCEPT !.pt = [p \in Pages |->
        IF p \in Span(base, n) /\ p \div PtEntries \in d.pts THEN NoFrame ELSE d.pt[p]]]

\* UnmapMdl's length of the range at base: up to the first end mark past it.
EndOf(d, base) ==
    CHOOSE e \in d.ends : e > base /\ \A f \in d.ends : f > base => e <= f
RangeLen(d, base) == EndOf(d, base) - base
=============================================================================
