------------------------------ MODULE DpbOps ------------------------------
(***************************************************************************)
(* The decoded-picture-buffer manager of mft/dpb.cpp, as operators on a    *)
(* DPB value.  One record serves DpbCtx and H265DpbCtx: the H.265 fields   *)
(* are a subset of the H.264 ones and the hold interface is the same code  *)
(* twice.  Top and bottom field order counts are one POC (frame coding),   *)
(* and the buffer handles of a slot are the slot itself.                   *)
(*                                                                         *)
(* The RKMPP_VERIFY macro ends the process when its condition is false:    *)
(* the field "trap" tells which check failed, "tag" for the epoch a new    *)
(* hold is tagged with and "hold" for every other one.                     *)
(***************************************************************************)
EXTENDS Integers, FiniteSets, FiniteSetsExt, SequencesExt

CONSTANTS
    PoolSize,       \* frame buffers the engine allocates (kPoolSize)
    MaxFrameNum     \* 1 << (log2_max_frame_num_minus4 + 4), from the SPS

ASSUME PoolAssumption == PoolSize \in Nat \ {0} /\ MaxFrameNum \in Nat \ {0}

Slot == 0 .. PoolSize - 1
NoSlot == -1
Hold == {"reorder", "ready", "consumer"}

EmptySlot == [in_use |-> FALSE, is_ref |-> FALSE, long_term |-> FALSE,
              frame_num |-> 0, poc |-> 0, lt_idx |-> 0, hold |-> {}, epoch |-> 0]

\* Dpb_Init, H265Dpb_Init: everything is zeroed.
DpbInit == [slots |-> [i \in Slot |-> EmptySlot], current |-> NoSlot, epoch |-> 0,
            max_refs |-> 0, pic_num |-> 0, max_lt |-> -1, mmco |-> <<>>, adaptive |-> FALSE,
            trap |-> "no"]

Lowest(S) == IF S = {} THEN NoSlot ELSE Min(S)

Held(d, i) == d.slots[i].hold # {}
IsRef(d, i) == d.slots[i].in_use /\ d.slots[i].is_ref
ShortTerm(d) == {i \in Slot : IsRef(d, i) /\ ~d.slots[i].long_term}
LongTerm(d) == {i \in Slot : IsRef(d, i) /\ d.slots[i].long_term}

\* slot_clear on every slot of S; the holds and the epoch stay.
SlotClear(d, S) ==
    [d EXCEPT !.slots = [i \in Slot |->
        IF i \in S THEN [EmptySlot EXCEPT !.hold = d.slots[i].hold, !.epoch = d.slots[i].epoch]
                   ELSE d.slots[i]]]

-----------------------------------------------------------------------------
\* The hold interface: one flag per reason, set once and cleared once.

AddHold(d, i, reason, epoch) ==
    IF reason \in d.slots[i].hold THEN [d EXCEPT !.trap = "hold"]
    ELSE IF d.slots[i].epoch # epoch THEN [d EXCEPT !.trap = "tag"]
    ELSE [d EXCEPT !.slots[i].hold = @ \cup {reason}]

ReleaseHold(d, i, reason) ==
    IF reason \notin d.slots[i].hold
    THEN [d EXCEPT !.trap = "hold"]
    ELSE [d EXCEPT !.slots[i].hold = @ \ {reason}]

TransferHold(d, i, from, to, epoch) ==
    IF from \notin d.slots[i].hold \/ to \in d.slots[i].hold \/ d.slots[i].epoch # epoch
    THEN [d EXCEPT !.trap = "hold"]
    ELSE [d EXCEPT !.slots[i].hold = (@ \ {from}) \cup {to}]

\* Dpb_Flush, H265Dpb_Flush: a slot a consumer still reads keeps its hold and its old epoch.
DpbFlush(d) ==
    LET kept == {i \in Slot : "consumer" \in d.slots[i].hold}
        c == SlotClear(d, Slot \ kept)
    IN IF \E i \in Slot : d.slots[i].hold \cap {"reorder", "ready"} # {}
       THEN [d EXCEPT !.trap = "hold"]
       ELSE [c EXCEPT !.current = NoSlot, !.epoch = @ + 1,
                      !.slots = [i \in Slot |->
                          IF i \in kept THEN [c.slots[i] EXCEPT !.in_use = FALSE, !.is_ref = FALSE,
                                                                !.long_term = FALSE]
                                        ELSE c.slots[i]]]

-----------------------------------------------------------------------------
\* H.264: sliding window and memory management control operations.

\* Mutant: a slot that is no reference counts as free although a queue holds it.
FindFreeUnheld(d) == Lowest({i \in Slot : ~d.slots[i].in_use})

FindFree(d) == Lowest({i \in Slot : ~d.slots[i].in_use /\ ~Held(d, i)})

\* FrameNumWrap of a reference, against the frame_num the DPB last saw.
FrameNumWrap(d, i) ==
    LET fn == d.slots[i].frame_num IN IF fn > d.pic_num THEN fn - MaxFrameNum ELSE fn

Oldest(d) == {i \in ShortTerm(d) : \A j \in ShortTerm(d) : FrameNumWrap(d, i) <= FrameNumWrap(d, j)}

\* evict_oldest_short_term
EvictOldest(d) == IF ShortTerm(d) = {} THEN d ELSE SlotClear(d, {Lowest(Oldest(d))})

FindShort(d, n) == Lowest({i \in ShortTerm(d) : d.slots[i].frame_num = n})
FindLong(d, n) == Lowest({i \in LongTerm(d) : d.slots[i].lt_idx = n})

LongTermAllowed(d, idx) == d.max_lt >= 0 /\ idx <= d.max_lt

\* apply_mmco_ops for one operation m = [op, diff, idx] on the picture in slot cur.  diff is
\* difference_of_pic_nums_minus1 + 1.  The code subtracts modulo 2^32 and compares with a 16-bit
\* frame_num, so a difference below zero matches nothing, as here.
ApplyMmco(d, cur, m) ==
    LET short == FindShort(d, d.pic_num - m.diff)
        long == FindLong(d, m.idx)
        Drop(S) == SlotClear(d, S \ {cur, NoSlot})
        Mark(e, i) == IF i = NoSlot THEN e
                      ELSE [e EXCEPT !.slots[i].long_term = TRUE, !.slots[i].lt_idx = m.idx]
    IN CASE m.op = 1 -> Drop({short})
         [] m.op = 2 -> Drop({long})
         [] m.op = 3 -> IF LongTermAllowed(d, m.idx) THEN Mark(Drop({long}), short) ELSE d
         [] m.op = 4 -> [Drop({i \in LongTerm(d) : d.slots[i].lt_idx > m.idx - 1})
                            EXCEPT !.max_lt = m.idx - 1]
         [] m.op = 5 -> [Drop(Slot) EXCEPT !.max_lt = -1, !.slots[cur].frame_num = 0]
         [] m.op = 6 -> IF LongTermAllowed(d, m.idx) THEN Mark(Drop({long}), cur) ELSE d

\* The sliding-window loop of Dpb_OnDecodeComplete.
SlidingWindow(d) ==
    LET excess == Cardinality(ShortTerm(d)) - (IF d.max_refs = 0 THEN 1 ELSE d.max_refs)
    IN FoldLeft(LAMBDA acc, k : EvictOldest(acc), d, [k \in 1 .. excess |-> k])

\* Dpb_Select up to its choice of a slot: an IDR clears the DPB, and a full pool costs a
\* short-term reference, whose age is judged by the frame_num of the previous picture.
MakeRoom(d, au) ==
    LET c == IF au.nal = "idr" THEN [SlotClear(d, Slot) EXCEPT !.max_lt = IF au.lt THEN 0 ELSE -1]
                               ELSE d
    IN IF FindFree(c) = NoSlot THEN EvictOldest(c) ELSE c

\* Dpb_Select.  The slot is taken even when no reference survives; no slot at all is DPB_FULL,
\* and whatever was evicted on the way stays evicted.
Select264(d, au, maxRefs) ==
    LET r == MakeRoom(d, au)
        i == FindFree(r)
        idr == au.nal = "idr"
    IN IF i = NoSlot THEN r
       ELSE [r EXCEPT !.slots[i] = [in_use |-> TRUE, is_ref |-> au.ref, long_term |-> idr /\ au.lt,
                                    frame_num |-> au.frame_num, poc |-> au.poc, lt_idx |-> 0,
                                    hold |-> @.hold, epoch |-> r.epoch],
                      !.current = i, !.adaptive = ~idr /\ au.adaptive,
                      !.mmco = IF idr THEN <<>> ELSE au.mmco,
                      !.max_refs = IF maxRefs = 0 THEN 1 ELSE maxRefs,
                      !.pic_num = au.frame_num]

\* Dpb_OnDecodeComplete
Complete264(d) ==
    LET cur == d.current
        e == [d EXCEPT !.current = NoSlot]
        marked == CASE ~d.slots[cur].is_ref -> SlotClear(e, {cur})
                    [] d.slots[cur].is_ref /\ d.adaptive ->
                           FoldLeft(LAMBDA acc, m : ApplyMmco(acc, cur, m), e, d.mmco)
                    [] OTHER -> SlidingWindow(e)
    IN IF cur = NoSlot THEN d ELSE [marked EXCEPT !.adaptive = FALSE, !.mmco = <<>>]

\* The reference view of Dpb_Select, with pool slots for the compact indices into it.  The
\* insertion sorts are stable and start from pool order, hence the tie-break.
SortedBy(S, key) ==
    LET before(i, j) == key[i] < key[j] \/ (key[i] = key[j] /\ i < j)
    IN [n \in 1 .. Cardinality(S) |->
            CHOOSE j \in S : Cardinality({i \in S : before(i, j)}) = n - 1]

RefSlots(d) == {i \in Slot : IsRef(d, i)} \ {d.current}
\* Mutant: newest by frame_num instead of FrameNumWrap.
ListPRaw(d) == SortedBy(RefSlots(d), [i \in Slot |-> -d.slots[i].frame_num])

\* listP[0]: every reference, newest frame_num first.
ListP(d) == SortedBy(RefSlots(d), [i \in Slot |-> -FrameNumWrap(d, i)])

Past(d) == SortedBy({i \in RefSlots(d) : d.slots[i].poc <= d.slots[d.current].poc},
                    [i \in Slot |-> -d.slots[i].poc])
Future(d) == SortedBy({i \in RefSlots(d) : d.slots[i].poc > d.slots[d.current].poc},
                      [i \in Slot |-> d.slots[i].poc])

\* listB[0] and listB[1], the second with its first two entries exchanged when both are equal.
ListB0(d) == Past(d) \o Future(d)
ListB1(d) ==
    LET l == Future(d) \o Past(d)
    IN IF Len(l) > 1 /\ l = ListB0(d) THEN <<l[2], l[1]>> \o SubSeq(l, 3, Len(l)) ELSE l

-----------------------------------------------------------------------------
\* H.265: the reference picture set of each slice says what to keep.

\* h265_find_free: first a slot that lost its reference mark, then an empty one.
FindFree265(d) ==
    LET stale == {i \in Slot : ~Held(d, i) /\ d.slots[i].in_use /\ ~d.slots[i].is_ref}
        empty == {i \in Slot : ~Held(d, i) /\ ~d.slots[i].in_use}
    IN IF stale # {} THEN Min(stale) ELSE Lowest(empty)

\* Mutant: only an IDR takes reference marks away.
ApplyRpsKeepsAll(d, au) == IF au.nal = "idr" THEN SlotClear(d, Slot) ELSE d

\* Steps 2 and 3 of H265Dpb_Select.  au.keeps is the union of the picture order counts in the
\* active short-term reference picture set.
ApplyRps(d, au) ==
    IF au.nal = "idr" THEN SlotClear(d, Slot)
    ELSE [d EXCEPT !.slots = [i \in Slot |->
             [d.slots[i] EXCEPT !.is_ref = IF d.slots[i].in_use THEN d.slots[i].poc \in au.keeps
                                                                ELSE @]]]

\* H265Dpb_Select.  Unlike Dpb_Select it leaves the epoch of the slot as it was.
Select265(d, au) ==
    LET r == ApplyRps(d, au)
        i == FindFree265(r)
    IN IF i = NoSlot THEN r
       ELSE [r EXCEPT !.slots[i] = [EmptySlot EXCEPT !.in_use = TRUE, !.is_ref = au.ref,
                                                     !.poc = au.poc, !.epoch = r.slots[i].epoch],
                      !.current = i]

\* H265Dpb_OnDecodeComplete
Complete265(d) ==
    LET cur == d.current
        e == [d EXCEPT !.current = NoSlot]
    IN IF cur = NoSlot \/ d.slots[cur].is_ref THEN e ELSE SlotClear(e, {cur})

\* Dpb_OnDecodeFailed, H265Dpb_OnDecodeFailed
Failed(d) ==
    LET e == [d EXCEPT !.current = NoSlot, !.adaptive = FALSE, !.mmco = <<>>]
    IN IF d.current = NoSlot THEN e ELSE SlotClear(e, {d.current})
=============================================================================
