--------------------------- MODULE DecodeEngine ---------------------------
(***************************************************************************)
(* The H.264 / H.265 decode engine of mft/engine/decode_engine.cpp, driven *)
(* through its Submit / Poll interface by one caller at a time, as         *)
(* decode_engine.h lays out.  A picture enters the DPB when it is decoded, *)
(* waits in reorder_q until enough later pictures are known, moves to      *)
(* ready_q in display order, leaves as a DecodedFrame and keeps its pool   *)
(* slot until the caller releases it.  The three stages hold the slot with *)
(* three flags; references hold it through the DPB marking.                *)
(*                                                                         *)
(* The access units come from streams that obey the standard: a stream is  *)
(* a sequence of closed groups of pictures, taken from the constant Gops.  *)
(* A picture's identity is its place in display order, which the code      *)
(* never sees: it sees frame_num, picture order counts and slot numbers.   *)
(***************************************************************************)
EXTENDS DpbOps

CONSTANTS
    Codecs,         \* the codecs to try, a subset of {"H264", "H265"}
    SpsRefFrames,   \* max_num_ref_frames of an H.264 SPS
    SpsReorder,     \* sps_max_num_reorder_pics of an H.265 SPS
    Gops,           \* codec -> set of groups of pictures (sequences of Picture)
    MaxLive,        \* bound: DecodedFrames the caller keeps at a time
    MaxGops,        \* bound: groups of pictures in a stream
    MaxFlush,       \* bound: flushes, for each codec
    MaxFail         \* bound: access units that fail to decode

\* A picture of a stream that the parser accepts: d is its display position in the group, mmco its
\* memory management control operations, drops the decode positions they unmark, and keep (H.265)
\* its reference picture set.
Mmco == [op : 1 .. 6, diff : Nat, idx : Nat]
Picture == [nal : {"idr", "cra", "p"}, ref : BOOLEAN, d : Nat, lt : BOOLEAN, adaptive : BOOLEAN,
            mmco : Seq(Mmco), drops : SUBSET Nat, keep : SUBSET Nat]

ASSUME EngineAssumption ==
    /\ Codecs \subseteq {"H264", "H265"} /\ SpsRefFrames \in Nat /\ SpsReorder \in Nat
    /\ MaxGops \in Nat /\ MaxFail \in Nat
    /\ \A c \in Codecs : Gops[c] \subseteq Seq(Picture) /\ MaxFlush[c] \in Nat

VARIABLES
    eng,        \* the DecodeEngine
    live,       \* DecodedFrames handed out and not yet released
    epoch,      \* the caller's stream epoch: stream_epoch_ of the transform
    gop, at,    \* the group of pictures being fed and the next picture of it
    base,       \* display position of the group's first picture
    budget,     \* groups, flushes and failures left
    data,       \* what each pool buffer holds: the identity of a picture
    view,       \* the references of the last decode, as found and as prescribed
    shown       \* the last picture polled since the last flush or restart

vars == <<eng, live, epoch, gop, at, base, budget, data, view, shown>>

NoPicture == -1
Garbage == -2

-----------------------------------------------------------------------------
\* The stream.

\* Reference pictures decoded before picture i: frame_num before it is reduced.
RefsBefore(g, i) == Cardinality({k \in 1 .. i - 1 : g[k].ref})

\* The decode positions that are references while picture i of an H.264 group is decoded:
\* the last SpsRefFrames of them, unless a picture marked them itself.
Newest(S, n) == {k \in S : Cardinality({j \in S : j >= k}) <= n}

Prescribed264(g) ==
    LET refs[i \in Nat] ==
            LET p == i - 1
            IN IF i <= 1 THEN {}
               ELSE IF ~g[p].ref THEN refs[p]
               ELSE IF g[p].adaptive THEN (refs[p] \ g[p].drops) \cup {p}
               ELSE Newest(refs[p] \cup {p}, SpsRefFrames)
    IN refs

Prescribed(codec, g, i) ==
    IF codec = "H264" THEN Prescribed264(g)[i] ELSE {k \in 1 .. i - 1 : g[k].d \in g[i].keep}

\* Where dpb.cpp leaves the standard (README, findings): MMCO 1 or 3 names a picture from before
\* the last wrap of frame_num, which find_short_term_by_pic_num does not find, or the window is full
\* and has a long-term reference in it, which the sliding window does not count.
AcrossWrap(g, j) ==
    \E n \in DOMAIN g[j].mmco : /\ g[j].mmco[n].op \in {1, 3}
                               /\ g[j].mmco[n].diff > RefsBefore(g, j) % MaxFrameNum
LongInFullWindow(g, j) ==
    /\ g[j].ref /\ ~g[j].adaptive
    /\ \E k \in 1 .. j - 1 : g[k].lt \/ \E n \in DOMAIN g[k].mmco : g[k].mmco[n].op \in {3, 6}
    /\ Cardinality(Prescribed264(g)[j]) >= SpsRefFrames

Strays(codec, g, i) ==
    codec = "H264" /\ \E j \in 1 .. i - 1 : AcrossWrap(g, j) \/ LongInFullWindow(g, j)

\* Picture i of group g as the parser delivers it.  Order counts restart at an IDR; H.264 ones
\* count fields, H.265 ones run on across a CRA.
AccessUnit(codec, g, i) ==
    LET order(d) == CASE codec = "H264" -> 2 * d
                      [] codec = "H265" /\ g[1].nal = "idr" -> d
                      [] codec = "H265" /\ g[1].nal # "idr" -> base + d
    IN [nal |-> g[i].nal, ref |-> g[i].ref, lt |-> g[i].lt, adaptive |-> g[i].adaptive,
        mmco |-> g[i].mmco, frame_num |-> RefsBefore(g, i) % MaxFrameNum,
        poc |-> order(g[i].d), keeps |-> {order(d) : d \in g[i].keep}, id |-> base + g[i].d]


-----------------------------------------------------------------------------
\* The engine as a value.

\* DecodeEngine_InitWithBackend
EngineInit(codec) ==
    [codec |-> codec, dpb |-> DpbInit, reorder_q |-> <<>>, ready_q |-> <<>>,
     max_num_reorder_pics |-> 0, wait_for_idr |-> FALSE]

\* au_has_irap
HasIrap(e, au) == au.nal = "idr" \/ (e.codec = "H265" /\ au.nal = "cra")

Gated(e, au) == e.wait_for_idr /\ ~HasIrap(e, au)

\* resolve_max_reorder after a decode, and the clamp of DecodeEngine_OnDecodeComplete.
kMaxReorderPics == 32
MaxReorder(e) == LET sps == IF e.codec = "H265" THEN SpsReorder ELSE SpsRefFrames
                 IN IF sps > kMaxReorderPics THEN kMaxReorderPics ELSE sps

\* bump_lowest: the first entry of lowest picture order count becomes ready.
LowestPoc(q) ==
    CHOOSE i \in DOMAIN q : /\ \A j \in DOMAIN q : q[i].poc <= q[j].poc
                            /\ \A j \in 1 .. i - 1 : q[j].poc > q[i].poc

BumpLowest(e) ==
    LET i == LowestPoc(e.reorder_q)
        x == e.reorder_q[i]
    IN [e EXCEPT !.dpb = TransferHold(@, x.slot, "reorder", "ready", x.epoch),
                 !.ready_q = Append(@, x), !.reorder_q = RemoveAt(@, i)]

Bump(e, n) == FoldLeft(LAMBDA acc, k : BumpLowest(acc), e, [k \in 1 .. n |-> k])

\* DecodeEngine_Drain
DrainAll(e) == Bump(e, Len(e.reorder_q))

\* Mutant: an IDR spills nothing.
EnqueueNoSpill(e, x, idr) ==
    LET pushed == [e EXCEPT !.reorder_q = Append(@, x), !.max_num_reorder_pics = MaxReorder(e)]
        excess == Len(pushed.reorder_q) - MaxReorder(e)
    IN IF excess > 0 THEN Bump(pushed, excess) ELSE pushed

\* DecodeEngine_OnDecodeComplete: an H.264 IDR spills everything before it.
Enqueue(e, x, idr) ==
    LET spilled == IF e.codec = "H264" /\ idr THEN DrainAll(e) ELSE e
        pushed == [spilled EXCEPT !.reorder_q = Append(@, x), !.max_num_reorder_pics = MaxReorder(e)]
        excess == Len(pushed.reorder_q) - MaxReorder(e)
    IN IF excess > 0 THEN Bump(pushed, excess) ELSE pushed

\* How a decode ends, given the DPB before it, the one Select leaves and the one after its
\* completion.
\* "rejected" stands for every error before the DPB is asked for a slot (no slice, parser,
\* dimensions, buffer size), "failed" for every error after it (table packing, register builder,
\* submit, wait, hardware status).  A DPB that has no slot fails the decode by itself.
DecodeOne(d, selected, completed, outcome) ==
    CASE outcome = "rejected" -> [rc |-> 1, dpb |-> d, slot |-> NoSlot]
      [] outcome # "rejected" /\ selected.current = NoSlot ->
             [rc |-> 1, dpb |-> selected, slot |-> NoSlot]
      [] outcome = "failed" /\ selected.current # NoSlot ->
             [rc |-> 5, dpb |-> Failed(selected), slot |-> NoSlot]
      [] outcome = "decoded" /\ selected.current # NoSlot ->
             [rc |-> 0, dpb |-> completed, slot |-> selected.current]

DecodeOne_H264(d, au, outcome) ==
    LET selected == Select264(d, au, SpsRefFrames)
    IN DecodeOne(d, selected, Complete264(selected), outcome)
DecodeOne_H265(d, au, outcome) ==
    LET selected == Select265(d, au)
    IN DecodeOne(d, selected, Complete265(selected), outcome)

\* The DPB as the codec sees it while the access unit is decoded.
Selected(e, au) ==
    IF e.codec = "H264" THEN Select264(e.dpb, au, SpsRefFrames) ELSE Select265(e.dpb, au)

\* DecodeEngine_Submit: the gate, the decode, the gate again when the decode fails, the reorder
\* hold, tagged with the caller's epoch, and the queues.
Submitted(e, au, outcome, ep) ==
    LET r == IF e.codec = "H264" THEN DecodeOne_H264(e.dpb, au, outcome)
                                 ELSE DecodeOne_H265(e.dpb, au, outcome)
        x == [poc |-> au.poc, slot |-> r.slot, epoch |-> ep, id |-> au.id]
        held == [e EXCEPT !.dpb = AddHold(r.dpb, r.slot, "reorder", ep), !.wait_for_idr = FALSE]
    IN CASE Gated(e, au) -> e
         [] ~Gated(e, au) /\ r.rc # 0 -> [e EXCEPT !.dpb = r.dpb, !.wait_for_idr = TRUE]
         [] ~Gated(e, au) /\ r.rc = 0 ->
                IF held.dpb.trap = "no" THEN Enqueue(held, x, au.nal = "idr") ELSE held

\* DecodeEngine_QueueDepth
QueueDepth(e) == Len(e.reorder_q) + Len(e.ready_q)

\* Mutant: the reorder threshold itself.
InputQueueCapacityTight(e) == Min({Max({e.max_num_reorder_pics, 3}), PoolSize - 1})

\* DecodeEngine_InputQueueCapacity
InputQueueCapacity(e) == Min({Max({e.max_num_reorder_pics + 1, 4}), PoolSize - 1})

\* Mutant: the entries of ready_q keep their holds.
FlushedKeepsReady(e) ==
    [e EXCEPT !.dpb = DpbFlush(FoldLeft(LAMBDA acc, x : ReleaseHold(acc, x.slot, "reorder"), @, e.reorder_q)),
              !.reorder_q = <<>>, !.ready_q = <<>>, !.max_num_reorder_pics = 0, !.wait_for_idr = TRUE]

\* DecodeEngine_Flush
Flushed(e) ==
    LET Release(d, q, reason) == FoldLeft(LAMBDA acc, x : ReleaseHold(acc, x.slot, reason), d, q)
    IN [e EXCEPT !.dpb = DpbFlush(Release(Release(@, e.reorder_q, "reorder"), e.ready_q, "ready")),
                 !.reorder_q = <<>>, !.ready_q = <<>>, !.max_num_reorder_pics = 0,
                 !.wait_for_idr = TRUE]

-----------------------------------------------------------------------------
\* What the last decode found in the DPB, by picture identity, and what the standard prescribes.
Ids(seq) == [i \in DOMAIN seq |-> data[seq[i]]]
ShortOnly(d, seq) == SelectSeq(seq, LAMBDA i : ~d.slots[i].long_term)

NoView == [refs |-> {}, want |-> {}, p |-> <<>>, b0 |-> <<>>, b1 |-> <<>>, decoded |-> <<>>,
           id |-> NoPicture, full |-> FALSE, strays |-> FALSE, evicted |-> FALSE]

\* Since the last IDR, Dpb_Select has evicted a reference for want of a slot.
Evicts(codec, d, au) ==
    LET c == IF au.nal = "idr" THEN SlotClear(d, Slot) ELSE d
    IN codec = "H264" /\ (FindFree(c) = NoSlot \/ (au.nal # "idr" /\ view.evicted))

\* The view of a decode that starts from DPB b and selects in d.
ViewOf(codec, b, d, au) ==
    LET want == Prescribed(codec, gop, at)
        h264 == codec = "H264" /\ au.nal # "idr"
        List(q) == IF h264 THEN Ids(q) ELSE <<>>
    IN IF d.current = NoSlot THEN [NoView EXCEPT !.full = TRUE, !.evicted = Evicts(codec, b, au)]
       ELSE [refs |-> {data[i] : i \in RefSlots(d)},
             want |-> {base + gop[k].d : k \in want},
             p |-> List(ShortOnly(d, ListP(d))), b0 |-> List(ListB0(d)), b1 |-> List(ListB1(d)),
             decoded |-> IF h264 THEN [k \in 1 .. at - 1 |-> base + gop[k].d] ELSE <<>>,
             id |-> au.id, full |-> FALSE,
             strays |-> Strays(codec, gop, at), evicted |-> Evicts(codec, b, au)]

\* RKMPP_VERIFY has not ended the process.
Running == eng.dpb.trap = "no"

Init ==
    \E c \in Codecs : \E g \in Gops[c] :
        /\ eng = EngineInit(c)
        /\ live = {} /\ epoch = 0
        /\ g[1].nal = "idr" /\ gop = g /\ at = 1 /\ base = 0
        /\ budget = [gops |-> MaxGops - 1, flush |-> MaxFlush[c], fail |-> MaxFail]
        /\ data = [i \in Slot |-> Garbage]
        /\ view = NoView /\ shown = NoPicture

\* ProcessInput lets an access unit in while the queues are below the capacity.
Submit ==
    /\ Running
    /\ at <= Len(gop)
    /\ QueueDepth(eng) < InputQueueCapacity(eng)
    /\ \E outcome \in {"rejected", "failed", "decoded"} :
         LET au == AccessUnit(eng.codec, gop, at)
             d == Selected(eng, au)
             asked == ~Gated(eng, au) /\ outcome # "rejected"
         IN /\ outcome # "decoded" => budget.fail > 0 /\ ~Gated(eng, au)
            /\ eng' = Submitted(eng, au, outcome, epoch)
            /\ budget' = [budget EXCEPT !.fail = IF outcome = "decoded" THEN @ ELSE @ - 1]
            /\ view' = IF asked THEN ViewOf(eng.codec, eng.dpb, d, au) ELSE NoView
            /\ data' = IF asked /\ d.current # NoSlot
                       THEN [data EXCEPT ![d.current] =
                                IF outcome = "decoded" THEN au.id ELSE Garbage]
                       ELSE data
    /\ at' = at + 1
    /\ UNCHANGED <<live, epoch, gop, base, shown>>

\* The stream goes on with another group.  An H.265 one has a single IDR, as decode_engine.h
\* assumes: DecodeEngine_OnDecodeComplete spills reorder_q for H.264 only.
NextGop ==
    /\ Running
    /\ at > Len(gop) /\ budget.gops > 0
    /\ \E g \in Gops[eng.codec] : /\ eng.codec = "H265" => g[1].nal = "cra"
                                  /\ gop' = g
    /\ at' = 1 /\ base' = base + Len(gop)
    /\ budget' = [budget EXCEPT !.gops = @ - 1]
    /\ UNCHANGED <<eng, live, epoch, data, view, shown>>

\* DecodeEngine_PollFrame
PollFrame ==
    /\ Running
    /\ eng.ready_q # <<>> /\ Cardinality(live) < MaxLive
    /\ LET x == Head(eng.ready_q)
       IN /\ eng' = [eng EXCEPT !.ready_q = Tail(@),
                                !.dpb = TransferHold(@, x.slot, "ready", "consumer", x.epoch)]
          /\ live' = live \cup {x}
          /\ shown' = x.id
    /\ UNCHANGED <<epoch, gop, at, base, budget, data, view>>

\* DecodeEngine_ReleaseFrame
ReleaseFrame ==
    /\ Running
    /\ \E x \in live : /\ eng' = [eng EXCEPT !.dpb = ReleaseHold(@, x.slot, "consumer")]
                       /\ live' = live \ {x}
    /\ UNCHANGED <<epoch, gop, at, base, budget, data, view, shown>>

\* The caller drains at the end of a stream.
Drain ==
    /\ Running
    /\ at > Len(gop) /\ eng.reorder_q # <<>>
    /\ eng' = DrainAll(eng)
    /\ UNCHANGED <<live, epoch, gop, at, base, budget, data, view, shown>>

\* DecodeEngine_Flush: the caller seeks, and the stream goes on anywhere in some group.
Flush ==
    /\ Running
    /\ budget.flush > 0
    /\ eng' = Flushed(eng)
    /\ epoch' = epoch + 1
    /\ \E g \in Gops[eng.codec] : \E i \in DOMAIN g : gop' = g /\ at' = i
    /\ base' = base + Len(gop)
    /\ budget' = [budget EXCEPT !.flush = @ - 1]
    /\ shown' = NoPicture /\ view' = NoView
    /\ UNCHANGED <<live, data>>

\* END_STREAMING, FLUSHes that find no engine, and BEGIN_STREAMING: a new engine with a new pool,
\* and a DPB of epoch 0, takes the stream up at an IDR.  stream_epoch_ goes on.
Restart ==
    /\ Running /\ budget.gops > 0
    /\ eng' = EngineInit(eng.codec) /\ data' = [i \in Slot |-> Garbage]
    /\ \E k \in 0 .. budget.flush :
         /\ epoch' = epoch + k
         /\ budget' = [budget EXCEPT !.gops = @ - 1, !.flush = @ - k]
    /\ \E g \in Gops[eng.codec] : g[1].nal = "idr" /\ gop' = g
    /\ at' = 1 /\ base' = 0
    /\ live' = {} /\ view' = NoView /\ shown' = NoPicture

Finished == at > Len(gop) /\ budget.gops = 0 /\ QueueDepth(eng) = 0 /\ live = {}

Next == Submit \/ NextGop \/ PollFrame \/ ReleaseFrame \/ Drain \/ Flush \/ Restart
        \/ ((Finished \/ ~Running) /\ UNCHANGED vars)

Spec == Init /\ [][Next]_vars

-----------------------------------------------------------------------------
Queued == ToSet(eng.reorder_q) \cup ToSet(eng.ready_q)

\* Every variable keeps its type: queue entries name pool slots and earlier epochs, and a slot's
\* frame_num is reduced.
TypeOK ==
    /\ \A x \in Queued \cup live : x.slot \in Slot /\ x.epoch \in 0 .. epoch
    /\ eng.dpb.current = NoSlot
    /\ \A i \in Slot : /\ eng.dpb.slots[i].hold \subseteq Hold
                       /\ eng.dpb.slots[i].frame_num \in 0 .. MaxFrameNum - 1
                       /\ eng.dpb.slots[i].is_ref => eng.dpb.slots[i].in_use
    /\ eng.max_num_reorder_pics \in Nat /\ shown \in Nat \cup {NoPicture}

\* The epoch of the slot the next decode takes.  H265Dpb_Select never stamps one.
SlotEpoch(e) == IF e.codec = "H264" THEN e.dpb.epoch ELSE 0

\* RKMPP_VERIFY ends the process in one situation only: a decode is tagged with a stream epoch
\* that is not the one its slot carries (dpb.cpp:205, 778).  The hold flags themselves never trap:
\* each is set once and cleared once, by an entry of the slot's own epoch, across reordering,
\* polling, flushes and restarts (dpb.cpp:204, 217, 227-230, 246-247).  The two epochs do part, when a
\* FLUSH finds no engine or a restart follows one, and for H.265 at every FLUSH (README, findings).
TrapsOnTagOnly == eng.dpb.trap # "no" => eng.dpb.trap = "tag" /\ epoch # SlotEpoch(eng)

\* The flags of a slot say where its picture is: exactly one flag for each queue entry and each
\* live frame, and none without one, so no slot leaks and none is pinned twice.
HoldsMatchQueues ==
    /\ \A i \in Slot : eng.dpb.slots[i].hold =
           {r \in Hold : \E x \in CASE r = "reorder" -> ToSet(eng.reorder_q)
                                    [] r = "ready" -> ToSet(eng.ready_q)
                                    [] r = "consumer" -> live : x.slot = i}
    /\ Cardinality({x.slot : x \in Queued \cup live}) = QueueDepth(eng) + Cardinality(live)

\* No decode overwrites a picture that waits to be shown or that a consumer still reads, although
\* its slot may long have lost its reference mark, been cleared by an IDR or survived a flush.
FramesIntact == \A x \in Queued \cup live : data[x.slot] = x.id

\* The pictures the codec is given as references are the ones the standard prescribes, with their
\* contents intact.  It fails in three ways (README, findings), which RefsExact leaves out.
RefsPrescribed == view.refs = view.want

\* The references are those the standard prescribes, through the sliding window, MMCO marking of
\* pictures since the last frame_num wrap and the RPS, across failed decodes, seeks into the middle
\* of a group and slots pinned by the queues (dpb.cpp:73-155, 661-699, 854-980).  Left out, each
\* until the next IDR: MMCO 1 or 3 across a wrap (dpb.cpp:37), a full window that holds a long-term
\* reference, and a reference evicted because the pool has no slot (dpb.cpp:340-350).
RefsExact == view.strays \/ view.evicted \/ RefsPrescribed

\* H.264 list order: listP from the last decoded to the first, listB[0] away from the current
\* picture into the past and then the future, and listB[1] a permutation that differs from it,
\* unless the marking has strayed and a picture the stream has dropped is among them.
ListsInOrder ==
    LET when(id) == CHOOSE k \in DOMAIN view.decoded : view.decoded[k] = id
    IN ~view.strays =>
       /\ \A i, j \in DOMAIN view.p : i < j => when(view.p[i]) > when(view.p[j])
       /\ \A i, j \in DOMAIN view.b0 : i < j =>
              \/ view.b0[i] < view.id /\ (view.b0[j] < view.b0[i] \/ view.b0[j] > view.id)
              \/ view.id < view.b0[i] /\ view.b0[i] < view.b0[j]
       /\ ToSet(view.b1) = ToSet(view.b0)
       /\ Len(view.b0) > 1 => view.b1 # view.b0

\* The pool is large enough (decode_engine.h:70): whenever ProcessInput's back-pressure lets an access
\* unit in, the DPB finds a slot for it.  It fails when references and waiting frames fill the pool;
\* the decode then fails and the gate goes up (README, findings).
PoolSuffices == ~view.full

\* Back-pressure is always relieved: when the queues are at the capacity, a frame is ready to be
\* polled, so input never waits for output that waits for input.
NoStall == QueueDepth(eng) >= InputQueueCapacity(eng) => eng.ready_q # <<>>

\* Between two flushes, and two restarts, frames come out in display order, whatever the decode
\* order, the group boundaries, the failures and the drains.
DisplayOrder == [][shown' \notin {shown, NoPicture} /\ epoch' = epoch => shown' > shown]_vars
=============================================================================
