------------------------------- MODULE Av1Ops -------------------------------
(***************************************************************************)
(* The AV1 decode engine (mft/engine/decode_engine_av1.cpp, with the slot  *)
(* bookkeeping of av1_parser.cpp and regbuilder_av1.cpp) as a value and    *)
(* operators on it.  A temporal unit is a record                           *)
(*    [seq, frames]                                                        *)
(* seq: <<>> or one sequence header [hint, depth]; frames: a sequence of   *)
(*    [k, ref, prim, mask, dim, shown, res]                                *)
(* k: "key", "inter" or "show" (show_existing_frame); ref: the slot a      *)
(* frame predicts from or shows; prim: {} or the slot primary_ref_frame    *)
(* names; mask: the slots the stream stores it in, refresh_frame_flags but *)
(* for a key frame shown again (all); res: "parse" when its header is      *)
(* refused, "fail" when the kick fails, or "ok".                           *)
(***************************************************************************)
EXTENDS Naturals, Sequences, FiniteSets, FiniteSetsExt, SequencesExt

CONSTANTS
    Av1Refs,        \* reference slots: 0 .. 7
    Av1PoolSize,    \* kPoolSize: 12
    Av1Reorder,     \* max_reorder_pics of a stream with order hints: 16
    Av1Cap          \* kQueueCap of ProcessInput: 24

ASSUME Av1OpsAssumption ==
    /\ Av1PoolSize \in Nat /\ IsFiniteSet(Av1Refs) /\ Cardinality(Av1Refs) < Av1PoolSize
    /\ Av1Reorder \in Nat /\ Av1Cap \in Nat /\ Av1Reorder < Av1Cap

\* The temporal units the parser delivers.
Av1TemporalUnit ==
    [seq : Seq([hint : BOOLEAN, depth : {8, 10}]),
     frames : Seq([k : {"key", "inter", "show"}, ref : Av1Refs, prim : SUBSET Av1Refs,
                   mask : SUBSET Av1Refs, dim : Nat, shown : BOOLEAN, res : {"parse", "fail", "ok"}])]

\* Av1DecodeEngine after Init.  toPool is dpb_to_pool (0 for -1), head the frame size in
\* saved_states (0 for an invalid one), kicks submit_count modulo the pool, known
\* seq_hdr_valid, depth and maxReorder what the cached sequence header gives, sw the software
\* mode, in which nothing is decoded.
\* The rest watches the engine: fresh has the slots whose buffer holds the picture the stream
\* last stored there, split the slots whose header tables (saved_states, dpb) name another
\* picture than dpb_to_pool does, and refOk tells whether the last kick, or the last picture
\* shown again, read only fresh slots.  gap is set when a picture is lost: there is no
\* firebreak, the engine plays on.
Av1Engine(sw) ==
    [sw |-> sw, toPool |-> [r \in Av1Refs |-> 0], head |-> [r \in Av1Refs |-> 0], kicks |-> 0,
     known |-> FALSE, depth |-> 8, maxReorder |-> 0, reorder |-> <<>>, ready |-> <<>>,
     fresh |-> {}, split |-> {}, gap |-> FALSE, refOk |-> TRUE]

Av1EngineType(Frame) ==
    [sw : BOOLEAN, toPool : [Av1Refs -> 0 .. Av1PoolSize], head : [Av1Refs -> Nat],
     kicks : 0 .. Av1PoolSize - 1, known : BOOLEAN, depth : {8, 10},
     maxReorder : {0, Av1Reorder}, reorder : Seq(Frame), ready : Seq(Frame),
     fresh : SUBSET Av1Refs, split : SUBSET Av1Refs, gap : BOOLEAN, refOk : BOOLEAN]

\* The position of the first frame with the lowest pts.
Lowest(s) ==
    Min({i \in DOMAIN s : \A j \in DOMAIN s : s[i].pts <= s[j].pts})

\* Moves the n lowest pictures of reorder to ready, one after the other.
Bump(e, n) ==
    LET step(x, i) == LET b == Lowest(x.reorder)
                      IN [x EXCEPT !.ready = Append(@, x.reorder[b]), !.reorder = RemoveAt(@, b)]
    IN FoldLeft(step, e, [i \in 1 .. n |-> i])

Av1BumpLowestPts(e) ==
    IF Len(e.reorder) > e.maxReorder THEN Bump(e, Len(e.reorder) - e.maxReorder) ELSE e

Queue(e, f) == Av1BumpLowestPts([e EXCEPT !.reorder = Append(@, f)])

\* A picture the stream stores and the engine does not.
Av1Missed(e, f) == [e EXCEPT !.fresh = @ \ f.mask, !.gap = @ \/ f.mask # {}]

\* Bug: the round robin ignores dpb_to_pool.
MutAllocSlot(e) == (e.kicks % Av1PoolSize) + 1

\* A pool buffer that no slot maps to, searched from the kick number on.
AllocSlot(e) ==
    LET slot(i) == ((e.kicks + i) % Av1PoolSize) + 1
        free    == {i \in 0 .. Av1PoolSize - 1 : \A r \in Av1Refs : e.toPool[r] # slot(i)}
    IN IF free = {} THEN slot(0) ELSE slot(Min(free))

\* Av1UpdateSavedStates and rkmpp_av1_dpb_post_decode: the header tables.
UpdateHeaders(e, f) == [e EXCEPT !.head = [r \in Av1Refs |-> IF r \in f.mask THEN f.dim ELSE @[r]]]

\* The slots a kick takes pictures from, and the slot whose saved_cdf seeds prob_tbl: a slot
\* without a picture is replaced by error_ref, one without saved_cdf, which is stored and
\* cleared along with dpb_to_pool, by the defaults.
RefSlots(e, f)  == {r \in Av1Refs : f.k # "key" /\ r = f.ref /\ e.toPool[r] # 0}
SeedSlots(e, f) == {r \in f.prim : f.k = "inter" /\ e.toPool[r] # 0}

ReadsSlots(e, f) == [e EXCEPT !.refOk = RefSlots(e, f) \cup SeedSlots(e, f) \subseteq e.fresh]

\* What Av1HwKickPicture does once the decode is over: a key frame maps every slot to its
\* buffer, whatever its refresh flags say.
KickStored(e, f, p) ==
    LET stored == IF f.k = "key" THEN Av1Refs ELSE f.mask
        kept   == {r \in e.fresh : e.toPool[r] # p}
    IN [e EXCEPT !.toPool = [r \in Av1Refs |-> IF r \in stored THEN p ELSE @[r]],
                 !.fresh  = (kept \ stored) \cup f.mask,
                 !.split  = (@ \ f.mask) \cup (stored \ f.mask),
                 !.gap    = IF f.k = "key" THEN f.mask # Av1Refs ELSE @]

\* A failed kick drops the picture; the header tables take it in nevertheless.
KickLost(e, f) == [Av1Missed(e, f) EXCEPT !.split = @ \cup f.mask]

\* Av1HwKickPicture on the buffer AllocSlot finds.
HwKickPicture(e, f) ==
    LET k == [ReadsSlots(e, f) EXCEPT !.kicks = (@ + 1) % Av1PoolSize]
    IN UpdateHeaders(IF e.sw THEN k
                     ELSE IF f.res = "fail" THEN KickLost(k, f)
                     ELSE KickStored(k, f, AllocSlot(e)), f)

\* One frame of DrainPictures; born tells which flush its temporal unit came after.  The
\* depth of a picture shown again is that of the sequence header in force.
DrainPicture(e, f, pts, born) ==
    LET out(d) == [pts |-> pts, dim |-> d, depth |-> e.depth, born |-> born, blank |-> e.sw]
    IN CASE ~e.known \/ f.res = "parse" -> Av1Missed(e, f)
         [] e.known /\ f.res # "parse" /\ f.k = "show" ->
                IF e.toPool[f.ref] = 0 THEN Av1Missed(e, f)
                ELSE Av1Missed(Queue(ReadsSlots(e, f), out(e.head[f.ref])), f)
         [] e.known /\ f.res # "parse" /\ f.k # "show" ->
                IF f.shown /\ (f.res = "ok" \/ e.sw) THEN Queue(HwKickPicture(e, f), out(f.dim))
                ELSE HwKickPicture(e, f)

\* Av1DecodeEngine_Submit: the sequence headers of the whole unit first, then its pictures.
Av1Submit(e, tu, pts, born) ==
    LET s    == IF tu.seq = <<>> THEN e
                ELSE [e EXCEPT !.known = TRUE, !.depth = tu.seq[1].depth,
                               !.maxReorder = IF tu.seq[1].hint THEN Av1Reorder ELSE 0]
        step(x, f) == DrainPicture(x, f, pts, born)
    IN FoldLeft(step, s, tu.frames)

Av1Drain(e) == Bump(e, Len(e.reorder))

Av1PollFrame(e) == [e EXCEPT !.ready = Tail(@)]

Av1Flush(e) == [e EXCEPT !.reorder = <<>>, !.ready = <<>>, !.known = FALSE, !.gap = FALSE,
                         !.toPool = [r \in Av1Refs |-> 0], !.head = [r \in Av1Refs |-> 0],
                         !.fresh = {}, !.split = {}, !.refOk = TRUE]

Av1QueueDepth(e) == Len(e.reorder) + Len(e.ready)
=============================================================================
