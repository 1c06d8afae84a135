------------------------------- MODULE Vp9Ops -------------------------------
(***************************************************************************)
(* The VP9 decode engine (mft/engine/decode_engine_vp9.cpp with            *)
(* vp9_dpb.cpp and the parts of vp9_parser.cpp and regbuilder_vp9.cpp that *)
(* choose references and probability contexts) as a value and operators    *)
(* on it; DecoderMft owns one and calls it under its lock.                 *)
(*                                                                         *)
(* A frame of the stream is a record                                       *)
(*    [k, ref, mask, dim, depth, shown, ctx, save, res]                    *)
(* k: "key", "intra", "inter" or "show" (show_existing_frame); ref: the    *)
(* slot it predicts from or shows; mask: refresh_frame_flags; ctx, save:   *)
(* frame_context_idx and refresh_frame_context; res: how decoding it ends, *)
(* "reject" in the parser, "long" for its length, "build" in the register  *)
(* builder, "fail" in the kick, or "ok".                                   *)
(***************************************************************************)
EXTENDS Naturals, FiniteSets, FiniteSetsExt

CONSTANTS
    Vp9Refs,    \* reference slots: 0 .. 7
    Vp9Pool,    \* pool buffers: 1 .. 16, 0 standing for none
    Vp9Ctxs     \* probability contexts: 0 .. 3

ASSUME Vp9Assumption ==
    Vp9Pool \subseteq Nat \ {0} /\ IsFiniteSet(Vp9Pool) /\ IsFiniteSet(Vp9Refs)

\* The frames the parser delivers: a key frame refreshes every slot.
Vp9StreamFrame ==
    {f \in [k : {"key", "intra", "inter", "show"}, ref : Vp9Refs, mask : SUBSET Vp9Refs, dim : Nat,
            depth : {8, 10}, shown : BOOLEAN, ctx : Vp9Ctxs, save : BOOLEAN,
            res : {"reject", "long", "build", "fail", "ok"}] :
        f.k = "key" => f.mask = Vp9Refs}

NoSlot == [pool |-> 0, dim |-> 0, depth |-> 8]

\* Vp9DecodeEngine after Init.  slots is dpb.slots, inUse pool_in_use, wait
\* wait_for_keyframe, valid prob_ctx_valid and depth the parser's last_bit_depth.
\* The rest watches the engine: fresh has the slots that hold the picture the stream last
\* stored there, dirty the contexts a failed kick may have half written, and refOk and ctxOk
\* tell whether the last kick read only fresh slots and clean contexts.  gap is set when a
\* picture is lost without arming the firebreak, or an intra-only frame disarms it.
Vp9Engine ==
    [slots |-> [r \in Vp9Refs |-> NoSlot], inUse |-> {}, wait |-> FALSE, valid |-> {},
     depth |-> 8, fresh |-> {}, dirty |-> {}, gap |-> FALSE,
     refOk |-> TRUE, ctxOk |-> TRUE, armedShow |-> FALSE]

Vp9EngineType ==
    [slots : [Vp9Refs -> [pool : Vp9Pool \cup {0}, dim : Nat, depth : {8, 10}]],
     inUse : SUBSET Vp9Pool, wait : BOOLEAN, valid : SUBSET Vp9Ctxs, depth : {8, 10},
     fresh : SUBSET Vp9Refs, dirty : SUBSET Vp9Ctxs, gap : BOOLEAN,
     refOk : BOOLEAN, ctxOk : BOOLEAN, armedShow : BOOLEAN]

NotShown == [show |-> FALSE, pool |-> 0, dim |-> 0, depth |-> 8]

\* rc is the error code without its sign.
Outcome(e, rc, o) == [e |-> e, rc |-> rc, o |-> o]

\* A frame the engine does not store: the slots it should have refreshed are out of date.
Missed(e, f) == [e EXCEPT !.fresh = @ \ f.mask]

\* read_color_config runs on key and intra-only frames; an inter frame inherits the depth
\* of the last frame decoded.
FrameDepth(e, f) == IF f.k = "inter" THEN e.depth ELSE f.depth

\* A key frame and, because nothing after the flag is parsed, a show_existing_frame have
\* frame_type 0.
IsRefresh(f) == f.k # "inter"

\* Bug: the search looks at pool_in_use alone.
MutFreePoolSlots(e) == Vp9Pool \ e.inUse

FreePoolSlots(e) ==
    {p \in Vp9Pool : p \notin e.inUse /\ \A r \in Vp9Refs : e.slots[r].pool # p}

FreePoolSlot(e) == IF FreePoolSlots(e) = {} THEN 0 ELSE Min(FreePoolSlots(e))

Vp9Dpb_Update(e, f, p) ==
    [r \in Vp9Refs |-> IF r \in f.mask THEN [pool |-> p, dim |-> f.dim, depth |-> FrameDepth(e, f)]
                                       ELSE e.slots[r]]

\* The kick reads the reference slots that are valid, and the saved context if it is.
ReadsFresh(e, f) == f.k = "inter" /\ e.slots[f.ref].pool # 0 => f.ref \in e.fresh
LoadsContext(e, f) == f.k = "inter" /\ f.ctx \in e.valid
Kicked(e, f) ==
    [e EXCEPT !.refOk = ReadsFresh(e, f),
              !.ctxOk = LoadsContext(e, f) => f.ctx \notin e.dirty]

ShowExisting(e, f) ==
    LET s == e.slots[f.ref]
    IN IF s.pool = 0 THEN Outcome(e, 1, NotShown)
       ELSE Outcome([e EXCEPT !.inUse = @ \cup {s.pool}, !.armedShow = e.wait], 0,
                    [show |-> TRUE, pool |-> s.pool, dim |-> s.dim, depth |-> s.depth])

\* Bug: the failure path leaves prob_ctx_valid alone.
MutKickFailed(e, f) ==
    [Missed(Kicked(e, f), f) EXCEPT
        !.wait = TRUE, !.dirty = IF f.save THEN @ \cup {f.ctx} ELSE @]

\* The failing kick may have written prob_loop[ctx]; the engine invalidates the context and
\* drops inter frames until the next refresh point.
KickFailed(e, f) ==
    [Missed(Kicked(e, f), f) EXCEPT
        !.wait  = TRUE,
        !.valid = IF f.save THEN @ \ {f.ctx} ELSE @,
        !.dirty = IF f.save THEN @ \cup {f.ctx} ELSE @]

\* The slots that shared the pool buffer p lose their picture: none, if p was free.
KickDone(e, f, p) ==
    LET kept == {r \in e.fresh : e.slots[r].pool # p}
    IN [Kicked(e, f) EXCEPT
            !.wait  = IF IsRefresh(f) THEN FALSE ELSE @,
            !.slots = Vp9Dpb_Update(e, f, p),
            !.inUse = @ \cup {p},
            !.depth = FrameDepth(e, f),
            !.valid = IF f.save THEN @ \cup {f.ctx} ELSE @,
            !.dirty = IF f.save THEN @ \ {f.ctx} ELSE @,
            !.fresh = kept \cup f.mask,
            !.gap   = IF f.k = "key" THEN FALSE
                      ELSE @ \/ (f.k = "intra" /\ e.wait)]

\* Vp9DecodeEngine_DecodeOne: what it returns and the engine it leaves.
DecodeOne(e0, f) ==
    LET e == [e0 EXCEPT !.armedShow = FALSE]
        p == FreePoolSlot(e)
    IN IF f.res = "reject"
       THEN Outcome([Missed(e, f) EXCEPT !.gap = @ \/ f.mask # {}], 1, NotShown)
       ELSE IF e.wait /\ ~IsRefresh(f) THEN Outcome(Missed(e, f), 0, NotShown)
       ELSE IF f.k = "show" THEN ShowExisting(e, f)
       ELSE IF p = 0 \/ f.res = "long"
       THEN Outcome([Missed(e, f) EXCEPT !.gap = TRUE], IF p = 0 THEN 2 ELSE 1, NotShown)
       ELSE IF f.res = "build" THEN Outcome([Missed(e, f) EXCEPT !.wait = TRUE], 3, NotShown)
       ELSE IF f.res = "fail" THEN Outcome(KickFailed(e, f), 3, NotShown)
       ELSE Outcome(KickDone(e, f, p), 0,
                    [show |-> f.shown, pool |-> p, dim |-> f.dim, depth |-> FrameDepth(e, f)])

Vp9ReleaseFrame(e, o) == [e EXCEPT !.inUse = @ \ {o.pool}]

\* Bug: the flush does not arm the firebreak.
MutVp9Flush(e) == [e EXCEPT !.valid = {}, !.fresh = {}, !.gap = FALSE, !.armedShow = FALSE,
                            !.refOk = TRUE]

\* Vp9DecodeEngine_Flush keeps the slots: only the firebreak hides them.
Vp9Flush(e) == [e EXCEPT !.wait = TRUE, !.valid = {}, !.fresh = {}, !.gap = FALSE,
                         !.armedShow = FALSE, !.refOk = TRUE]
=============================================================================
