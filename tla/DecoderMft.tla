----------------------------- MODULE DecoderMft -----------------------------
(***************************************************************************)
(* The decoder transform of mft/dll/decoder_mft.cpp: type negotiation,     *)
(* the streaming messages, ProcessInput and ProcessOutput, over the engine *)
(* of its codec.  The VP9 and AV1 engines are those of Vp9Ops and Av1Ops;  *)
(* the H.264 / H.265 engine appears here by its queues alone, DecodeEngine *)
(* having the rest of it.                                                  *)
(*                                                                         *)
(* Every method holds lock_, except that the H.264 / H.265 ProcessInput    *)
(* gives it up around DecodeEngine_SubmitFramed: other methods run in that *)
(* window, but no second ProcessInput and no END_STREAMING, which the      *)
(* contract of a synchronous transform rules out.  The Submit in the       *)
(* window goes on step by step, with FLUSH and ProcessOutput between any   *)
(* two steps.  Nothing keeps them from falling into a step: the engine has *)
(* no mutex of its own, and such a data race (GenRace) ends what the model *)
(* can say, as does RKMPP_VERIFY (GenTrap).                                *)
(*                                                                         *)
(* Sizes are abstract: dim stands for width x height, and a frame of depth *)
(* 10 takes twice the bytes of one of depth 8.                             *)
(***************************************************************************)
EXTENDS Vp9Ops, Av1Ops

CONSTANTS
    Kinds,          \* codecs to try: a subset of {"H264", "H265", "VP9", "AV1"}
    GenInputs,      \* H.264 and H.265 access units: [dim, depth, irap, ok]
    Vp9Inputs,      \* access units: sequences of Vp9Ops frames, one or a superframe
    Av1Inputs,      \* temporal units of Av1Ops
    Dims,           \* frame sizes a media type may have
    Ptss,           \* codec -> sample times, positive
    GenReorder,     \* max_num_reorder_pics of the stream
    GenPool,        \* kPoolSize: 16
    MinCap,         \* least capacity of InputQueueCapacity: 4
    Vp9Cap,         \* kVp9QueueCap: 8
    MaxInputs,      \* bound: codec -> inputs
    MaxFlush,       \* bound: flushes
    MaxTypes        \* bound: input types set

ASSUME MftAssumption ==
    /\ Kinds \subseteq {"H264", "H265", "VP9", "AV1"}
    /\ (\A k \in Kinds : Ptss[k] \subseteq Nat \ {0} /\ MaxInputs[k] \in Nat) /\ Dims \subseteq Nat \ {0}
    /\ GenReorder \in Nat /\ GenPool \in Nat \ {0} /\ MinCap \in Nat /\ Vp9Cap \in Nat \ {0}
    /\ GenInputs \subseteq [dim : Nat, depth : {8, 10}, irap : BOOLEAN, ok : BOOLEAN]
    /\ Vp9Inputs \subseteq Seq(Vp9StreamFrame) \ {<<>>}
    /\ Av1Inputs \subseteq Av1TemporalUnit

VARIABLES
    kind,           \* kind_
    inType,         \* input_type_ is set
    outType,        \* output_type_: none, or its size and depth
    dim, depth,     \* width_ x height_ and bit_depth_
    streaming, draining, initFailed,
    epoch,          \* stream_epoch_
    lastPts,        \* last_emitted_pts_, 0 for INT64_MIN
    eng,            \* engine_, engine_vp9_ or engine_av1_
    outq,           \* vp9_out_queue_
    win,            \* the ProcessInput that has given up lock_
    out,            \* the sample the last step handed out
    erred,          \* a ProcessOutput has failed since the engine was made
    retyped,        \* the input type was set again after the output type
    count           \* inputs, flushes and input types so far

typeVars == <<kind, inType, outType, dim, retyped>>
msgVars  == <<streaming, draining, initFailed, epoch>>
vars == <<typeVars, depth, msgVars, lastPts, eng, outq, win, out, erred, count>>

None    == [at |-> "none"]
NoType  == [dim |-> 0, depth |-> 8]

\* H.264 and H.265 share an engine.
Gen == kind \in {"H264", "H265"}

\* DecodeEngine after Init: its queues, the slots held for entries and polled frames, the epoch of
\* the DPB, max_num_reorder_pics, wait_for_idr, and the depth of the SPS the parser has, 8 for none.
GenEngine(sps) == [reorder |-> <<>>, ready |-> <<>>, held |-> 0, epoch |-> 0, max |-> 0,
                   wait |-> FALSE, sps |-> sps]

Init ==
    /\ kind \in Kinds
    /\ inType = FALSE /\ outType = NoType /\ dim = 0 /\ depth = 8 /\ retyped = FALSE
    /\ streaming = FALSE /\ draining = FALSE /\ initFailed = FALSE /\ epoch = 0
    /\ lastPts = 0 /\ eng = None /\ outq = <<>> /\ win = None /\ out = None /\ erred = FALSE
    /\ count = [inputs |-> 0, flushes |-> 0, types |-> 0]

-----------------------------------------------------------------------------
\* Types.

\* What SetInputType makes of bit_depth_: 8, or 10 when the container's extradata says so; VP9
\* has none.
ExtradataDepths == IF kind = "VP9" THEN {8} ELSE {8, 10}

\* Neither the output type nor a running engine takes notice.
SetInputType(d, b) ==
    /\ count.types < MaxTypes /\ b \in ExtradataDepths
    /\ inType' = TRUE /\ dim' = d /\ depth' = b
    /\ retyped' = (outType # NoType)
    /\ count' = [count EXCEPT !.types = @ + 1]
    /\ out' = None
    /\ UNCHANGED <<kind, outType, msgVars, lastPts, eng, outq, win, erred>>

ClearInputType ==
    /\ inType /\ inType' = FALSE /\ out' = None
    /\ UNCHANGED <<kind, outType, dim, retyped, depth, msgVars, lastPts, eng, outq, win, erred,
                   count>>

\* The one type SetOutputType takes is the one on offer.
BuildOutputType == [dim |-> dim, depth |-> depth]

SetOutputType ==
    /\ inType
    /\ outType' = BuildOutputType /\ retyped' = FALSE /\ out' = None
    /\ UNCHANGED <<kind, inType, dim, depth, msgVars, lastPts, eng, outq, win, erred, count>>

ClearOutputType ==
    /\ inType /\ outType # NoType /\ outType' = NoType /\ out' = None
    /\ UNCHANGED <<kind, inType, dim, retyped, depth, msgVars, lastPts, eng, outq, win, erred,
                   count>>

TypesSet == inType /\ outType # NoType

-----------------------------------------------------------------------------
\* ProcessMessage.

\* The engines Init can leave: none when it fails.  Extradata primes the H.264 or H.265 parser;
\* AV1 falls back on software.
NewEngines ==
    CASE Gen -> {GenEngine(8), GenEngine(depth)}
      [] kind = "VP9" -> {Vp9Engine}
      [] kind = "AV1" -> {Av1Engine(FALSE), Av1Engine(TRUE)}

BeginStreaming ==
    /\ ~streaming /\ TypesSet
    /\ eng' \in NewEngines \cup {None}
    /\ initFailed' = (eng' = None)
    /\ streaming' = TRUE /\ out' = None /\ erred' = FALSE
    /\ UNCHANGED <<typeVars, depth, draining, epoch, lastPts, outq, win, count>>

\* draining_ and last_emitted_pts_ survive.
EndStreaming ==
    /\ streaming /\ win = None
    /\ eng' = None /\ outq' = <<>> /\ initFailed' = FALSE /\ streaming' = FALSE /\ out' = None
    /\ erred' = FALSE
    /\ UNCHANGED <<typeVars, depth, draining, epoch, lastPts, win, count>>

CommandDrain ==
    /\ ~draining /\ draining' = TRUE /\ out' = None
    /\ UNCHANGED <<typeVars, depth, streaming, initFailed, epoch, lastPts, eng, outq, win, erred,
                   count>>

\* DecodeEngine_Flush lets go of the slots in the queues, not of those polled.
GenFlush(e) ==
    [e EXCEPT !.reorder = <<>>, !.ready = <<>>, !.held = @ - Len(e.reorder) - Len(e.ready),
              !.epoch = @ + 1, !.max = 0, !.wait = TRUE]

EngineFlush(e) ==
    CASE e = None -> e
      [] e # None /\ Gen -> GenFlush(e)
      [] e # None /\ kind = "VP9" -> Vp9Flush(e)
      [] e # None /\ kind = "AV1" -> Av1Flush(e)

\* Mutant: the epoch is not advanced.
MutCommandFlush ==
    /\ count.flushes < MaxFlush
    /\ draining' = FALSE /\ lastPts' = 0
    /\ eng' = EngineFlush(eng) /\ outq' = <<>> /\ out' = None
    /\ count' = [count EXCEPT !.flushes = @ + 1]
    /\ UNCHANGED <<typeVars, depth, streaming, initFailed, epoch, win, erred>>

\* The epoch goes on with or without an engine, and across END_STREAMING.
CommandFlush ==
    /\ count.flushes < MaxFlush
    /\ draining' = FALSE /\ lastPts' = 0 /\ epoch' = epoch + 1
    /\ eng' = EngineFlush(eng) /\ outq' = <<>> /\ out' = None
    /\ count' = [count EXCEPT !.flushes = @ + 1]
    /\ UNCHANGED <<typeVars, depth, streaming, initFailed, win, erred>>

-----------------------------------------------------------------------------
\* ProcessInput.

Accepting == TypesSet /\ streaming /\ eng # None

TakeInput == count' = [count EXCEPT !.inputs = @ + 1] /\ out' = None

GenQueueDepth(e) == Len(e.reorder) + Len(e.ready)

\* Mutant: the reorder depth itself.
MutInputQueueCapacity(e) == Min({Max({e.max, MinCap - 1}), GenPool - 1})

\* DecodeEngine_InputQueueCapacity
InputQueueCapacity(e) == Min({Max({e.max + 1, MinCap}), GenPool - 1})

\* GetInputStatus: what a client that polls is told.  The VP9 queue does not count.
GetInputStatus ==
    /\ Gen /\ eng # None => GenQueueDepth(eng) < InputQueueCapacity(eng)
    /\ kind = "AV1" /\ eng # None => Av1QueueDepth(eng) < Av1Cap

\* H.264 and H.265: the input is taken, and lock_ released.
GenBegin(au, pts) ==
    /\ Gen /\ Accepting /\ win = None /\ count.inputs < MaxInputs[kind]
    /\ GenQueueDepth(eng) < InputQueueCapacity(eng)
    /\ win' = [at |-> "unlocked", au |-> au, pts |-> pts, born |-> count.flushes, tag |-> 0,
               sel |-> 0, rc |-> 0]
    /\ TakeInput
    /\ UNCHANGED <<typeVars, depth, msgVars, lastPts, eng, outq, erred>>

\* stream_epoch_ is read as an argument of the call, after the unlock.
GenReadEpoch ==
    /\ win.at = "unlocked"
    /\ win' = [win EXCEPT !.at = "tagged", !.tag = epoch] /\ out' = None
    /\ UNCHANGED <<typeVars, depth, msgVars, lastPts, eng, outq, erred, count>>

\* Steps of the Submit change the engine and the window.
InWindow == out' = None /\ UNCHANGED <<typeVars, depth, msgVars, lastPts, outq, erred, count>>

\* DecodeEngine_SubmitFramed: the length prefixes make no sense.
GenMalformed ==
    /\ win.at = "tagged" /\ ~win.au.ok
    /\ win' = [win EXCEPT !.at = "done", !.rc = 1] /\ eng' = eng
    /\ InWindow

\* DecodeEngine_Submit: the IRAP gate drops the access unit, and answers 0, ...
GenGated ==
    /\ win.at = "tagged" /\ eng.wait /\ ~win.au.irap
    /\ win' = [win EXCEPT !.at = "done"] /\ eng' = eng
    /\ InWindow

\* ... or lets it in.
GenAdmitted ==
    /\ win.at = "tagged" /\ (~eng.wait \/ win.au.irap)
    /\ win' = [win EXCEPT !.at = "admitted"] /\ eng' = [eng EXCEPT !.wait = FALSE]
    /\ InWindow

\* DecodeEngine_DecodeOne up to Dpb_Select, which stamps the slot with the epoch of the DPB;
\* H265Dpb_Select leaves it at 0.
GenSelect ==
    /\ win.at = "admitted" /\ eng.held < GenPool
    /\ win' = [win EXCEPT !.at = "decoding", !.sel = IF kind = "H264" THEN eng.epoch ELSE 0]
    /\ eng' = [eng EXCEPT !.sps = win.au.depth]
    /\ InWindow

\* The decode fails: every slot of the pool is held, or any error of the parser, the kick or the
\* hardware.  The gate goes up again.
GenFail ==
    /\ \/ win.at = "admitted" /\ eng.held >= GenPool
       \/ win.at = "decoding" /\ ~win.au.ok
    /\ win' = [win EXCEPT !.at = "done", !.rc = 1]
    /\ eng' = [eng EXCEPT !.sps = win.au.depth, !.wait = TRUE]
    /\ InWindow

\* DecodeEngine_OnDecodeComplete: an H.264 IDR spills everything before it.
GenQueue(e, f) ==
    LET spilled == IF kind = "H264" /\ f.irap THEN Bump(e, Len(e.reorder)) ELSE e
        pushed  == [spilled EXCEPT !.reorder = Append(@, f), !.held = @ + 1, !.max = GenReorder]
    IN IF Len(pushed.reorder) > GenReorder THEN Bump(pushed, Len(pushed.reorder) - GenReorder)
                                           ELSE pushed

\* The picture is there, and its slot is held under the epoch read after the unlock, ...
GenComplete ==
    /\ win.at = "decoding" /\ win.au.ok /\ win.tag = win.sel
    /\ eng' = GenQueue(eng, [pts |-> win.pts, dim |-> win.au.dim, depth |-> win.au.depth,
                             tag |-> win.tag, born |-> win.born, irap |-> win.au.irap])
    /\ win' = [win EXCEPT !.at = "done"]
    /\ InWindow

\* ... unless that epoch is not the slot's: RKMPP_VERIFY ends the process.
GenTrap ==
    /\ win.at = "decoding" /\ win.au.ok /\ win.tag # win.sel
    /\ win' = [win EXCEPT !.at = "trap"] /\ eng' = eng
    /\ InWindow

\* A FLUSH or a ProcessOutput of another thread falls into a step of the Submit.  Both change the
\* queues and the DPB without a lock between them: the behaviour is undefined from here on.
GenRace ==
    /\ win.at \in {"tagged", "admitted", "decoding"}
    /\ win' = [win EXCEPT !.at = "torn"] /\ eng' = eng
    /\ InWindow

\* Back under lock_, the depth of the parser's SPS is taken over.
GenEnd ==
    /\ win.at = "done"
    /\ depth' = IF win.rc = 0 /\ eng.sps = 10 THEN 10 ELSE depth
    /\ win' = None /\ out' = None
    /\ UNCHANGED <<typeVars, msgVars, lastPts, eng, outq, erred, count>>

\* VP9: one DecodeOne per frame of the superframe, each copied out and released.
Vp9DecodeFrames(tu, pts) ==
    LET step(x, f) ==
          LET d == DecodeOne(x.eng, f)
          IN IF d.rc # 0 THEN [x EXCEPT !.eng = d.e]
             ELSE [eng   |-> Vp9ReleaseFrame(d.e, d.o),
                   depth |-> IF d.o.depth = 10 THEN 10 ELSE x.depth,
                   outq  |-> IF ~d.o.show THEN x.outq
                             ELSE Append(x.outq, [pts |-> pts, dim |-> d.o.dim,
                                                  depth |-> d.o.depth, born |-> count.flushes])]
    IN FoldLeft(step,
                [eng |-> eng, outq |-> outq,
                 depth |-> IF tu[1].depth = 10 THEN 10 ELSE depth], tu)

Vp9ProcessInput(tu, pts) ==
    /\ kind = "VP9" /\ Accepting /\ count.inputs < MaxInputs[kind]
    /\ Len(outq) < Vp9Cap
    /\ LET r == Vp9DecodeFrames(tu, pts)
       IN eng' = r.eng /\ outq' = r.outq /\ depth' = r.depth
    /\ TakeInput
    /\ UNCHANGED <<typeVars, msgVars, lastPts, win, erred>>

Av1ProcessInput(tu, pts) ==
    /\ kind = "AV1" /\ Accepting /\ count.inputs < MaxInputs[kind]
    /\ Av1QueueDepth(eng) < Av1Cap
    /\ eng' = Av1Submit(eng, tu, pts, count.flushes)
    /\ depth' = IF eng'.known /\ eng'.depth = 10 THEN 10 ELSE depth
    /\ TakeInput
    /\ UNCHANGED <<typeVars, msgVars, lastPts, outq, win, erred>>

-----------------------------------------------------------------------------
\* ProcessOutput.  Without a frame to hand out it answers MF_E_TRANSFORM_NEED_MORE_INPUT,
\* without an engine E_FAIL, and changes nothing.

\* A sample made of frame f, with the geometry the copy uses.
Sample(f, d, b) == [at |-> "sample", f |-> f, dim |-> d, depth |-> b,
                    fresh |-> f.born = count.flushes]

SizeOf(d, b) == IF b = 10 THEN 2 * d ELSE d

\* The engine after the Drain that draining_ asks for.
Drained(e) == IF draining THEN Bump(e, Len(e.reorder)) ELSE e

GenReady == Gen /\ TypesSet /\ eng # None /\ Drained(eng).ready # <<>>
GenHead  == Head(Drained(eng).ready)
Polled(e) == [e EXCEPT !.ready = Tail(@)]
Released(e) == [e EXCEPT !.held = @ - 1]

\* bit_depth_ as the size guard derives it from the frame, 0 if the size fits neither format.
GuardDepth(f) ==
    CASE SizeOf(f.dim, f.depth) = SizeOf(dim, 10) -> 10
      [] SizeOf(f.dim, f.depth) = SizeOf(dim, 8) -> 8
      [] OTHER -> 0

\* Bug: the skipped frame is not released.
MutGenSkip ==
    /\ GenReady /\ GuardDepth(GenHead) = 0
    /\ eng' = Polled(Drained(eng)) /\ out' = None
    /\ UNCHANGED <<typeVars, depth, msgVars, lastPts, outq, win, erred, count>>

\* The frame fits neither NV12 nor P010 of the negotiated size.
GenSkip ==
    /\ GenReady /\ GuardDepth(GenHead) = 0
    /\ eng' = Released(Polled(Drained(eng))) /\ out' = None
    /\ UNCHANGED <<typeVars, depth, msgVars, lastPts, outq, win, erred, count>>

\* Creating the buffer or the sample fails: the frame goes away and its slot stays held.
GenOutputError ==
    /\ GenReady /\ GuardDepth(GenHead) # 0
    /\ eng' = Polled(Drained(eng)) /\ erred' = TRUE
    /\ depth' = GuardDepth(GenHead) /\ out' = None
    /\ UNCHANGED <<typeVars, msgVars, lastPts, outq, win, count>>

Stale(f) == f.tag # epoch
Backward(f) == lastPts # 0 /\ f.pts < lastPts

\* The sample is built, and thrown away.
GenDrop ==
    /\ GenReady /\ GuardDepth(GenHead) # 0
    /\ Stale(GenHead) \/ Backward(GenHead)
    /\ eng' = Released(Polled(Drained(eng)))
    /\ depth' = GuardDepth(GenHead) /\ out' = None
    /\ UNCHANGED <<typeVars, msgVars, lastPts, outq, win, erred, count>>

GenEmit ==
    /\ GenReady /\ GuardDepth(GenHead) # 0
    /\ ~Stale(GenHead) /\ ~Backward(GenHead)
    /\ eng' = Released(Polled(Drained(eng)))
    /\ depth' = GuardDepth(GenHead)
    /\ out' = Sample(GenHead, dim, depth')
    /\ lastPts' = GenHead.pts
    /\ UNCHANGED <<typeVars, msgVars, outq, win, erred, count>>

\* VP9: the head of the queue is compared with the negotiated subtype and with width_ and
\* height_, which the input type sets.
HeadFits == outq[1].depth = outType.depth /\ outq[1].dim = dim

Vp9StreamChange ==
    /\ kind = "VP9" /\ TypesSet /\ outq # <<>> /\ ~HeadFits
    /\ dim' = outq[1].dim /\ depth' = outq[1].depth /\ outType' = NoType /\ out' = None
    /\ UNCHANGED <<kind, inType, retyped, msgVars, lastPts, eng, outq, win, erred, count>>

\* With the queue empty, the depth found by the look at the profile is announced.
Vp9DepthChange ==
    /\ kind = "VP9" /\ TypesSet /\ outq = <<>> /\ depth # outType.depth
    /\ outType' = NoType /\ out' = None
    /\ UNCHANGED <<kind, inType, dim, retyped, depth, msgVars, lastPts, eng, outq, win, erred,
                   count>>

Vp9OutputError ==
    /\ kind = "VP9" /\ TypesSet /\ outq # <<>> /\ HeadFits
    /\ outq' = Tail(outq) /\ out' = None
    /\ UNCHANGED <<typeVars, depth, msgVars, lastPts, eng, win, erred, count>>

\* Bug: the head frame is not compared with the output type.
MutVp9Emit ==
    /\ kind = "VP9" /\ TypesSet /\ outq # <<>>
    /\ outq' = Tail(outq) /\ out' = Sample(outq[1], outq[1].dim, outq[1].depth)
    /\ UNCHANGED <<typeVars, depth, msgVars, lastPts, eng, win, erred, count>>

Vp9Emit ==
    /\ kind = "VP9" /\ TypesSet /\ outq # <<>> /\ HeadFits
    /\ outq' = Tail(outq) /\ out' = Sample(outq[1], outq[1].dim, outq[1].depth)
    /\ UNCHANGED <<typeVars, depth, msgVars, lastPts, eng, win, erred, count>>

\* AV1: no size guard, no epoch; the frame is a copy, so an error loses it and nothing else.
Av1Ready == kind = "AV1" /\ TypesSet /\ eng # None

Av1OutputError ==
    /\ Av1Ready /\ Drained(eng).ready # <<>>
    /\ eng' = Av1PollFrame(Drained(eng)) /\ out' = None
    /\ UNCHANGED <<typeVars, depth, msgVars, lastPts, outq, win, erred, count>>

Av1Emit ==
    /\ Av1Ready /\ Drained(eng).ready # <<>>
    /\ eng' = Av1PollFrame(Drained(eng)) /\ out' = Sample(Head(Drained(eng).ready), dim, depth)
    /\ UNCHANGED <<typeVars, depth, msgVars, lastPts, outq, win, erred, count>>

-----------------------------------------------------------------------------
Negotiate ==
    \/ \E d \in Dims, b \in {8, 10} : SetInputType(d, b)
    \/ ClearInputType \/ SetOutputType \/ ClearOutputType

ProcessMessage == BeginStreaming \/ EndStreaming \/ CommandDrain \/ CommandFlush

ProcessInput ==
    \/ \E au \in GenInputs, t \in Ptss[kind] : GenBegin(au, t)
    \/ GenReadEpoch \/ GenMalformed \/ GenGated \/ GenAdmitted \/ GenSelect \/ GenFail
    \/ GenComplete \/ GenTrap \/ GenRace \/ GenEnd
    \/ \E tu \in Vp9Inputs, t \in Ptss[kind] : Vp9ProcessInput(tu, t)
    \/ \E tu \in Av1Inputs, t \in Ptss[kind] : Av1ProcessInput(tu, t)

ProcessOutput ==
    \/ GenSkip \/ GenOutputError \/ GenDrop \/ GenEmit
    \/ Vp9StreamChange \/ Vp9DepthChange \/ Vp9OutputError \/ Vp9Emit
    \/ Av1OutputError \/ Av1Emit

\* The process has not ended, and its behaviour is defined.
Running == win.at \notin {"trap", "torn"}

Next == Running /\ (Negotiate \/ ProcessMessage \/ ProcessInput \/ ProcessOutput)

Spec == Init /\ [][Next]_vars

-----------------------------------------------------------------------------
\* Properties.

Depths == {8, 10}
GenFrame == [pts : Ptss[kind], dim : Nat, depth : Depths, tag : Nat, born : Nat,
             irap : BOOLEAN]
Vp9Frame == [pts : Ptss[kind], dim : Nat, depth : Depths, born : Nat]
Av1Frame == [pts : Ptss[kind], dim : Nat, depth : Depths, born : Nat, blank : BOOLEAN]

EngineOK ==
    \/ eng = None
    \/ kind = "VP9" /\ eng \in Vp9EngineType
    \/ Gen /\ eng \in [reorder : Seq(GenFrame), ready : Seq(GenFrame), held : Nat, epoch : Nat,
                       max : {0, GenReorder}, wait : BOOLEAN, sps : Depths]
    \/ kind = "AV1" /\ eng \in Av1EngineType(Av1Frame)

\* Every variable stays in its type.
TypeOK ==
    /\ kind \in Kinds /\ inType \in BOOLEAN /\ retyped \in BOOLEAN
    /\ outType \in [dim : Nat, depth : Depths] /\ dim \in Nat /\ depth \in Depths
    /\ streaming \in BOOLEAN /\ draining \in BOOLEAN /\ initFailed \in BOOLEAN
    /\ epoch \in Nat /\ lastPts \in Nat /\ erred \in BOOLEAN
    /\ EngineOK /\ outq \in Seq(Vp9Frame)
    /\ win.at \in {"none", "unlocked", "tagged", "admitted", "decoding", "done", "trap", "torn"}
    /\ out.at \in {"none", "sample"}

\* No sample handed out comes from an input given before the last FLUSH (decoder_mft.h:207-214).
\* It fails: see EmittedFresh.
NoStaleSample == out # None => out.fresh

\* However a FLUSH falls into the steps of a Submit, at most one kind of input gets past it: an
\* IRAP picture whose ProcessInput had given up lock_ and not yet read stream_epoch_
\* (decoder_mft.cpp:1589-1593).  Whatever was read, selected, decoded or queued before the FLUSH is
\* dropped by the epoch tag, by the IRAP gate or with the queues (decoder_mft.cpp:1083-1098, 2334).
EmittedFresh ==
    out # None => out.fresh \/ (Gen /\ out.f.tag # out.f.born /\ out.f.irap)

\* A VP9 sample has the format of the output type the client agreed to, and its size too
\* unless the input type was set again behind the output type's back
\* (decoder_mft.cpp:1866-1914): stream and client change formats at different times.
EmittedAsNegotiated ==
    kind = "VP9" /\ out # None =>
        /\ out.f.depth = outType.depth
        /\ out.f.dim = outType.dim \/ retyped

\* An H.264 or H.265 sample is built with the geometry of the very frame in it, whatever types
\* were set between its decode and its output (decoder_mft.cpp:2074-2093).
GeometryMatches == Gen /\ out # None => out.dim = out.f.dim /\ out.depth = out.f.depth

\* The slots held are those of the queued frames (decode_engine.cpp:1330-1332).  It fails: an error
\* return of ProcessOutput leaves the slot of its frame held (decoder_mft.cpp:2186, 2214, 2251, 2257,
\* 2274, 2287).
NoLeak == eng # None /\ Gen => eng.held = GenQueueDepth(eng)

\* The error returns aside, no step leaks a slot or gives one back twice: the slots held are those
\* of the queued frames, across FLUSHes in the middle of a decode, frames skipped for their size or
\* dropped as stale, drains and spills; a VP9 slot is never held between two calls
\* (decoder_mft.cpp:2089, 2301, 1461; decode_engine.cpp:1265-1281, 1394-1439).
HoldsAccounted ==
    eng # None => /\ Gen /\ ~erred => eng.held = GenQueueDepth(eng)
                  /\ kind = "VP9" => eng.inUse = {}

\* When a full queue makes the transform refuse input, output is ready: a client that feeds
\* until it is refused and then asks for output never finds both refused
\* (decoder_mft.cpp:1266-1276, 1479).
NoStall == eng # None /\ kind # "VP9" /\ ~GetInputStatus => eng.ready # <<>>

\* A VP9 or AV1 kick reads only pictures that are what the stream last stored in the slot
\* named, across failed kicks, flushes and reuse of pool buffers; the recorded gaps aside
\* (decode_engine_vp9.cpp:37-56, 239-246, 451, 544; decode_engine_av1.cpp:1251-1262, 1598).
RefsFresh == eng # None /\ ~Gen => eng.refOk \/ eng.gap

\* A VP9 kick never starts from a probability context that a failed kick may have left half
\* written (decode_engine_vp9.cpp:445-448, regbuilder_vp9.cpp:566-583).
CtxClean == eng # None /\ kind = "VP9" => eng.ctxOk

\* While the firebreak is armed VP9 shows nothing (decode_engine_vp9.cpp:234-238).
ArmedShowsNothing == eng # None /\ kind = "VP9" => ~eng.armedShow

\* After each AV1 temporal unit the header tables and the buffer map name the same pictures
\* (decode_engine_av1.cpp:1315).
HeadersMatchBuffers == eng # None /\ kind = "AV1" => eng.split = {}
=============================================================================
