----------------------------- MODULE MCEngine -----------------------------
(* Instances of DecodeEngine for TLC. *)
EXTENDS DecodeEngine

Pic(nal, ref, d) == [nal |-> nal, ref |-> ref, d |-> d, lt |-> FALSE, adaptive |-> FALSE,
                     mmco |-> <<>>, drops |-> {}, keep |-> {}]
Marking(p, ops, drops) == [p EXCEPT !.adaptive = TRUE, !.mmco = ops, !.drops = drops]
Keeping(p, keep) == [p EXCEPT !.keep = keep]
Op(op, diff, idx) == [op |-> op, diff |-> diff, idx |-> idx]

\* H.264: a B-pyramid whose frame_num wraps; long-term marking, and then a window that fills up
\* beside a long-term reference; marking after a wrap, first of a picture since it and then of one
\* before it.
Pyramid == << Pic("idr", TRUE, 0), Pic("p", TRUE, 4), Pic("p", TRUE, 2), Pic("p", FALSE, 1),
              Pic("p", FALSE, 3), Pic("p", TRUE, 5), Pic("p", TRUE, 7), Pic("p", FALSE, 6) >>
Marked == << [Pic("idr", TRUE, 0) EXCEPT !.lt = TRUE], Pic("p", TRUE, 1),
             Marking(Pic("p", TRUE, 3), <<Op(2, 0, 0), Op(4, 0, 2), Op(3, 1, 1)>>, {1}),
             Marking(Pic("p", TRUE, 2), <<Op(1, 1, 0), Op(6, 0, 0), Op(4, 0, 1)>>, {2, 3}),
             Pic("p", TRUE, 4), Pic("p", TRUE, 5), Pic("p", TRUE, 6), Pic("p", FALSE, 7) >>
Wrapped == << Pic("idr", TRUE, 0), Pic("p", TRUE, 1), Pic("p", TRUE, 2),
              Marking(Pic("p", TRUE, 3), <<Op(1, 3, 0), Op(1, 2, 0), Op(1, 1, 0)>>, {1, 2, 3}),
              Pic("p", TRUE, 4), Marking(Pic("p", TRUE, 5), <<Op(1, 1, 0)>>, {5}),
              Marking(Pic("p", TRUE, 6), <<Op(1, 3, 0)>>, {4}),
              Marking(Pic("p", TRUE, 7), <<Op(5, 0, 0)>>, {6, 7}) >>

\* H.265: a pyramid under its reference picture sets, once after an IDR and once after a CRA.
Hevc(nal) == << Pic(nal, TRUE, 0), Keeping(Pic("p", TRUE, 4), {0}),
                Keeping(Pic("p", TRUE, 2), {0, 4}), Keeping(Pic("p", FALSE, 1), {0, 2, 4}),
                Keeping(Pic("p", FALSE, 3), {2, 4}), Keeping(Pic("p", TRUE, 5), {4}) >>

MCGops == [H264 |-> {Pyramid, Marked, Wrapped}, H265 |-> {Hevc("idr"), Hevc("cra")}]

\* One seek in a stream, with an engine or without one.
MCMaxFlush == [H264 |-> 1, H265 |-> 1]

\* The longest reference list the standard allows, of pictures decoded in display order.
LongGops == [H264 |-> {[i \in 1 .. 20 |-> Pic(IF i = 1 THEN "idr" ELSE "p", TRUE, i - 1)]}]

\* Each reference is followed by the three pictures shown before it.
WideGops == [H264 |-> {[i \in 1 .. 49 |-> CASE i = 1 -> Pic("idr", TRUE, 0)
                                           [] i > 1 /\ i % 4 = 2 -> Pic("p", TRUE, i + 2)
                                           [] OTHER -> Pic("p", FALSE, i - 2)]}]
=============================================================================
