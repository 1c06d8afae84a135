------------------------------- MODULE MCMft -------------------------------
(* Instance of DecoderMft: a few access units of each codec, chosen so that *)
(* pictures fail, change size and depth, and refer to one another.          *)
EXTENDS DecoderMft

Frame9(k, r, m, d, b, shown, c, res) ==
    [k |-> k, ref |-> r, mask |-> m, dim |-> d, depth |-> b, shown |-> shown,
     ctx |-> c, save |-> TRUE, res |-> res]

Key9(d, b)    == Frame9("key", 0, {0, 1}, d, b, TRUE, 0, "ok")
Intra9        == Frame9("intra", 0, {0}, 2, 8, FALSE, 1, "ok")
Inter9(r, m, shown, c, res) == Frame9("inter", r, m, 2, 8, shown, c, res)
Show9(r)      == Frame9("show", r, {}, 2, 8, TRUE, 0, "ok")

MCVp9Inputs ==
    {<<Key9(2, 8)>>, <<Key9(3, 8)>>, <<Key9(2, 10)>>, <<Intra9>>,
     <<Inter9(0, {1}, TRUE, 0, "ok")>>, <<Inter9(1, {0}, TRUE, 1, "ok")>>,
     <<Inter9(0, {1}, FALSE, 0, "fail")>>, <<Inter9(0, {1}, TRUE, 0, "build")>>,
     <<Inter9(1, {1}, TRUE, 0, "reject")>>, <<Inter9(0, {0}, TRUE, 1, "long")>>,
     <<Inter9(1, {0}, FALSE, 0, "ok"), Show9(0)>>}

Frame1(k, r, m, d, shown, res) ==
    [k |-> k, ref |-> r, prim |-> IF k = "inter" THEN {1} ELSE {}, mask |-> m, dim |-> d, shown |-> shown, res |-> res]

Unit(s, fs) == [seq |-> s, frames |-> fs]
Key1(d)     == Frame1("key", 0, {0, 1}, d, TRUE, "ok")
Inter1(r, m, shown, res) == Frame1("inter", r, m, 2, shown, res)

MCAv1Inputs ==
    {Unit(<<[hint |-> TRUE, depth |-> 8]>>, <<Key1(2)>>),
     Unit(<<[hint |-> FALSE, depth |-> 10]>>, <<Key1(3)>>),
     Unit(<<>>, <<Inter1(0, {1}, TRUE, "ok")>>),
     Unit(<<>>, <<Inter1(1, {0}, FALSE, "ok"), Inter1(0, {}, TRUE, "ok")>>),
     Unit(<<>>, <<Inter1(0, {0}, TRUE, "fail")>>),
     Unit(<<>>, <<Inter1(1, {1}, TRUE, "parse")>>),
     Unit(<<>>, <<Frame1("show", 1, {}, 2, TRUE, "ok")>>),
     Unit(<<>>, <<Frame1("key", 0, {0}, 2, FALSE, "ok"),
                  Frame1("show", 0, {0, 1}, 2, TRUE, "ok")>>)}

GenUnit(d, b, irap, ok) == [dim |-> d, depth |-> b, irap |-> irap, ok |-> ok]
MCGenInputs ==
    {GenUnit(2, 8, TRUE, TRUE), GenUnit(2, 10, FALSE, TRUE), GenUnit(3, 8, TRUE, TRUE),
     GenUnit(2, 8, FALSE, FALSE)}

MCPtss == [k \in Kinds |-> IF k \in {"H265", "VP9"} THEN {1} ELSE {1, 2}]
MCMaxInputs == [k \in Kinds |-> IF k \in {"H265", "VP9"} THEN 4 ELSE 3]
=============================================================================
