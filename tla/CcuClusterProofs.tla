-------------------------- MODULE CcuClusterProofs --------------------------
(***************************************************************************)
(* Proofs about CcuCluster, for any number of handshakes that time out.    *)
(***************************************************************************)
EXTENDS CcuCluster, SequenceTheorems, FiniteSetTheorems, TLAPS

-----------------------------------------------------------------------------
\* Programs and what is left of them.

Suffix(s, n) == SubSeq(s, n, Len(s))

\* What is left of s, and program t behind it.
Then(s, n, t) == Suffix(s, n) \o t

LEMMA SuffixStep ==
  ASSUME NEW F, NEW s \in Seq(F), NEW n \in 1 .. Len(s)
  PROVE  /\ Suffix(s, n) # << >> /\ Head(Suffix(s, n)) = s[n] /\ Tail(Suffix(s, n)) = Suffix(s, n + 1)
<1>1. PICK t : t = Suffix(s, n)
  OBVIOUS
<1>0. Len(s) \in Nat /\ n <= Len(s)
  OBVIOUS
<1>2. t \in Seq(F) /\ Len(t) = Len(s) - n + 1 /\ \A i \in 1 .. Len(t) : t[i] = s[n + i - 1]
  BY <1>0, <1>1 DEF Suffix
<1>5. t # <<>>
  BY <1>0, <1>2
<1>3. Head(t) = s[n]
  BY <1>0, <1>2, <1>5
<1>4. Tail(t) = Suffix(s, n + 1)
  <2>1. PICK u : u = Suffix(s, n + 1)
    OBVIOUS
  <2>2. u \in Seq(F) /\ Len(u) = Len(s) - n /\ \A i \in 1 .. Len(u) : u[i] = s[n + i]
    BY <2>1 DEF Suffix
  <2>3. PICK v : v = Tail(t)
    OBVIOUS
  <2>4. v \in Seq(F) /\ Len(v) = Len(s) - n /\ \A i \in 1 .. Len(v) : v[i] = s[n + i]
    BY <1>0, <1>2, <1>5, <2>3
  <2> QED BY <2>1, <2>2, <2>3, <2>4, SeqEqual
<1> QED BY <1>1, <1>3, <1>4, <1>5

LEMMA CatStep ==
  ASSUME NEW F, NEW s \in Seq(F), NEW t \in Seq(F), NEW n \in 1 .. Len(s)
  PROVE  /\ Suffix(s, n) \o t # << >> /\ Head(Suffix(s, n) \o t) = s[n] /\ Tail(Suffix(s, n) \o t) = Suffix(s, n + 1) \o t
<1>1. PICK u : u = Suffix(s, n)
  OBVIOUS
<1>2. u \in Seq(F) /\ u # <<>> /\ Head(u) = s[n] /\ Tail(u) = Suffix(s, n + 1)
  <2>1. u \in Seq(F)
    BY <1>1 DEF Suffix
  <2> QED BY <1>1, <2>1, SuffixStep
<1>3. u \o t # <<>> /\ Head(u \o t) = Head(u)
  BY <1>2
<1>4. Tail(u \o t) = Tail(u) \o t
  <2>1. PICK v : v = u \o t
    OBVIOUS
  <2>2. v \in Seq(F) /\ v # <<>> /\ Len(v) = Len(u) + Len(t)
        /\ \A i \in 1 .. Len(v) : v[i] = IF i <= Len(u) THEN u[i] ELSE t[i - Len(u)]
    BY <1>2, <2>1
  <2>3. PICK a : a = Tail(v)
    OBVIOUS
  <2>4. a \in Seq(F) /\ Len(a) = Len(v) - 1 /\ \A i \in 1 .. Len(a) : a[i] = v[i + 1]
    BY <2>2, <2>3
  <2>5. PICK w : w = Tail(u)
    OBVIOUS
  <2>6. w \in Seq(F) /\ Len(w) = Len(u) - 1 /\ Len(u) \in Nat /\ Len(u) # 0 /\ \A i \in 1 .. Len(w) : w[i] = u[i + 1]
    BY <1>2, <2>5
  <2>7. PICK b : b = w \o t
    OBVIOUS
  <2>8. b \in Seq(F) /\ Len(b) = Len(v) - 1
        /\ \A i \in 1 .. Len(b) : b[i] = IF i <= Len(w) THEN w[i] ELSE t[i - Len(w)]
    BY <2>2, <2>6, <2>7
  <2>9. ASSUME NEW i \in 1 .. Len(a) PROVE a[i] = b[i]
    <3>1. i + 1 \in 1 .. Len(v) /\ i \in 1 .. Len(b) /\ i \in Nat /\ Len(v) \in Nat
      BY <2>2, <2>4, <2>8
    <3>2. a[i] = IF i + 1 <= Len(u) THEN u[i + 1] ELSE t[(i + 1) - Len(u)]
      BY <2>2, <2>4, <3>1
    <3>3. b[i] = IF i <= Len(w) THEN w[i] ELSE t[i - Len(w)]
      BY <2>8, <3>1
    <3>4. CASE i <= Len(w)
      <4>1. i \in 1 .. Len(w) /\ i + 1 <= Len(u)
        BY <2>6, <3>1, <3>4
      <4> QED BY <2>6, <3>2, <3>3, <3>4, <4>1
    <3>5. CASE ~(i <= Len(w))
      <4>1. ~(i + 1 <= Len(u)) /\ (i + 1) - Len(u) = i - Len(w)
        BY <2>6, <3>1, <3>5
      <4> QED BY <3>2, <3>3, <3>5, <4>1
    <3> QED BY <3>4, <3>5
  <2> QED BY <2>1, <2>3, <2>4, <2>5, <2>7, <2>8, <2>9, SeqEqual
<1> QED BY <1>1, <1>2, <1>3, <1>4

LEMMA SuffixEnds ==
    ASSUME NEW F, NEW s \in Seq(F), NEW n \in Nat, n = Len(s) + 1
    PROVE  Suffix(s, 1) = s /\ Suffix(s, n) = << >> /\ << >> \o s = s /\ s \o << >> = s
<1>1. Suffix(s, n) = << >>
  BY DEF Suffix
<1>2. Suffix(s, 1) = s
  BY DEF Suffix
<1> QED BY <1>1, <1>2


LEMMA AtSome ==
    ASSUME NEW F, NEW s \in Seq(F), NEW k \in Nat, Len(s) = k, NEW n \in 1 .. k
    PROVE  Suffix(s, n) # << >>
BY SuffixStep

LEMMA At ==
    ASSUME NEW F, NEW s \in Seq(F), NEW k \in Nat, Len(s) = k, NEW n \in 1 .. k
    PROVE  /\ Head(Suffix(s, n)) = s[n] /\ Tail(Suffix(s, n)) = Suffix(s, n + 1)
           /\ n < k => Suffix(s, n + 1) # << >>
           /\ n = k => Suffix(s, n + 1) = << >>
<1>1. /\ Suffix(s, n) # << >> /\ Head(Suffix(s, n)) = s[n] /\ Tail(Suffix(s, n)) = Suffix(s, n + 1)
  BY SuffixStep
<1>2. n < k => Suffix(s, n + 1) # << >>
  <2>1. n < k => n + 1 \in 1 .. Len(s)
    OBVIOUS
  <2> QED BY <2>1, SuffixStep, Zenon
<1>3. n = k => Suffix(s, n + 1) = << >>
  <2>1. n = k => n + 1 \in Nat /\ n + 1 = Len(s) + 1
    OBVIOUS
  <2> QED BY <2>1, SuffixEnds, Zenon
<1> QED BY <1>1, <1>2, <1>3

LEMMA CatAt ==
    ASSUME NEW F, NEW s \in Seq(F), NEW t \in Seq(F), NEW k \in Nat, Len(s) = k, NEW n \in 1 .. k
    PROVE  /\ Then(s, n, t) # << >> /\ Head(Then(s, n, t)) = s[n]
           /\ Tail(Then(s, n, t)) = Then(s, n + 1, t)
           /\ n < k => Then(s, n + 1, t) # << >>
           /\ n = k => Then(s, n + 1, t) = t
           /\ s \o t = Then(s, 1, t)
<1>1. /\ Suffix(s, n) \o t # << >> /\ Head(Suffix(s, n) \o t) = s[n]
      /\ Tail(Suffix(s, n) \o t) = Suffix(s, n + 1) \o t
  BY CatStep
<1>2. n < k => Suffix(s, n + 1) \o t # << >>
  <2>1. n < k => n + 1 \in 1 .. Len(s)
    OBVIOUS
  <2> QED BY <2>1, CatStep, Zenon
<1>3. n = k => Suffix(s, n + 1) = << >>
  <2>1. n = k => n + 1 \in Nat /\ n + 1 = Len(s) + 1
    OBVIOUS
  <2> QED BY <2>1, SuffixEnds, Zenon
<1>4. << >> \o t = t
  OBVIOUS
<1>5. Suffix(s, 1) = s
  BY SuffixEnds
<1> QED BY <1>1, <1>2, <1>3, <1>4, <1>5 DEF Then

Ops ==
    {RaiseParents, DropParents, ParentsDec, SetRef("rk", 0), SetRef("rk", 1), SetRef("av1", 0), SetRef("av1", 1),
     Clksel("rk"), Clksel("av1"), Idle(TRUE), Idle(FALSE),
     On("VCODEC"), On("VDPU"), On("RKVDEC0"), On("RKVDEC1"), On("AV1"),
     Off("VCODEC"), Off("VDPU"), Off("RKVDEC0"), Off("RKVDEC1"), Off("AV1"),
     Gate(Con40), Gate(Con41), Gate(Con44), Gate(Con68), Ungate(Con40), Ungate(Con41), Ungate(Con44), Ungate(Con68),
     Assert(Con40), Assert(Con41), Assert(Con44), Assert(Con68),
     Deassert(Con40), Deassert(Con41), Deassert(Con44), Deassert(Con68)}

UndoRk == << Assert(Con41), Gate(Con41), Off("RKVDEC0"), Assert(Con40), Gate(Con40), DropParents >>

UndoAv1 == << Gate(Con68), DropParents >>

UndoParents == << Gate(Con44), Assert(Con44), Off("VCODEC"), ParentsDec >>

LEMMA RaiseParentsOps ==
    /\ RaiseParentsProg \in Seq(Ops) /\ Len(RaiseParentsProg) = 4
    /\ RaiseParentsProg[1] = On("VCODEC") /\ RaiseParentsProg[2] = Ungate(Con44)
    /\ RaiseParentsProg[3] = Deassert(Con44) /\ RaiseParentsProg[4] = On("VDPU")
BY DEF RaiseParentsProg, Ops

LEMMA RaiseParentsAt ==
    ASSUME NEW n \in 1 .. 4
    PROVE  /\ Suffix(RaiseParentsProg, n) # << >> /\ Head(Suffix(RaiseParentsProg, n)) = RaiseParentsProg[n]
           /\ Tail(Suffix(RaiseParentsProg, n)) = Suffix(RaiseParentsProg, n + 1)
           /\ n < 4 => Suffix(RaiseParentsProg, n + 1) # << >>
           /\ n = 4 => Suffix(RaiseParentsProg, n + 1) = << >>
<1>1. RaiseParentsProg \in Seq(Ops) /\ Len(RaiseParentsProg) = 4 /\ 4 \in Nat
  BY RaiseParentsOps
<1>2. Suffix(RaiseParentsProg, n) # << >>
  BY <1>1, AtSome
<1>3. Head(Suffix(RaiseParentsProg, n)) = RaiseParentsProg[n]
  BY <1>1, At
<1>4. Tail(Suffix(RaiseParentsProg, n)) = Suffix(RaiseParentsProg, n + 1)
  BY <1>1, At
<1>5. n < 4 => Suffix(RaiseParentsProg, n + 1) # << >>
  BY <1>1, At
<1>6. n = 4 => Suffix(RaiseParentsProg, n + 1) = << >>
  BY <1>1, At
<1> QED BY <1>2, <1>3, <1>4, <1>5, <1>6, Zenon

LEMMA RaiseParentsCatAt ==
    ASSUME NEW n \in 1 .. 4, NEW t \in Seq(Ops)
    PROVE  /\ Then(RaiseParentsProg, n, t) # << >> /\ Head(Then(RaiseParentsProg, n, t)) = RaiseParentsProg[n]
           /\ Tail(Then(RaiseParentsProg, n, t)) = Then(RaiseParentsProg, n + 1, t)
           /\ n < 4 => Then(RaiseParentsProg, n + 1, t) # << >>
           /\ n = 4 => Then(RaiseParentsProg, n + 1, t) = t
           /\ RaiseParentsProg \o t = Then(RaiseParentsProg, 1, t)
<1>1. RaiseParentsProg \in Seq(Ops) /\ Len(RaiseParentsProg) = 4 /\ 4 \in Nat
  BY RaiseParentsOps
<1> QED BY <1>1, CatAt, Zenon

LEMMA DropParentsOps ==
    /\ DropParentsProg \in Seq(Ops) /\ Len(DropParentsProg) = 4
    /\ DropParentsProg[1] = Off("VDPU") /\ DropParentsProg[2] = Assert(Con44)
    /\ DropParentsProg[3] = Gate(Con44) /\ DropParentsProg[4] = Off("VCODEC")
BY DEF DropParentsProg, Ops

LEMMA DropParentsAt ==
    ASSUME NEW n \in 1 .. 4
    PROVE  /\ Suffix(DropParentsProg, n) # << >> /\ Head(Suffix(DropParentsProg, n)) = DropParentsProg[n]
           /\ Tail(Suffix(DropParentsProg, n)) = Suffix(DropParentsProg, n + 1)
           /\ n < 4 => Suffix(DropParentsProg, n + 1) # << >>
           /\ n = 4 => Suffix(DropParentsProg, n + 1) = << >>
<1>1. DropParentsProg \in Seq(Ops) /\ Len(DropParentsProg) = 4 /\ 4 \in Nat
  BY DropParentsOps
<1>2. Suffix(DropParentsProg, n) # << >>
  BY <1>1, AtSome
<1>3. Head(Suffix(DropParentsProg, n)) = DropParentsProg[n]
  BY <1>1, At
<1>4. Tail(Suffix(DropParentsProg, n)) = Suffix(DropParentsProg, n + 1)
  BY <1>1, At
<1>5. n < 4 => Suffix(DropParentsProg, n + 1) # << >>
  BY <1>1, At
<1>6. n = 4 => Suffix(DropParentsProg, n + 1) = << >>
  BY <1>1, At
<1> QED BY <1>2, <1>3, <1>4, <1>5, <1>6, Zenon

LEMMA DropParentsCatAt ==
    ASSUME NEW n \in 1 .. 4, NEW t \in Seq(Ops)
    PROVE  /\ Then(DropParentsProg, n, t) # << >> /\ Head(Then(DropParentsProg, n, t)) = DropParentsProg[n]
           /\ Tail(Then(DropParentsProg, n, t)) = Then(DropParentsProg, n + 1, t)
           /\ n < 4 => Then(DropParentsProg, n + 1, t) # << >>
           /\ n = 4 => Then(DropParentsProg, n + 1, t) = t
           /\ DropParentsProg \o t = Then(DropParentsProg, 1, t)
<1>1. DropParentsProg \in Seq(Ops) /\ Len(DropParentsProg) = 4 /\ 4 \in Nat
  BY DropParentsOps
<1> QED BY <1>1, CatAt, Zenon

LEMMA RaiseClusterOps ==
    /\ RaiseClusterProg \in Seq(Ops) /\ Len(RaiseClusterProg) = 9
    /\ RaiseClusterProg[1] = RaiseParents /\ RaiseClusterProg[2] = Clksel("rk")
    /\ RaiseClusterProg[3] = Ungate(Con40) /\ RaiseClusterProg[4] = Deassert(Con40)
    /\ RaiseClusterProg[5] = On("RKVDEC0") /\ RaiseClusterProg[6] = Ungate(Con41)
    /\ RaiseClusterProg[7] = Deassert(Con41) /\ RaiseClusterProg[8] = On("RKVDEC1")
    /\ RaiseClusterProg[9] = SetRef("rk", 1)
BY DEF RaiseClusterProg, Ops

LEMMA RaiseClusterAt ==
    ASSUME NEW n \in 1 .. 9
    PROVE  /\ Suffix(RaiseClusterProg, n) # << >> /\ Head(Suffix(RaiseClusterProg, n)) = RaiseClusterProg[n]
           /\ Tail(Suffix(RaiseClusterProg, n)) = Suffix(RaiseClusterProg, n + 1)
           /\ n < 9 => Suffix(RaiseClusterProg, n + 1) # << >>
           /\ n = 9 => Suffix(RaiseClusterProg, n + 1) = << >>
<1>1. RaiseClusterProg \in Seq(Ops) /\ Len(RaiseClusterProg) = 9 /\ 9 \in Nat
  BY RaiseClusterOps
<1>2. Suffix(RaiseClusterProg, n) # << >>
  BY <1>1, AtSome
<1>3. Head(Suffix(RaiseClusterProg, n)) = RaiseClusterProg[n]
  BY <1>1, At
<1>4. Tail(Suffix(RaiseClusterProg, n)) = Suffix(RaiseClusterProg, n + 1)
  BY <1>1, At
<1>5. n < 9 => Suffix(RaiseClusterProg, n + 1) # << >>
  BY <1>1, At
<1>6. n = 9 => Suffix(RaiseClusterProg, n + 1) = << >>
  BY <1>1, At
<1> QED BY <1>2, <1>3, <1>4, <1>5, <1>6, Zenon

LEMMA DropClusterOps ==
    /\ DropClusterProg \in Seq(Ops) /\ Len(DropClusterProg) = 8
    /\ DropClusterProg[1] = Off("RKVDEC1") /\ DropClusterProg[2] = Off("RKVDEC0")
    /\ DropClusterProg[3] = Assert(Con40) /\ DropClusterProg[4] = Assert(Con41)
    /\ DropClusterProg[5] = Gate(Con41) /\ DropClusterProg[6] = Gate(Con40)
    /\ DropClusterProg[7] = DropParents /\ DropClusterProg[8] = SetRef("rk", 0)
BY DEF DropClusterProg, Ops

LEMMA DropClusterAt ==
    ASSUME NEW n \in 1 .. 8
    PROVE  /\ Suffix(DropClusterProg, n) # << >> /\ Head(Suffix(DropClusterProg, n)) = DropClusterProg[n]
           /\ Tail(Suffix(DropClusterProg, n)) = Suffix(DropClusterProg, n + 1)
           /\ n < 8 => Suffix(DropClusterProg, n + 1) # << >>
           /\ n = 8 => Suffix(DropClusterProg, n + 1) = << >>
<1>1. DropClusterProg \in Seq(Ops) /\ Len(DropClusterProg) = 8 /\ 8 \in Nat
  BY DropClusterOps
<1>2. Suffix(DropClusterProg, n) # << >>
  BY <1>1, AtSome
<1>3. Head(Suffix(DropClusterProg, n)) = DropClusterProg[n]
  BY <1>1, At
<1>4. Tail(Suffix(DropClusterProg, n)) = Suffix(DropClusterProg, n + 1)
  BY <1>1, At
<1>5. n < 8 => Suffix(DropClusterProg, n + 1) # << >>
  BY <1>1, At
<1>6. n = 8 => Suffix(DropClusterProg, n + 1) = << >>
  BY <1>1, At
<1> QED BY <1>2, <1>3, <1>4, <1>5, <1>6, Zenon

LEMMA RaiseAv1Ops ==
    /\ RaiseAv1Prog \in Seq(Ops) /\ Len(RaiseAv1Prog) = 6
    /\ RaiseAv1Prog[1] = RaiseParents /\ RaiseAv1Prog[2] = Clksel("av1")
    /\ RaiseAv1Prog[3] = Ungate(Con68) /\ RaiseAv1Prog[4] = Deassert(Con68)
    /\ RaiseAv1Prog[5] = On("AV1") /\ RaiseAv1Prog[6] = SetRef("av1", 1)
BY DEF RaiseAv1Prog, Ops

LEMMA RaiseAv1At ==
    ASSUME NEW n \in 1 .. 6
    PROVE  /\ Suffix(RaiseAv1Prog, n) # << >> /\ Head(Suffix(RaiseAv1Prog, n)) = RaiseAv1Prog[n]
           /\ Tail(Suffix(RaiseAv1Prog, n)) = Suffix(RaiseAv1Prog, n + 1)
           /\ n < 6 => Suffix(RaiseAv1Prog, n + 1) # << >>
           /\ n = 6 => Suffix(RaiseAv1Prog, n + 1) = << >>
<1>1. RaiseAv1Prog \in Seq(Ops) /\ Len(RaiseAv1Prog) = 6 /\ 6 \in Nat
  BY RaiseAv1Ops
<1>2. Suffix(RaiseAv1Prog, n) # << >>
  BY <1>1, AtSome
<1>3. Head(Suffix(RaiseAv1Prog, n)) = RaiseAv1Prog[n]
  BY <1>1, At
<1>4. Tail(Suffix(RaiseAv1Prog, n)) = Suffix(RaiseAv1Prog, n + 1)
  BY <1>1, At
<1>5. n < 6 => Suffix(RaiseAv1Prog, n + 1) # << >>
  BY <1>1, At
<1>6. n = 6 => Suffix(RaiseAv1Prog, n + 1) = << >>
  BY <1>1, At
<1> QED BY <1>2, <1>3, <1>4, <1>5, <1>6, Zenon

LEMMA DropAv1Ops ==
    /\ DropAv1Prog \in Seq(Ops) /\ Len(DropAv1Prog) = 5
    /\ DropAv1Prog[1] = Off("AV1") /\ DropAv1Prog[2] = Assert(Con68) /\ DropAv1Prog[3] = Gate(Con68)
    /\ DropAv1Prog[4] = DropParents /\ DropAv1Prog[5] = SetRef("av1", 0)
BY DEF DropAv1Prog, Ops

LEMMA DropAv1At ==
    ASSUME NEW n \in 1 .. 5
    PROVE  /\ Suffix(DropAv1Prog, n) # << >> /\ Head(Suffix(DropAv1Prog, n)) = DropAv1Prog[n]
           /\ Tail(Suffix(DropAv1Prog, n)) = Suffix(DropAv1Prog, n + 1)
           /\ n < 5 => Suffix(DropAv1Prog, n + 1) # << >>
           /\ n = 5 => Suffix(DropAv1Prog, n + 1) = << >>
<1>1. DropAv1Prog \in Seq(Ops) /\ Len(DropAv1Prog) = 5 /\ 5 \in Nat
  BY DropAv1Ops
<1>2. Suffix(DropAv1Prog, n) # << >>
  BY <1>1, AtSome
<1>3. Head(Suffix(DropAv1Prog, n)) = DropAv1Prog[n]
  BY <1>1, At
<1>4. Tail(Suffix(DropAv1Prog, n)) = Suffix(DropAv1Prog, n + 1)
  BY <1>1, At
<1>5. n < 5 => Suffix(DropAv1Prog, n + 1) # << >>
  BY <1>1, At
<1>6. n = 5 => Suffix(DropAv1Prog, n + 1) = << >>
  BY <1>1, At
<1> QED BY <1>2, <1>3, <1>4, <1>5, <1>6, Zenon

LEMMA FullAv1ResetOps ==
    /\ FullAv1ResetProg \in Seq(Ops) /\ Len(FullAv1ResetProg) = 4
    /\ FullAv1ResetProg[1] = Idle(TRUE) /\ FullAv1ResetProg[2] = Assert(Con68)
    /\ FullAv1ResetProg[3] = Deassert(Con68) /\ FullAv1ResetProg[4] = Idle(FALSE)
BY DEF FullAv1ResetProg, Ops

LEMMA FullAv1ResetAt ==
    ASSUME NEW n \in 1 .. 4
    PROVE  /\ Suffix(FullAv1ResetProg, n) # << >> /\ Head(Suffix(FullAv1ResetProg, n)) = FullAv1ResetProg[n]
           /\ Tail(Suffix(FullAv1ResetProg, n)) = Suffix(FullAv1ResetProg, n + 1)
           /\ n < 4 => Suffix(FullAv1ResetProg, n + 1) # << >>
           /\ n = 4 => Suffix(FullAv1ResetProg, n + 1) = << >>
<1>1. FullAv1ResetProg \in Seq(Ops) /\ Len(FullAv1ResetProg) = 4 /\ 4 \in Nat
  BY FullAv1ResetOps
<1>2. Suffix(FullAv1ResetProg, n) # << >>
  BY <1>1, AtSome
<1>3. Head(Suffix(FullAv1ResetProg, n)) = FullAv1ResetProg[n]
  BY <1>1, At
<1>4. Tail(Suffix(FullAv1ResetProg, n)) = Suffix(FullAv1ResetProg, n + 1)
  BY <1>1, At
<1>5. n < 4 => Suffix(FullAv1ResetProg, n + 1) # << >>
  BY <1>1, At
<1>6. n = 4 => Suffix(FullAv1ResetProg, n + 1) = << >>
  BY <1>1, At
<1> QED BY <1>2, <1>3, <1>4, <1>5, <1>6, Zenon

LEMMA UndoRkOps ==
    /\ UndoRk \in Seq(Ops) /\ Len(UndoRk) = 6
    /\ UndoRk[1] = Assert(Con41) /\ UndoRk[2] = Gate(Con41) /\ UndoRk[3] = Off("RKVDEC0")
    /\ UndoRk[4] = Assert(Con40) /\ UndoRk[5] = Gate(Con40) /\ UndoRk[6] = DropParents
BY DEF UndoRk, Ops

LEMMA UndoRkAt ==
    ASSUME NEW n \in 1 .. 6
    PROVE  /\ Suffix(UndoRk, n) # << >> /\ Head(Suffix(UndoRk, n)) = UndoRk[n]
           /\ Tail(Suffix(UndoRk, n)) = Suffix(UndoRk, n + 1)
           /\ n < 6 => Suffix(UndoRk, n + 1) # << >>
           /\ n = 6 => Suffix(UndoRk, n + 1) = << >>
<1>1. UndoRk \in Seq(Ops) /\ Len(UndoRk) = 6 /\ 6 \in Nat
  BY UndoRkOps
<1>2. Suffix(UndoRk, n) # << >>
  BY <1>1, AtSome
<1>3. Head(Suffix(UndoRk, n)) = UndoRk[n]
  BY <1>1, At
<1>4. Tail(Suffix(UndoRk, n)) = Suffix(UndoRk, n + 1)
  BY <1>1, At
<1>5. n < 6 => Suffix(UndoRk, n + 1) # << >>
  BY <1>1, At
<1>6. n = 6 => Suffix(UndoRk, n + 1) = << >>
  BY <1>1, At
<1> QED BY <1>2, <1>3, <1>4, <1>5, <1>6, Zenon

LEMMA UndoAv1Ops ==
    /\ UndoAv1 \in Seq(Ops) /\ Len(UndoAv1) = 2
    /\ UndoAv1[1] = Gate(Con68) /\ UndoAv1[2] = DropParents
BY DEF UndoAv1, Ops

LEMMA UndoAv1At ==
    ASSUME NEW n \in 1 .. 2
    PROVE  /\ Suffix(UndoAv1, n) # << >> /\ Head(Suffix(UndoAv1, n)) = UndoAv1[n]
           /\ Tail(Suffix(UndoAv1, n)) = Suffix(UndoAv1, n + 1)
           /\ n < 2 => Suffix(UndoAv1, n + 1) # << >>
           /\ n = 2 => Suffix(UndoAv1, n + 1) = << >>
<1>1. UndoAv1 \in Seq(Ops) /\ Len(UndoAv1) = 2 /\ 2 \in Nat
  BY UndoAv1Ops
<1>2. Suffix(UndoAv1, n) # << >>
  BY <1>1, AtSome
<1>3. Head(Suffix(UndoAv1, n)) = UndoAv1[n]
  BY <1>1, At
<1>4. Tail(Suffix(UndoAv1, n)) = Suffix(UndoAv1, n + 1)
  BY <1>1, At
<1>5. n < 2 => Suffix(UndoAv1, n + 1) # << >>
  BY <1>1, At
<1>6. n = 2 => Suffix(UndoAv1, n + 1) = << >>
  BY <1>1, At
<1> QED BY <1>2, <1>3, <1>4, <1>5, <1>6, Zenon

LEMMA UndoParentsOps ==
    /\ UndoParents \in Seq(Ops) /\ Len(UndoParents) = 4
    /\ UndoParents[1] = Gate(Con44) /\ UndoParents[2] = Assert(Con44)
    /\ UndoParents[3] = Off("VCODEC") /\ UndoParents[4] = ParentsDec
BY DEF UndoParents, Ops

LEMMA UndoParentsAt ==
    ASSUME NEW n \in 1 .. 4
    PROVE  /\ Suffix(UndoParents, n) # << >> /\ Head(Suffix(UndoParents, n)) = UndoParents[n]
           /\ Tail(Suffix(UndoParents, n)) = Suffix(UndoParents, n + 1)
           /\ n < 4 => Suffix(UndoParents, n + 1) # << >>
           /\ n = 4 => Suffix(UndoParents, n + 1) = << >>
<1>1. UndoParents \in Seq(Ops) /\ Len(UndoParents) = 4 /\ 4 \in Nat
  BY UndoParentsOps
<1>2. Suffix(UndoParents, n) # << >>
  BY <1>1, AtSome
<1>3. Head(Suffix(UndoParents, n)) = UndoParents[n]
  BY <1>1, At
<1>4. Tail(Suffix(UndoParents, n)) = Suffix(UndoParents, n + 1)
  BY <1>1, At
<1>5. n < 4 => Suffix(UndoParents, n + 1) # << >>
  BY <1>1, At
<1>6. n = 4 => Suffix(UndoParents, n + 1) = << >>
  BY <1>1, At
<1> QED BY <1>2, <1>3, <1>4, <1>5, <1>6, Zenon

LEMMA FullCoreReset0Ops ==
    LET p == FullCoreResetProg("rvd0")
    IN  /\ p \in Seq(Ops) /\ Len(p) = 6
        /\ p[1] = Off("RKVDEC0") /\ p[2] = Assert(Con40) /\ p[3] = Clksel("rk")
        /\ p[4] = Ungate(Con40) /\ p[5] = Deassert(Con40) /\ p[6] = On("RKVDEC0")
BY DEF FullCoreResetProg, DomainOf, ConOf, Ops

LEMMA FullCoreReset0At ==
    ASSUME NEW n \in 1 .. 6
    PROVE  /\ Suffix(FullCoreResetProg("rvd0"), n) # << >> /\ Head(Suffix(FullCoreResetProg("rvd0"), n)) = FullCoreResetProg("rvd0")[n]
           /\ Tail(Suffix(FullCoreResetProg("rvd0"), n)) = Suffix(FullCoreResetProg("rvd0"), n + 1)
           /\ n < 6 => Suffix(FullCoreResetProg("rvd0"), n + 1) # << >>
           /\ n = 6 => Suffix(FullCoreResetProg("rvd0"), n + 1) = << >>
<1>1. FullCoreResetProg("rvd0") \in Seq(Ops) /\ Len(FullCoreResetProg("rvd0")) = 6 /\ 6 \in Nat
  BY FullCoreReset0Ops
<1>2. Suffix(FullCoreResetProg("rvd0"), n) # << >>
  BY <1>1, AtSome
<1>3. Head(Suffix(FullCoreResetProg("rvd0"), n)) = FullCoreResetProg("rvd0")[n]
  BY <1>1, At
<1>4. Tail(Suffix(FullCoreResetProg("rvd0"), n)) = Suffix(FullCoreResetProg("rvd0"), n + 1)
  BY <1>1, At
<1>5. n < 6 => Suffix(FullCoreResetProg("rvd0"), n + 1) # << >>
  BY <1>1, At
<1>6. n = 6 => Suffix(FullCoreResetProg("rvd0"), n + 1) = << >>
  BY <1>1, At
<1> QED BY <1>2, <1>3, <1>4, <1>5, <1>6, Zenon

LEMMA FullCoreReset1Ops ==
    LET p == FullCoreResetProg("rvd1")
    IN  /\ p \in Seq(Ops) /\ Len(p) = 5
        /\ p[1] = Off("RKVDEC1") /\ p[2] = Assert(Con41) /\ p[3] = Ungate(Con41)
        /\ p[4] = Deassert(Con41) /\ p[5] = On("RKVDEC1")
BY DEF FullCoreResetProg, DomainOf, ConOf, Ops

LEMMA FullCoreReset1At ==
    ASSUME NEW n \in 1 .. 5
    PROVE  /\ Suffix(FullCoreResetProg("rvd1"), n) # << >> /\ Head(Suffix(FullCoreResetProg("rvd1"), n)) = FullCoreResetProg("rvd1")[n]
           /\ Tail(Suffix(FullCoreResetProg("rvd1"), n)) = Suffix(FullCoreResetProg("rvd1"), n + 1)
           /\ n < 5 => Suffix(FullCoreResetProg("rvd1"), n + 1) # << >>
           /\ n = 5 => Suffix(FullCoreResetProg("rvd1"), n + 1) = << >>
<1>1. FullCoreResetProg("rvd1") \in Seq(Ops) /\ Len(FullCoreResetProg("rvd1")) = 5 /\ 5 \in Nat
  BY FullCoreReset1Ops
<1>2. Suffix(FullCoreResetProg("rvd1"), n) # << >>
  BY <1>1, AtSome
<1>3. Head(Suffix(FullCoreResetProg("rvd1"), n)) = FullCoreResetProg("rvd1")[n]
  BY <1>1, At
<1>4. Tail(Suffix(FullCoreResetProg("rvd1"), n)) = Suffix(FullCoreResetProg("rvd1"), n + 1)
  BY <1>1, At
<1>5. n < 5 => Suffix(FullCoreResetProg("rvd1"), n + 1) # << >>
  BY <1>1, At
<1>6. n = 5 => Suffix(FullCoreResetProg("rvd1"), n + 1) = << >>
  BY <1>1, At
<1> QED BY <1>2, <1>3, <1>4, <1>5, <1>6, Zenon

LEMMA TailsTyped ==
    /\ Suffix(RaiseClusterProg, 2) \in Seq(Ops) /\ Suffix(RaiseAv1Prog, 2) \in Seq(Ops)
    /\ Suffix(DropClusterProg, 8) \in Seq(Ops) /\ Suffix(DropAv1Prog, 5) \in Seq(Ops) /\ << >> \in Seq(Ops)
<1>1. ASSUME NEW s \in Seq(Ops), NEW k \in Nat, NEW n \in 1 .. k, Len(s) = k PROVE Suffix(s, n) \in Seq(Ops)
  BY <1>1 DEF Suffix
<1>2. Suffix(RaiseClusterProg, 2) \in Seq(Ops)
  <2>1. RaiseClusterProg \in Seq(Ops) /\ Len(RaiseClusterProg) = 9 /\ 9 \in Nat /\ 2 \in 1 .. 9
    BY RaiseClusterOps
  <2> QED BY <1>1, <2>1, Zenon
<1>3. Suffix(RaiseAv1Prog, 2) \in Seq(Ops)
  <2>1. RaiseAv1Prog \in Seq(Ops) /\ Len(RaiseAv1Prog) = 6 /\ 6 \in Nat /\ 2 \in 1 .. 6
    BY RaiseAv1Ops
  <2> QED BY <1>1, <2>1, Zenon
<1>4. Suffix(DropClusterProg, 8) \in Seq(Ops)
  <2>1. DropClusterProg \in Seq(Ops) /\ Len(DropClusterProg) = 8 /\ 8 \in Nat /\ 8 \in 1 .. 8
    BY DropClusterOps
  <2> QED BY <1>1, <2>1, Zenon
<1>5. Suffix(DropAv1Prog, 5) \in Seq(Ops)
  <2>1. DropAv1Prog \in Seq(Ops) /\ Len(DropAv1Prog) = 5 /\ 5 \in Nat /\ 5 \in 1 .. 5
    BY DropAv1Ops
  <2> QED BY <1>1, <2>1, Zenon
<1> QED BY <1>2, <1>3, <1>4, <1>5


LEMMA Spliced ==
    ASSUME NEW t \in Seq(Ops)
    PROVE  /\ RaiseParentsProg \o t = Then(RaiseParentsProg, 1, t) /\ RaiseParentsProg \o t # << >>
           /\ DropParentsProg \o t = Then(DropParentsProg, 1, t) /\ DropParentsProg \o t # << >>
<1>1. 1 \in 1 .. 4
  OBVIOUS
<1>2. RaiseParentsProg \o t = Then(RaiseParentsProg, 1, t) /\ Then(RaiseParentsProg, 1, t) # << >>
  BY <1>1, RaiseParentsCatAt
<1>3. DropParentsProg \o t = Then(DropParentsProg, 1, t) /\ Then(DropParentsProg, 1, t) # << >>
  BY <1>1, DropParentsCatAt
<1> QED BY <1>2, <1>3

-----------------------------------------------------------------------------
\* The invariant.  Its parts: what the PMU's five sets say of one another, where each client and
\* caller is, what the counts count, and (Place) the assertion that holds before each operation
\* of each program.

\* Domain d is powered and its bus awake, unless its last handshake timed out.
Up(d) == d \in tainted \/ (d \in on /\ d \in pwr /\ d \notin idle /\ d \notin req)

\* Domain d is off as long as no handshake has timed out by itself.
Released(d) == faults = 0 => d \notin pwr

PmuInv ==
    /\ on \in SUBSET Domains /\ pwr \in SUBSET Domains /\ req \in SUBSET Domains
    /\ idle \in SUBSET Domains /\ tainted \in SUBSET Domains /\ faults \in Nat
    /\ "VCODEC" \notin req /\ "VCODEC" \notin idle
    /\ \A d \in Domains : d \notin tainted => (d \in on <=> d \in pwr) /\ (d \in req <=> d \in idle)
    /\ \A d \in Domains : d \in idle /\ d \notin req => d \in on /\ d \in pwr

\* Only the AV1 domain times out without a fault (its bus clocks are gated in D3), and no raise fails
\* without one.
FaultInv == /\ faults = 0 => tainted \subseteq {"AV1"}
            /\ ~mx.ok => faults > 0

CtlInv ==
    /\ mmio \in BOOLEAN /\ call \in [Threads -> Entries] /\ pc \in [Clients -> States]
    /\ busy \subseteq Rvds /\ \A c \in busy : pc[c] = "up"
    /\ gating \in [Rvds -> Nat] /\ quiet \subseteq busy /\ \A c \in quiet : gating[c] = 0
    /\ \A c \in Clients : pc[c] = "calling" <=> call[c] # "none"
    /\ \A c \in Rvds : pc[c] # "d3"
    /\ call["av1"] \notin {"Pulse", "Pulsed"}
    /\ \A t \in Files : /\ call[t] \in {"none", "FullReset", "Pulse", "Pulsed"}
                        /\ call[t] # "none" => pc[OwnerOf(t)] \in {"up", "d3"}
    /\ call["fav1"] \in {"none", "FullReset"}
    /\ mx = NoHolder \/ (/\ mx = [t |-> mx.t, prog |-> mx.prog, ok |-> mx.ok] /\ mx.t \in Threads
                         /\ mx.ok \in BOOLEAN /\ call[mx.t] \in {"Raise", "Drop", "FullReset"} /\ mmio)
    /\ ~mmio => \A t \in Threads : call[t] \in {"none", "Raise"}
    /\ ~mmio => \A c \in Clients : pc[c] \in {"down", "calling"}

\* Client c's raise is in the count: from the last step of the raise to that of the drop.
In(c) ==
    \/ Counted(c) /\ ~(mx.t = c /\ call[c] = "Drop" /\ mx.prog = << >>)
    \/ mx.t = c /\ call[c] = "Raise" /\ mx.prog = << >> /\ mx.ok

CountInv ==
    /\ refs = [rk |-> refs.rk, av1 |-> refs.av1, par |-> refs.par]
    /\ refs.rk = Bit(In("rvd0")) + Bit(In("rvd1")) /\ refs.av1 = Bit(In("av1"))

ParentsUp   == Up("VCODEC") /\ Up("VDPU") /\ "44" \notin gated /\ "44" \notin reset
ParentsCold == "44" \in gated /\ "44" \in reset /\ Released("VCODEC") /\ Released("VDPU")
ParentsOk   == (refs.par > 0 => ParentsUp) /\ (refs.par = 0 => ParentsCold)

CoreUp(c) ==
    /\ BusOf(DomainOf(c)) \cap (gated \cup reset) = {} /\ Up(DomainOf(c))
    /\ LeafOf(c) \cap reset # {} => Pulsing(c)
    /\ c \in quiet => LeafOf(c) \cap gated = {}

RkCold == /\ Con40 \cup Con41 \subseteq gated \cap reset
          /\ Released("RKVDEC0") /\ Released("RKVDEC1")
RkOk   == /\ refs.rk > 0 => CoreUp("rvd0") /\ CoreUp("rvd1") /\ "rk" \in clksel
          /\ refs.rk = 0 => RkCold

Av1On  == "AV1" \in on /\ "AV1" \in pwr /\ "av1" \in clksel /\ (pc["av1"] = "up" => "68" \notin gated)
Av1Ok  == refs.av1 > 0 => Av1On /\ Up("AV1") /\ "68" \notin reset

Inside(ts, e, ok) == mx.t \in ts /\ call[mx.t] = e /\ mx.ok = ok

\* Nobody is inside, or the program has ended.
Resting ==
    /\ mx.prog = << >> /\ refs.par = Bit(refs.rk > 0) + Bit(refs.av1 > 0)
    /\ ParentsOk /\ RkOk /\ Av1Ok

\* Before operation n of RaiseParents, the first holder's.
ParentsRaising(n) ==
    /\ refs = [rk |-> 0, av1 |-> 0, par |-> 1] /\ RkCold
    /\ n > 1 => Up("VCODEC")
    /\ n <= 2 <=> "44" \in gated
    /\ n <= 3 <=> "44" \in reset

\* Before operation n of DropParents.
ParentsDropping(n) ==
    /\ refs.par = 0 /\ RkCold
    /\ n = 1 => ParentsUp
    /\ n > 1 => Released("VDPU")
    /\ n > 2 => "44" \in reset
    /\ n > 3 => "44" \in gated

RaisingRk(n) ==
    /\ mx.prog = Suffix(RaiseClusterProg, n) /\ Inside(Rvds, "Raise", TRUE)
    /\ refs.rk = 0 /\ Av1Ok
    /\ n = 1 => refs.par = Bit(refs.av1 > 0) /\ ParentsOk
    /\ n > 1 => refs.par = 1 + Bit(refs.av1 > 0) /\ ParentsUp
    /\ n > 2 => "rk" \in clksel
    /\ IF n <= 3 THEN Con40 \subseteq gated ELSE "40bus" \notin gated
    /\ IF n <= 4 THEN Con40 \subseteq reset ELSE Con40 \cap reset = {}
    /\ IF n <= 5 THEN Released("RKVDEC0") ELSE Up("RKVDEC0")
    /\ IF n <= 6 THEN Con41 \subseteq gated ELSE "41bus" \notin gated
    /\ IF n <= 7 THEN Con41 \subseteq reset ELSE Con41 \cap reset = {}
    /\ IF n <= 8 THEN Released("RKVDEC1") ELSE Up("RKVDEC1")

UndoingRk(n) ==
    /\ mx.prog = Suffix(UndoRk, n) /\ Inside(Rvds, "Raise", FALSE)
    /\ refs.rk = 0 /\ refs.par = 1 + Bit(refs.av1 > 0) /\ ParentsUp /\ Av1Ok
    /\ n > 1 => Con41 \subseteq reset
    /\ n > 2 => Con41 \subseteq gated
    /\ n > 4 => Con40 \subseteq reset
    /\ n > 5 => Con40 \subseteq gated

DroppingRk(n) ==
    /\ mx.prog = Suffix(DropClusterProg, n) /\ Inside(Rvds, "Drop", TRUE)
    /\ refs.rk = 1 /\ Av1Ok
    /\ n <= 7 => refs.par = 1 + Bit(refs.av1 > 0) /\ ParentsUp
    /\ n = 8 => refs.par = Bit(refs.av1 > 0) /\ ParentsOk
    /\ IF n = 1 THEN {"41bus"} \cap (gated \cup reset) = {} /\ Up("RKVDEC1") ELSE Released("RKVDEC1")
    /\ IF n <= 2 THEN {"40bus"} \cap (gated \cup reset) = {} /\ Up("RKVDEC0") ELSE Released("RKVDEC0")
    /\ n > 3 => Con40 \subseteq reset
    /\ n > 4 => Con41 \subseteq reset
    /\ n > 5 => Con41 \subseteq gated
    /\ n > 6 => Con40 \subseteq gated

RaisingAv1(n) ==
    /\ mx.prog = Suffix(RaiseAv1Prog, n) /\ Inside({"av1"}, "Raise", TRUE)
    /\ refs.av1 = 0 /\ RkOk
    /\ n = 1 => refs.par = Bit(refs.rk > 0) /\ ParentsOk
    /\ n > 1 => refs.par = 1 + Bit(refs.rk > 0) /\ ParentsUp
    /\ n > 2 => "av1" \in clksel
    /\ n > 3 => "68" \notin gated
    /\ n > 4 => "68" \notin reset
    /\ n > 5 => Up("AV1") /\ "AV1" \in on /\ "AV1" \in pwr

UndoingAv1(n) ==
    /\ mx.prog = Suffix(UndoAv1, n) /\ Inside({"av1"}, "Raise", FALSE)
    /\ refs.av1 = 0 /\ refs.par = 1 + Bit(refs.rk > 0) /\ ParentsUp /\ RkOk

DroppingAv1(n) ==
    /\ mx.prog = Suffix(DropAv1Prog, n) /\ Inside({"av1"}, "Drop", TRUE)
    /\ refs.av1 = 1 /\ RkOk
    /\ n <= 4 => refs.par = 1 + Bit(refs.rk > 0) /\ ParentsUp
    /\ n = 5 => refs.par = Bit(refs.rk > 0) /\ ParentsOk

\* RaiseParents with what is left of either raise behind it.
RaisingParents(n) ==
    /\ \/ mx.prog = Then(RaiseParentsProg, n, Suffix(RaiseClusterProg, 2)) /\ Inside(Rvds, "Raise", TRUE)
       \/ mx.prog = Then(RaiseParentsProg, n, Suffix(RaiseAv1Prog, 2)) /\ Inside({"av1"}, "Raise", TRUE)
    /\ ParentsRaising(n)

UndoingParents(n) ==
    /\ mx.prog = Suffix(UndoParents, n) /\ Inside(Clients, "Raise", FALSE)
    /\ refs = [rk |-> 0, av1 |-> 0, par |-> 1] /\ RkCold
    /\ n > 1 => "44" \in gated
    /\ n > 2 => "44" \in reset

\* DropParents at the end of a failed raise, and inside either drop.
DroppingParents(n) ==
    /\ \/ /\ mx.prog = Then(DropParentsProg, n, << >>) /\ Inside(Clients, "Raise", FALSE)
          /\ refs.rk = 0 /\ refs.av1 = 0
       \/ /\ mx.prog = Then(DropParentsProg, n, Suffix(DropClusterProg, 8)) /\ Inside(Rvds, "Drop", TRUE)
          /\ refs.rk = 1 /\ refs.av1 = 0
       \/ /\ mx.prog = Then(DropParentsProg, n, Suffix(DropAv1Prog, 5)) /\ Inside({"av1"}, "Drop", TRUE)
          /\ refs.rk = 0 /\ refs.av1 = 1
    /\ ParentsDropping(n)

\* What a full reset of either cluster leaves alone.
Reset(c) ==
    /\ mx.t \in Threads /\ OwnerOf(mx.t) = c /\ call[mx.t] = "FullReset" /\ mx.ok
    /\ refs[RefOf(c)] > 0 /\ refs.par = Bit(refs.rk > 0) + Bit(refs.av1 > 0) /\ ParentsUp

ResettingRk(c, n) ==
    /\ mx.prog = Suffix(FullCoreResetProg(c), n) /\ Reset(c) /\ Av1Ok /\ "rk" \in clksel
    /\ \A d \in Rvds \ {c} : CoreUp(d)
    /\ BusOf(DomainOf(c)) \cap gated = {}
    /\ n = 1 => Up(DomainOf(c))
    /\ n <= 2 \/ n = Len(FullCoreResetProg(c)) => ConOf(c) \cap reset = {}
    /\ c \in quiet => LeafOf(c) \cap gated = {}

ResettingAv1(n) ==
    /\ mx.prog = Suffix(FullAv1ResetProg, n) /\ Reset("av1") /\ RkOk /\ Av1On
    /\ n # 3 => "68" \notin reset

Place ==
    \/ Resting
    \/ \E n \in 1 .. 9 : RaisingRk(n)
    \/ \E n \in 1 .. 6 : UndoingRk(n)
    \/ \E n \in 1 .. 8 : DroppingRk(n)
    \/ \E n \in 1 .. 6 : RaisingAv1(n)
    \/ \E n \in 1 .. 2 : UndoingAv1(n)
    \/ \E n \in 1 .. 5 : DroppingAv1(n)
    \/ \E n \in 1 .. 4 : RaisingParents(n) \/ UndoingParents(n) \/ DroppingParents(n)
    \/ \E c \in Rvds, n \in 1 .. 6 : n <= Len(FullCoreResetProg(c)) /\ ResettingRk(c, n)
    \/ \E n \in 1 .. 4 : ResettingAv1(n)

BaseInv == PmuInv /\ FaultInv /\ CtlInv /\ CountInv

CInv == BaseInv /\ Place

-----------------------------------------------------------------------------
\* What each operation does.

\* Nothing happens to domain e.
Untouched(e) ==
    /\ (e \in on') = (e \in on) /\ (e \in pwr') = (e \in pwr) /\ (e \in req') = (e \in req)
    /\ (e \in idle') = (e \in idle) /\ (e \in tainted') = (e \in tainted)
    /\ faults' = 0 => faults = 0

LEMMA UntouchedKeeps ==
    ASSUME NEW e, Untouched(e)
    PROVE  (Up(e) => Up(e)') /\ (Released(e) => Released(e)')
BY DEF Untouched, Up, Released

LEMMA OnOk ==
    ASSUME PmuInv, NEW d \in Domains, PowerOnOk(d)
    PROVE  /\ PmuInv' /\ \A e \in Domains \ {d} : Untouched(e)
           /\ Up(d)' /\ d \in on' /\ d \in pwr' /\ faults' = faults /\ tainted' \subseteq tainted
<1>1. on' = on \cup {d} /\ pwr' = pwr \cup {d} /\ faults' = faults
  BY DEF PowerOnOk, NoFault
<1>2. CASE ~HasIdle(d) \/ d \notin idle
  <2>1. req' = req /\ idle' = idle /\ tainted' = IF d \in req THEN tainted ELSE tainted \ {d}
    BY <1>2 DEF PowerOnOk
  <2>2. d \notin idle
    BY <1>2 DEF PmuInv, HasIdle
  <2> QED BY <1>1, <2>1, <2>2 DEF PmuInv, Untouched, Up
<1>3. CASE ~(~HasIdle(d) \/ d \notin idle)
  <2>1. req' = req \ {d} /\ idle' = idle \ {d} /\ tainted' = tainted \ {d}
    BY <1>3 DEF PowerOnOk
  <2> QED BY <1>1, <2>1 DEF PmuInv, Untouched, Up
<1> QED BY <1>2, <1>3

LEMMA OnTimeout ==
    ASSUME PmuInv, NEW d \in Domains, PowerOnTimeout(d)
    PROVE  /\ PmuInv' /\ \A e \in Domains \ {d} : Untouched(e)
           /\ d = "VCODEC" \/ BusAlive(d, on \cup {d}) => faults' > 0
           /\ d \in tainted'
<1>1. pwr' = pwr \cup {d} /\ idle' = idle
  BY DEF PowerOnTimeout
<1>2. CASE d \notin on /\ Fault(d) /\ UNCHANGED <<on, req>>
  BY <1>1, <1>2 DEF PmuInv, Untouched, Fault
<1>3. CASE /\ HasIdle(d) /\ d \in idle
           /\ on' = on \cup {d} /\ req' = req \ {d}
           /\ IF BusAlive(d, on \cup {d}) THEN Fault(d)
                                          ELSE NoFault /\ tainted' = tainted \cup {d}
  <2>1. d # "VCODEC" /\ tainted' = tainted \cup {d} /\ faults' \in {faults, faults + 1}
        /\ (BusAlive(d, on \cup {d}) => faults' = faults + 1)
    BY <1>3 DEF Fault, NoFault, HasIdle
  <2> QED BY <1>1, <1>3, <2>1 DEF PmuInv, Untouched
<1> QED BY <1>2, <1>3 DEF PowerOnTimeout

\* A power-off whose handshake can succeed, or that comes after a fault.
LEMMA OffEither ==
    ASSUME PmuInv, NEW d \in Domains, PowerOffOk(d) \/ PowerOffTimeout(d)
    PROVE  /\ PmuInv' /\ \A e \in Domains \ {d} : Untouched(e)
           /\ tainted' \subseteq tainted \cup {d}
           /\ (faults = 0 => d = "VCODEC" \/ BusAlive(d, on)) => Released(d)' /\ (faults' = 0 => tainted' = tainted)
<1>1. CASE PowerOffOk(d)
  <2>1. req' = (IF HasIdle(d) THEN req \cup {d} ELSE req) /\ idle' = (IF HasIdle(d) THEN idle \cup {d} ELSE idle)
        /\ pwr' = pwr \ {d}
    BY <1>1 DEF PowerOffOk
  <2>2. \/ on' = on \ {d} /\ faults' = faults /\ tainted' = tainted
        \/ d \in on /\ faults' = faults + 1 /\ tainted' = tainted \cup {d} /\ on' = on
    BY <1>1 DEF PowerOffOk, Fault, NoFault
  <2> QED BY <2>1, <2>2 DEF PmuInv, Untouched, Released, HasIdle
<1>2. CASE PowerOffTimeout(d)
  <2>1. /\ d # "VCODEC" /\ d \notin idle /\ req' = req \cup {d} /\ pwr' = pwr /\ on' = on /\ idle' = idle
        /\ tainted' = tainted \cup {d} /\ faults' \in {faults, faults + 1}
        /\ (BusAlive(d, on) => faults' = faults + 1)
    BY <1>2 DEF PowerOffTimeout, Fault, NoFault, HasIdle
  <2> QED BY <2>1 DEF PmuInv, Untouched, Released
<1> QED BY <1>1, <1>2

LEMMA IdleEither ==
    ASSUME PmuInv, NEW want \in BOOLEAN, IdleRequest("AV1", want), "AV1" \in on, "AV1" \in pwr
    PROVE  /\ PmuInv' /\ \A e \in Domains \ {"AV1"} : Untouched(e)
           /\ "AV1" \in on' /\ "AV1" \in pwr' /\ (~want => Up("AV1")')
           /\ tainted' \subseteq tainted \cup {"AV1"}
<1>1. req' = (IF want THEN req \cup {"AV1"} ELSE req \ {"AV1"}) /\ pwr' = pwr /\ on' = on
  BY DEF IdleRequest
<1>2. "AV1" \in Domains /\ "AV1" # "VCODEC"
  BY DEF Domains
<1>3. CASE /\ BusAlive("AV1", on) \/ ("AV1" \in idle) = want
           /\ idle' = (IF want THEN idle \cup {"AV1"} ELSE idle \ {"AV1"})
           /\ NoFault
           /\ tainted' = IF want THEN tainted ELSE tainted \ {"AV1"}
  <2>1. CASE want
    BY <1>1, <1>2, <1>3, <2>1 DEF PmuInv, Untouched, NoFault
  <2>2. CASE ~want
    BY <1>1, <1>2, <1>3, <2>2 DEF PmuInv, Untouched, NoFault, Up
  <2> QED BY <2>1, <2>2
<1>4. CASE /\ ("AV1" \in idle) # want /\ UNCHANGED idle
           /\ IF BusAlive("AV1", on) THEN Fault("AV1") ELSE NoFault /\ tainted' = tainted \cup {"AV1"}
  <2>1. idle' = idle /\ tainted' = tainted \cup {"AV1"} /\ faults' \in {faults, faults + 1}
    BY <1>4 DEF Fault, NoFault
  <2>2. CASE want
    BY <1>1, <1>2, <2>1, <2>2 DEF PmuInv, Untouched
  <2>3. CASE ~want
    BY <1>1, <1>2, <2>1, <2>3 DEF PmuInv, Untouched, Up
  <2> QED BY <2>2, <2>3
<1> QED BY <1>3, <1>4 DEF IdleRequest

\* The holder goes on with program p.
Went(p, ok) == /\ mx' = [t |-> mx.t, prog |-> p, ok |-> ok]
               /\ mmio' = mmio /\ call' = call /\ pc' = pc /\ busy' = busy /\ quiet' = quiet /\ gating' = gating

LEMMA Holder ==
    ASSUME CtlInv, mx.prog # << >>
    PROVE  /\ mx = [t |-> mx.t, prog |-> mx.prog, ok |-> mx.ok] /\ mx.t \in Threads /\ mx.ok \in BOOLEAN
           /\ call[mx.t] \in {"Raise", "Drop", "FullReset"} /\ mmio
<1>1. mx # NoHolder
  BY DEF NoHolder
<1> QED BY <1>1 DEF CtlInv

LEMMA Going ==
    ASSUME CtlInv, Step, NEW p
    PROVE  /\ Goto(p) => Went(p, mx.ok)
           /\ Abort(p) => Went(p, FALSE)
<1>1. mx.prog # << >> /\ mmio' = mmio /\ call' = call /\ pc' = pc /\ busy' = busy /\ quiet' = quiet /\ gating' = gating
  BY DEF Step, jobVars
<1>2. mx = [t |-> mx.t, prog |-> mx.prog, ok |-> mx.ok]
  BY <1>1, Holder
<1>3. PICK a, b, c : mx = [t |-> a, prog |-> b, ok |-> c]
  BY <1>2
<1>4. [mx EXCEPT !.prog = p] = [t |-> mx.t, prog |-> p, ok |-> mx.ok]
  BY <1>3
<1>5. [mx EXCEPT !.prog = p, !.ok = FALSE] = [t |-> mx.t, prog |-> p, ok |-> FALSE]
  <2>1. PICK r : r = [mx EXCEPT !.prog = p, !.ok = FALSE]
    OBVIOUS
  <2>2. DOMAIN r = {"t", "prog", "ok"} /\ r = [x \in DOMAIN r |-> r[x]]
    BY <1>3, <2>1
  <2>3. r["t"] = mx["t"] /\ r["prog"] = p /\ r["ok"] = FALSE
    BY <1>3, <2>1
  <2> QED BY <2>1, <2>2, <2>3
<1> QED BY <1>1, <1>4, <1>5 DEF Goto, Abort, Went

LEMMA DoOn ==
    ASSUME CtlInv, PmuInv, Step, NEW d \in Domains, Head(mx.prog) = On(d)
    PROVE  /\ UNCHANGED <<refs, gated, reset, clksel>>
           /\ PmuInv' /\ \A e \in Domains \ {d} : Untouched(e)
           /\ \/ /\ Went(Tail(mx.prog), mx.ok)
                 /\ Up(d)' /\ d \in on' /\ d \in pwr' /\ faults' = faults /\ tainted' \subseteq tainted
              \/ /\ Went(UndoProg(call[mx.t], d), FALSE) /\ Up(d)'
                 /\ d = "VCODEC" \/ BusAlive(d, on \cup {d}) => faults' > 0
<1>1. Head(mx.prog).op = "On" /\ Head(mx.prog).d = d
  BY DEF On
<1>2. StepOn
  BY <1>1 DEF Step, StepOff, StepIdle, StepCru, StepRefs
<1>3. UNCHANGED <<refs, gated, reset, clksel>>
  BY <1>2 DEF StepOn, cruVars
<1>4. CASE PowerOnOk(d) /\ Goto(Rest)
  BY <1>3, <1>4, OnOk, Going DEF Rest
<1>5. CASE PowerOnTimeout(d) /\ Abort(UndoProg(call[mx.t], d))
  BY <1>3, <1>5, OnTimeout, Going DEF Up
<1> QED BY <1>1, <1>2, <1>4, <1>5 DEF StepOn

LEMMA DoOff ==
    ASSUME CtlInv, PmuInv, Step, NEW d \in Domains, Head(mx.prog) = Off(d)
    PROVE  /\ UNCHANGED <<refs, gated, reset, clksel>> /\ Went(Tail(mx.prog), mx.ok)
           /\ PmuInv' /\ \A e \in Domains \ {d} : Untouched(e)
           /\ tainted' \subseteq tainted \cup {d}
           /\ (faults = 0 => d = "VCODEC" \/ BusAlive(d, on)) => Released(d)' /\ (faults' = 0 => tainted' = tainted)
<1>1. Head(mx.prog).op = "Off" /\ Head(mx.prog).d = d
  BY DEF Off
<1>2. StepOff
  BY <1>1 DEF Step, StepOn, StepIdle, StepCru, StepRefs
<1>3. UNCHANGED <<refs, gated, reset, clksel>> /\ (PowerOffOk(d) \/ PowerOffTimeout(d)) /\ Goto(Rest)
  BY <1>1, <1>2 DEF StepOff, cruVars
<1>4. Went(Tail(mx.prog), mx.ok)
  BY <1>3, Going DEF Rest
<1> QED BY <1>3, <1>4, OffEither

LEMMA DoIdle ==
    ASSUME CtlInv, PmuInv, Step, NEW want \in BOOLEAN, Head(mx.prog) = Idle(want), "AV1" \in on, "AV1" \in pwr
    PROVE  /\ UNCHANGED <<refs, gated, reset, clksel>> /\ Went(Tail(mx.prog), mx.ok)
           /\ PmuInv' /\ \A e \in Domains \ {"AV1"} : Untouched(e)
           /\ "AV1" \in on' /\ "AV1" \in pwr' /\ (~want => Up("AV1")')
           /\ tainted' \subseteq tainted \cup {"AV1"}
<1>1. Head(mx.prog).op = "Idle" /\ Head(mx.prog).want = want
  BY DEF Idle
<1>2. StepIdle
  BY <1>1 DEF Step, StepOn, StepOff, StepCru, StepRefs
<1>3. UNCHANGED <<refs, gated, reset, clksel>> /\ IdleRequest("AV1", want) /\ Goto(Rest)
  BY <1>1, <1>2 DEF StepIdle, cruVars
<1>4. Went(Tail(mx.prog), mx.ok)
  BY <1>3, Going DEF Rest
<1> QED BY <1>3, <1>4, IdleEither

\* A CRU operation or a change of counts leaves the PMU alone.
PmuSame == UNCHANGED <<pwr, on, req, idle, faults, tainted>>

LEMMA PmuSameKeeps ==
    ASSUME PmuInv, PmuSame
    PROVE  PmuInv' /\ \A e \in Domains : Untouched(e)
BY DEF PmuInv, PmuSame, Untouched

LEMMA DoGate ==
    ASSUME CtlInv, Step, NEW m, NEW v, Head(mx.prog) = [op |-> "Gate", m |-> m, v |-> v]
    PROVE  /\ UNCHANGED <<refs, reset, clksel>> /\ PmuSame /\ gated' = HiwordWrite(gated, m, v)
           /\ Went(Tail(mx.prog), mx.ok)
<1>1. Head(mx.prog).op = "Gate" /\ Head(mx.prog).m = m /\ Head(mx.prog).v = v
  OBVIOUS
<1>2. StepCru
  BY <1>1 DEF Step, StepOn, StepOff, StepIdle, StepRefs
<1> QED BY <1>1, <1>2, Going DEF StepCru, Rest, pmuVars, PmuSame

LEMMA DoReset ==
    ASSUME CtlInv, Step, NEW m, NEW v, Head(mx.prog) = [op |-> "Reset", m |-> m, v |-> v]
    PROVE  /\ UNCHANGED <<refs, gated, clksel>> /\ PmuSame /\ reset' = HiwordWrite(reset, m, v)
           /\ Went(Tail(mx.prog), mx.ok)
<1>1. Head(mx.prog).op = "Reset" /\ Head(mx.prog).m = m /\ Head(mx.prog).v = v
  OBVIOUS
<1>2. StepCru
  BY <1>1 DEF Step, StepOn, StepOff, StepIdle, StepRefs
<1> QED BY <1>1, <1>2, Going DEF StepCru, Rest, pmuVars, PmuSame

LEMMA DoClksel ==
    ASSUME CtlInv, Step, NEW k, Head(mx.prog) = Clksel(k)
    PROVE  /\ UNCHANGED <<refs, gated, reset>> /\ PmuSame /\ clksel' = clksel \cup {k}
           /\ Went(Tail(mx.prog), mx.ok)
<1>1. Head(mx.prog).op = "Clksel" /\ Head(mx.prog).k = k
  BY DEF Clksel
<1>2. StepCru
  BY <1>1 DEF Step, StepOn, StepOff, StepIdle, StepRefs
<1> QED BY <1>1, <1>2, Going DEF StepCru, Rest, pmuVars, PmuSame

\* The counts become a, b and n.
Counts(a, b, n) == refs' = [rk |-> a, av1 |-> b, par |-> n]

LEMMA DoRefs ==
    ASSUME CtlInv, Step, refs = [rk |-> refs.rk, av1 |-> refs.av1, par |-> refs.par],
           Head(mx.prog).op \in {"RaiseParents", "DropParents", "ParentsDec", "SetRef"}
    PROVE  /\ UNCHANGED <<gated, reset, clksel>> /\ PmuSame
           /\ Head(mx.prog) = RaiseParents =>
                /\ Counts(refs.rk, refs.av1, refs.par + 1)
                /\ Went(IF refs.par = 0 THEN RaiseParentsProg \o Tail(mx.prog) ELSE Tail(mx.prog), mx.ok)
           /\ Head(mx.prog) = DropParents =>
                /\ Counts(refs.rk, refs.av1, refs.par - 1)
                /\ Went(IF refs.par = 1 THEN DropParentsProg \o Tail(mx.prog) ELSE Tail(mx.prog), mx.ok)
           /\ Head(mx.prog) = ParentsDec =>
                Counts(refs.rk, refs.av1, refs.par - 1) /\ Went(Tail(mx.prog), mx.ok)
           /\ \A n : Head(mx.prog) = SetRef("rk", n) =>
                Counts(n, refs.av1, refs.par) /\ Went(Tail(mx.prog), mx.ok)
           /\ \A n : Head(mx.prog) = SetRef("av1", n) =>
                Counts(refs.rk, n, refs.par) /\ Went(Tail(mx.prog), mx.ok)
<1>1. StepRefs
  BY DEF Step, StepOn, StepOff, StepIdle, StepCru
<1>2. UNCHANGED <<gated, reset, clksel>> /\ PmuSame
  BY <1>1 DEF StepRefs, jobVars, hwVars, pmuVars, cruVars, PmuSame
<1>3. PICK a, b, n : refs = [rk |-> a, av1 |-> b, par |-> n]
  OBVIOUS
<1>4. ASSUME Head(mx.prog) = RaiseParents
      PROVE  /\ Counts(refs.rk, refs.av1, refs.par + 1)
             /\ Went(IF refs.par = 0 THEN RaiseParentsProg \o Tail(mx.prog) ELSE Tail(mx.prog), mx.ok)
  <2>1. Head(mx.prog).op = "RaiseParents"
    BY <1>4 DEF RaiseParents
  <2>2. /\ refs' = [refs EXCEPT !.par = @ + 1]
        /\ Goto(IF refs.par = 0 THEN RaiseParentsProg \o Rest ELSE Rest)
    BY <1>1, <2>1 DEF StepRefs
  <2>3. Counts(refs.rk, refs.av1, refs.par + 1)
    BY <1>3, <2>2 DEF Counts
  <2> QED BY <2>2, <2>3, Going DEF Rest
<1>5. ASSUME Head(mx.prog) = DropParents
      PROVE  /\ Counts(refs.rk, refs.av1, refs.par - 1)
             /\ Went(IF refs.par = 1 THEN DropParentsProg \o Tail(mx.prog) ELSE Tail(mx.prog), mx.ok)
  <2>1. Head(mx.prog).op = "DropParents"
    BY <1>5 DEF DropParents
  <2>2. /\ refs' = [refs EXCEPT !.par = @ - 1]
        /\ Goto(IF refs.par = 1 THEN DropParentsProg \o Rest ELSE Rest)
    BY <1>1, <2>1 DEF StepRefs
  <2>3. Counts(refs.rk, refs.av1, refs.par - 1)
    BY <1>3, <2>2 DEF Counts
  <2> QED BY <2>2, <2>3, Going DEF Rest
<1>6. ASSUME Head(mx.prog) = ParentsDec
      PROVE  Counts(refs.rk, refs.av1, refs.par - 1) /\ Went(Tail(mx.prog), mx.ok)
  <2>1. Head(mx.prog).op = "ParentsDec"
    BY <1>6 DEF ParentsDec
  <2>2. refs' = [refs EXCEPT !.par = @ - 1] /\ Goto(Rest)
    BY <1>1, <2>1 DEF StepRefs
  <2>3. Counts(refs.rk, refs.av1, refs.par - 1)
    BY <1>3, <2>2 DEF Counts
  <2> QED BY <2>2, <2>3, Going DEF Rest
<1>7. ASSUME NEW k \in {"rk", "av1"}, NEW j, Head(mx.prog) = SetRef(k, j)
      PROVE  /\ Counts(IF k = "rk" THEN j ELSE refs.rk, IF k = "av1" THEN j ELSE refs.av1, refs.par)
             /\ Went(Tail(mx.prog), mx.ok)
  <2>1. Head(mx.prog).op = "SetRef" /\ Head(mx.prog).k = k /\ Head(mx.prog).n = j
    BY <1>7 DEF SetRef
  <2>2. refs' = [refs EXCEPT ![k] = j] /\ Goto(Rest)
    BY <1>1, <2>1 DEF StepRefs
  <2>3. Counts(IF k = "rk" THEN j ELSE refs.rk, IF k = "av1" THEN j ELSE refs.av1, refs.par)
    BY <1>3, <1>7, <2>2 DEF Counts
  <2> QED BY <2>2, <2>3, Going DEF Rest
<1> QED BY <1>2, <1>4, <1>5, <1>6, <1>7

-----------------------------------------------------------------------------
\* What a step leaves alone.

SameBit(b) == (b \in gated') = (b \in gated) /\ (b \in reset') = (b \in reset)

ParentsFrame == Untouched("VCODEC") /\ Untouched("VDPU") /\ SameBit("44")
CoreFrame(c) ==
    /\ Untouched(DomainOf(c)) /\ \A b \in ConOf(c) : SameBit(b)
    /\ (c \in quiet') = (c \in quiet) /\ call' = call
RkFrame      == CoreFrame("rvd0") /\ CoreFrame("rvd1") /\ clksel \subseteq clksel'
Av1Frame     == Untouched("AV1") /\ SameBit("68") /\ clksel \subseteq clksel' /\ pc' = pc

LEMMA Wiring ==
    /\ DomainOf("rvd0") = "RKVDEC0" /\ DomainOf("rvd1") = "RKVDEC1" /\ DomainOf("av1") = "AV1"
    /\ ConOf("rvd0") = Con40 /\ ConOf("rvd1") = Con41 /\ ConOf("av1") = Con68
    /\ LeafOf("rvd0") = {"40leaf"} /\ LeafOf("rvd1") = {"41leaf"} /\ LeafOf("av1") = Con68
    /\ BusOf("RKVDEC0") = {"40bus"} /\ BusOf("RKVDEC1") = {"41bus"} /\ BusOf("AV1") = Con68 /\ BusOf("VDPU") = Con44
    /\ OwnerOf("f0") = "rvd0" /\ OwnerOf("f1") = "rvd1" /\ OwnerOf("fav1") = "av1"
    /\ OwnerOf("rvd0") = "rvd0" /\ OwnerOf("rvd1") = "rvd1" /\ OwnerOf("av1") = "av1"
    /\ RefOf("rvd0") = "rk" /\ RefOf("rvd1") = "rk" /\ RefOf("av1") = "av1"
    /\ Con40 = {"40bus", "40leaf"} /\ Con41 = {"41bus", "41leaf"} /\ Con44 = {"44"} /\ Con68 = {"68"}
BY DEF DomainOf, ConOf, LeafOf, BusOf, OwnerOf, RefOf, Rvds, Con40, Con41, Con44, Con68

LEMMA ParentsFrameKeeps ==
    ASSUME ParentsFrame
    PROVE  (ParentsUp => ParentsUp') /\ (ParentsCold => ParentsCold') /\ (refs'.par = refs.par /\ ParentsOk => ParentsOk')
<1>1. (ParentsUp => ParentsUp') /\ (ParentsCold => ParentsCold')
  BY UntouchedKeeps DEF ParentsFrame, ParentsUp, ParentsCold, SameBit
<1> QED BY <1>1 DEF ParentsOk

LEMMA CoreFrameKeeps ==
    ASSUME NEW c \in Rvds, CoreFrame(c), CoreUp(c)
    PROVE  CoreUp(c)'
<1>1. Up(DomainOf(c))'
  BY UntouchedKeeps DEF CoreFrame, CoreUp
<1>2. Pulsing(c) => Pulsing(c)'
  BY DEF CoreFrame, Pulsing
<1>3. BusOf(DomainOf(c)) \subseteq ConOf(c) /\ LeafOf(c) \subseteq ConOf(c)
  BY Wiring DEF Rvds
<1> QED BY <1>1, <1>2, <1>3 DEF CoreFrame, CoreUp, SameBit

LEMMA RkFrameKeeps ==
    ASSUME RkFrame
    PROVE  (RkCold => RkCold') /\ (refs'.rk = refs.rk /\ RkOk => RkOk')
<1>1. RkCold => RkCold'
  BY UntouchedKeeps, Wiring DEF RkFrame, CoreFrame, RkCold, SameBit
<1>2. \A c \in Rvds : CoreUp(c) => CoreUp(c)'
  BY CoreFrameKeeps DEF RkFrame, Rvds
<1>3. "rvd0" \in Rvds /\ "rvd1" \in Rvds
  BY DEF Rvds
<1> QED BY <1>1, <1>2, <1>3 DEF RkOk, RkFrame

LEMMA Av1FrameKeeps ==
    ASSUME Av1Frame
    PROVE  (Av1On => Av1On') /\ (refs'.av1 = refs.av1 /\ Av1Ok => Av1Ok')
<1>1. Av1On => Av1On'
  BY DEF Av1Frame, Untouched, Av1On, SameBit
<1> QED BY <1>1, UntouchedKeeps DEF Av1Frame, Av1Ok, SameBit

\* A bus with its clocks, below parents that are up, acknowledges: a handshake runs out only with
\* a fault.
LEMMA Alive ==
    ASSUME FaultInv, faults = 0, ParentsUp, NEW d \in {"VDPU", "RKVDEC0", "RKVDEC1", "AV1"},
           BusOf(d) \cap (gated \cup reset) = {}, NEW up, on \subseteq up, d \in up
    PROVE  BusAlive(d, up)
BY Wiring DEF FaultInv, ParentsUp, Up, BusAlive

LEMMA StepCtl ==
    ASSUME CtlInv, Step, NEW p, NEW ok \in BOOLEAN, Went(p, ok)
    PROVE  CtlInv'
<1>1. mx.prog # << >>
  BY DEF Step, jobVars
<1>2. mx.t \in Threads /\ call[mx.t] \in {"Raise", "Drop", "FullReset"} /\ mmio
  BY <1>1, Holder
<1>3. mx' = [t |-> mx.t, prog |-> p, ok |-> ok] /\ mx'.t = mx.t /\ mx'.prog = p /\ mx'.ok = ok
  BY DEF Went
<1>4. mx' = [t |-> mx'.t, prog |-> mx'.prog, ok |-> mx'.ok] /\ mx'.t \in Threads /\ mx'.ok \in BOOLEAN
      /\ call'[mx'.t] \in {"Raise", "Drop", "FullReset"} /\ mmio'
  BY <1>2, <1>3 DEF Went
<1> QED BY <1>4 DEF CtlInv, Went

\* Until its last operation a program leaves the counts of raises as they are; a reset and a failed
\* raise do so to the end.
LEMMA CountKeeps ==
    ASSUME CtlInv, CountInv, Step, NEW p, NEW ok, Went(p, ok),
           Counts(refs.rk, refs.av1, refs'.par),
           p # << >> \/ call[mx.t] = "FullReset" \/ (call[mx.t] = "Raise" /\ ~ok)
    PROVE  CountInv'
<1>1. mx.prog # << >>
  BY DEF Step, jobVars
<1>2. mx'.t = mx.t /\ mx'.prog = p /\ mx'.ok = ok /\ call' = call /\ pc' = pc
  BY DEF Went
<1>3. \A c \in Clients : Counted(c)' = Counted(c)
  BY <1>2 DEF Counted, Holds
<1>4. \A c \in Clients : In(c)' = In(c)
  BY <1>1, <1>2, <1>3 DEF In
<1>5. Bit(In("rvd0"))' = Bit(In("rvd0")) /\ Bit(In("rvd1"))' = Bit(In("rvd1")) /\ Bit(In("av1"))' = Bit(In("av1"))
  BY <1>4 DEF Bit, Clients, Rvds
<1> QED BY <1>5 DEF CountInv, Counts

\* The program goes on, or ends without a change of the counts.
Cont(p) == p # << >> \/ call[mx.t] = "FullReset" \/ (call[mx.t] = "Raise" /\ ~mx.ok)

Kept(e) == Untouched(e) /\ (Up(e) => Up(e)') /\ (Released(e) => Released(e)')

LEMMA FramesOf ==
    ASSUME call' = call, quiet' = quiet, pc' = pc, clksel \subseteq clksel'
    PROVE  /\ Kept("VCODEC") /\ Kept("VDPU") /\ SameBit("44") => ParentsFrame
           /\ Kept("RKVDEC0") /\ Kept("RKVDEC1") /\ (\A b \in Con40 \cup Con41 : SameBit(b)) => RkFrame
           /\ Kept("AV1") /\ SameBit("68") => Av1Frame
BY Wiring DEF ParentsFrame, RkFrame, CoreFrame, Av1Frame, Kept

LEMMA RefsSame ==
    ASSUME CountInv, refs' = refs
    PROVE  Counts(refs.rk, refs.av1, refs'.par)
BY DEF CountInv, Counts

LEMMA Quiet ==
    ASSUME BaseInv, Step, PmuSame, NEW p, Went(p, mx.ok)
    PROVE  /\ PmuInv' /\ FaultInv' /\ CtlInv' /\ \A e \in Domains : Kept(e)
           /\ Counts(refs.rk, refs.av1, refs'.par) /\ Cont(p) => CountInv'
<1>1. PmuInv' /\ \A e \in Domains : Untouched(e)
  BY PmuSameKeeps DEF BaseInv
<1>2. \A e \in Domains : Kept(e)
  BY <1>1, UntouchedKeeps DEF Kept
<1>3. mx.ok \in BOOLEAN
  BY Holder DEF BaseInv, Step
<1>4. CtlInv'
  BY <1>3, StepCtl DEF BaseInv
<1>5. FaultInv'
  BY DEF BaseInv, FaultInv, PmuSame, Went
<1>6. ASSUME Counts(refs.rk, refs.av1, refs'.par), Cont(p) PROVE CountInv'
  BY <1>6, CountKeeps DEF BaseInv, Cont
<1> QED BY <1>1, <1>2, <1>4, <1>5, <1>6

LEMMA GateStep ==
    ASSUME BaseInv, Step, NEW m, Head(mx.prog) = Gate(m), Cont(Tail(mx.prog))
    PROVE  /\ BaseInv' /\ \A e \in Domains : Kept(e)
           /\ UNCHANGED <<refs, reset, clksel>> /\ Went(Tail(mx.prog), mx.ok) /\ PmuSame /\ gated' = gated \cup m
<1>1. Head(mx.prog) = [op |-> "Gate", m |-> m, v |-> m]
  BY DEF Gate
<1>2. /\ UNCHANGED <<refs, reset, clksel>> /\ PmuSame /\ gated' = HiwordWrite(gated, m, m)
      /\ Went(Tail(mx.prog), mx.ok)
  BY <1>1, DoGate DEF BaseInv
<1>3. gated' = gated \cup m
  BY <1>2 DEF HiwordWrite
<1> QED BY <1>2, <1>3, Quiet, RefsSame DEF BaseInv

LEMMA UngateStep ==
    ASSUME BaseInv, Step, NEW m, Head(mx.prog) = Ungate(m), Cont(Tail(mx.prog))
    PROVE  /\ BaseInv' /\ \A e \in Domains : Kept(e)
           /\ UNCHANGED <<refs, reset, clksel>> /\ Went(Tail(mx.prog), mx.ok) /\ PmuSame /\ gated' = gated \ m
<1>1. Head(mx.prog) = [op |-> "Gate", m |-> m, v |-> {}]
  BY DEF Ungate
<1>2. /\ UNCHANGED <<refs, reset, clksel>> /\ PmuSame /\ gated' = HiwordWrite(gated, m, {})
      /\ Went(Tail(mx.prog), mx.ok)
  BY <1>1, DoGate DEF BaseInv
<1>3. gated' = gated \ m
  BY <1>2 DEF HiwordWrite
<1> QED BY <1>2, <1>3, Quiet, RefsSame DEF BaseInv

LEMMA AssertStep ==
    ASSUME BaseInv, Step, NEW m, Head(mx.prog) = Assert(m), Cont(Tail(mx.prog))
    PROVE  /\ BaseInv' /\ \A e \in Domains : Kept(e)
           /\ UNCHANGED <<refs, gated, clksel>> /\ Went(Tail(mx.prog), mx.ok) /\ PmuSame /\ reset' = reset \cup m
<1>1. Head(mx.prog) = [op |-> "Reset", m |-> m, v |-> m]
  BY DEF Assert
<1>2. /\ UNCHANGED <<refs, gated, clksel>> /\ PmuSame /\ reset' = HiwordWrite(reset, m, m)
      /\ Went(Tail(mx.prog), mx.ok)
  BY <1>1, DoReset DEF BaseInv
<1>3. reset' = reset \cup m
  BY <1>2 DEF HiwordWrite
<1> QED BY <1>2, <1>3, Quiet, RefsSame DEF BaseInv

LEMMA DeassertStep ==
    ASSUME BaseInv, Step, NEW m, Head(mx.prog) = Deassert(m), Cont(Tail(mx.prog))
    PROVE  /\ BaseInv' /\ \A e \in Domains : Kept(e)
           /\ UNCHANGED <<refs, gated, clksel>> /\ Went(Tail(mx.prog), mx.ok) /\ PmuSame /\ reset' = reset \ m
<1>1. Head(mx.prog) = [op |-> "Reset", m |-> m, v |-> {}]
  BY DEF Deassert
<1>2. /\ UNCHANGED <<refs, gated, clksel>> /\ PmuSame /\ reset' = HiwordWrite(reset, m, {})
      /\ Went(Tail(mx.prog), mx.ok)
  BY <1>1, DoReset DEF BaseInv
<1>3. reset' = reset \ m
  BY <1>2 DEF HiwordWrite
<1> QED BY <1>2, <1>3, Quiet, RefsSame DEF BaseInv

LEMMA ClkselStep ==
    ASSUME BaseInv, Step, NEW k, Head(mx.prog) = Clksel(k), Cont(Tail(mx.prog))
    PROVE  /\ BaseInv' /\ \A e \in Domains : Kept(e)
           /\ UNCHANGED <<refs, gated, reset>> /\ Went(Tail(mx.prog), mx.ok) /\ PmuSame /\ clksel' = clksel \cup {k}
<1>1. /\ UNCHANGED <<refs, gated, reset>> /\ PmuSame /\ clksel' = clksel \cup {k} /\ Went(Tail(mx.prog), mx.ok)
  BY DoClksel DEF BaseInv
<1> QED BY <1>1, Quiet, RefsSame DEF BaseInv

\* A power-on inside a raise or a reset fails only with a fault if the bus has its clocks.
LEMMA OnStep ==
    ASSUME BaseInv, Step, NEW d \in Domains, Head(mx.prog) = On(d), call[mx.t] \in {"Raise", "FullReset"},
           Cont(Tail(mx.prog)), faults = 0 => d = "VCODEC" \/ BusAlive(d, on \cup {d})
    PROVE  /\ BaseInv' /\ \A e \in Domains \ {d} : Kept(e)
           /\ UNCHANGED <<refs, gated, reset, clksel>>
           /\ \/ Went(Tail(mx.prog), mx.ok) /\ Up(d)' /\ d \in on' /\ d \in pwr'
              \/ Went(UndoProg(call[mx.t], d), FALSE) /\ faults' > 0 /\ Up(d)'
<1> USE DEF BaseInv
<1>1. /\ UNCHANGED <<refs, gated, reset, clksel>>
      /\ PmuInv' /\ \A e \in Domains \ {d} : Untouched(e)
      /\ \/ /\ Went(Tail(mx.prog), mx.ok)
            /\ Up(d)' /\ d \in on' /\ d \in pwr' /\ faults' = faults /\ tainted' \subseteq tainted
         \/ /\ Went(UndoProg(call[mx.t], d), FALSE) /\ Up(d)'
            /\ d = "VCODEC" \/ BusAlive(d, on \cup {d}) => faults' > 0
  BY DoOn
<1>2. \A e \in Domains \ {d} : Kept(e)
  BY <1>1, UntouchedKeeps DEF Kept
<1>3. mx.ok \in BOOLEAN
  BY Holder DEF Step
<1>4. Counts(refs.rk, refs.av1, refs'.par)
  BY <1>1, RefsSame
<1>5. CASE /\ Went(Tail(mx.prog), mx.ok)
           /\ Up(d)' /\ d \in on' /\ d \in pwr' /\ faults' = faults /\ tainted' \subseteq tainted
  <2>1. CtlInv'
    BY <1>3, <1>5, StepCtl
  <2>2. FaultInv'
    BY <1>5 DEF FaultInv, Went
  <2>3. CountInv'
    BY <1>4, <1>5, CountKeeps DEF Cont
  <2> QED BY <1>1, <1>2, <1>5, <2>1, <2>2, <2>3
<1>6. CASE /\ Went(UndoProg(call[mx.t], d), FALSE) /\ Up(d)'
           /\ d = "VCODEC" \/ BusAlive(d, on \cup {d}) => faults' > 0
  <2>1. CtlInv'
    BY <1>6, StepCtl
  <2>2. \E e \in Domains : e # d
    BY DEF Domains
  <2>3. PICK e \in Domains \ {d} : TRUE
    BY <2>2
  <2>4. Untouched(e)
    BY <1>1, <2>3
  <2>5. faults' = 0 => faults = 0
    BY <2>4 DEF Untouched
  <2>6. faults' > 0
    BY <1>1, <1>6, <2>5 DEF PmuInv
  <2>7. FaultInv'
    BY <2>6 DEF FaultInv
  <2>8. CountInv'
    BY <1>4, <1>6, CountKeeps
  <2> QED BY <1>1, <1>2, <1>6, <2>1, <2>6, <2>7, <2>8
<1> QED BY <1>1, <1>5, <1>6

LEMMA OffStep ==
    ASSUME BaseInv, Step, NEW d \in Domains, Head(mx.prog) = Off(d), Cont(Tail(mx.prog)),
           faults = 0 => d \in {"VCODEC", "AV1"} \/ BusAlive(d, on)
    PROVE  /\ BaseInv' /\ \A e \in Domains \ {d} : Kept(e)
           /\ UNCHANGED <<refs, gated, reset, clksel>> /\ Went(Tail(mx.prog), mx.ok)
           /\ d # "AV1" => Released(d)'
<1> USE DEF BaseInv
<1>1. /\ UNCHANGED <<refs, gated, reset, clksel>> /\ Went(Tail(mx.prog), mx.ok)
      /\ PmuInv' /\ \A e \in Domains \ {d} : Untouched(e)
      /\ tainted' \subseteq tainted \cup {d}
      /\ (faults = 0 => d = "VCODEC" \/ BusAlive(d, on)) => Released(d)' /\ (faults' = 0 => tainted' = tainted)
  BY DoOff
<1>2. \A e \in Domains \ {d} : Kept(e)
  BY <1>1, UntouchedKeeps DEF Kept
<1>3. CtlInv'
  <2>1. mx.ok \in BOOLEAN
    BY Holder DEF Step
  <2> QED BY <1>1, <2>1, StepCtl
<1>4. CountInv'
  BY <1>1, RefsSame, CountKeeps DEF Cont
<1>5. faults' = 0 => faults = 0
  <2>1. \E e \in Domains : e # d
    BY DEF Domains
  <2>2. PICK e \in Domains \ {d} : TRUE
    BY <2>1
  <2>3. Untouched(e)
    BY <1>1, <2>2
  <2> QED BY <2>3 DEF Untouched
<1>6. FaultInv' /\ (d # "AV1" => Released(d)')
  <2>1. mx'.ok = mx.ok /\ faults' \in Nat
    BY <1>1 DEF Went, PmuInv
  <2>2. faults \in Nat
    BY DEF PmuInv
  <2>3. CASE d = "AV1"
    BY <1>1, <1>5, <2>1, <2>2, <2>3 DEF FaultInv
  <2>4. CASE d # "AV1"
    <3>1. Released(d)' /\ (faults' = 0 => tainted' = tainted)
      BY <1>1, <2>4
    <3> QED BY <1>5, <2>1, <2>2, <2>4, <3>1 DEF FaultInv
  <2> QED BY <2>3, <2>4
<1> QED BY <1>1, <1>2, <1>3, <1>4, <1>6

LEMMA IdleStep ==
    ASSUME BaseInv, Step, NEW want \in BOOLEAN, Head(mx.prog) = Idle(want), Cont(Tail(mx.prog)), "AV1" \in on, "AV1" \in pwr
    PROVE  /\ BaseInv' /\ \A e \in Domains \ {"AV1"} : Kept(e)
           /\ UNCHANGED <<refs, gated, reset, clksel>> /\ Went(Tail(mx.prog), mx.ok)
           /\ "AV1" \in on' /\ "AV1" \in pwr' /\ (~want => Up("AV1")')
<1> USE DEF BaseInv
<1>1. /\ UNCHANGED <<refs, gated, reset, clksel>> /\ Went(Tail(mx.prog), mx.ok)
      /\ PmuInv' /\ \A e \in Domains \ {"AV1"} : Untouched(e)
      /\ "AV1" \in on' /\ "AV1" \in pwr' /\ (~want => Up("AV1")')
      /\ tainted' \subseteq tainted \cup {"AV1"}
  BY DoIdle
<1>2. \A e \in Domains \ {"AV1"} : Kept(e)
  BY <1>1, UntouchedKeeps DEF Kept
<1>3. CtlInv'
  <2>1. mx.ok \in BOOLEAN
    BY Holder DEF Step
  <2> QED BY <1>1, <2>1, StepCtl
<1>4. CountInv'
  BY <1>1, RefsSame, CountKeeps DEF Cont
<1>5. faults' = 0 => faults = 0
  <2>1. Untouched("VDPU")
    BY <1>1 DEF Domains
  <2> QED BY <2>1 DEF Untouched
<1>6. FaultInv'
  <2>1. mx'.ok = mx.ok /\ faults' \in Nat /\ faults \in Nat
    BY <1>1 DEF Went, PmuInv
  <2> QED BY <1>1, <1>5, <2>1 DEF FaultInv
<1> QED BY <1>1, <1>2, <1>3, <1>4, <1>6

\* The last operation of a raise or a drop makes the count match: the caller is in or out.
LEMMA SetRefStep ==
    ASSUME BaseInv, Step, NEW k \in {"rk", "av1"}, NEW v \in {0, 1}, Head(mx.prog) = SetRef(k, v), Tail(mx.prog) = << >>,
           mx.t \in Clients, RefOf(mx.t) = k, mx.ok = TRUE, v = 1 => call[mx.t] = "Raise", v = 0 => call[mx.t] = "Drop",
           k = "rk" => refs.rk = 1 - v, k = "av1" => refs.av1 = 1 - v
    PROVE  /\ BaseInv' /\ \A e \in Domains : Kept(e)
           /\ UNCHANGED <<gated, reset, clksel>> /\ Went(<< >>, TRUE)
           /\ k = "rk" => Counts(v, refs.av1, refs.par)
           /\ k = "av1" => Counts(refs.rk, v, refs.par)
<1>1. Head(mx.prog).op \in {"RaiseParents", "DropParents", "ParentsDec", "SetRef"}
  BY DEF SetRef
<1>2. refs = [rk |-> refs.rk, av1 |-> refs.av1, par |-> refs.par]
  BY DEF BaseInv, CountInv
<1>3. /\ UNCHANGED <<gated, reset, clksel>> /\ PmuSame /\ Went(<< >>, TRUE)
      /\ k = "rk" => Counts(v, refs.av1, refs.par)
      /\ k = "av1" => Counts(refs.rk, v, refs.par)
  <2>1. CASE k = "rk"
    BY <1>1, <1>2, <2>1, DoRefs DEF BaseInv
  <2>2. CASE k = "av1"
    BY <1>1, <1>2, <2>2, DoRefs DEF BaseInv
  <2> QED BY <2>1, <2>2
<1>4. PmuInv' /\ FaultInv' /\ CtlInv' /\ \A e \in Domains : Kept(e)
  BY <1>3, Quiet
<1>5. mx'.t = mx.t /\ mx'.prog = << >> /\ mx'.ok = TRUE /\ call' = call /\ pc' = pc /\ mx.prog # << >>
  BY <1>3 DEF Went, Step
<1>6. \A c \in Clients : Counted(c)' = Counted(c)
  BY <1>5 DEF Counted, Holds
<1>7. \A c \in Clients \ {mx.t} : In(c)' = In(c)
  BY <1>5, <1>6 DEF In
<1>8. ASSUME NEW c \in Clients, c = mx.t PROVE (v = 1 => In(c)') /\ (v = 0 => ~In(c)' /\ In(c))
  <2>1. CASE v = 1
    BY <1>5, <1>8, <2>1 DEF In
  <2>2. CASE v = 0
    <3>1. Counted(c) /\ call[c] = "Drop"
      BY <1>8, <2>2 DEF Counted
    <3> QED BY <1>5, <1>6, <1>8, <2>2, <3>1 DEF In
  <2> QED BY <2>1, <2>2
<1>9. refs'.rk = (IF k = "rk" THEN v ELSE refs.rk) /\ refs'.av1 = (IF k = "av1" THEN v ELSE refs.av1)
      /\ refs' = [rk |-> refs'.rk, av1 |-> refs'.av1, par |-> refs'.par]
  BY <1>3 DEF Counts
<1>10. refs.rk = Bit(In("rvd0")) + Bit(In("rvd1")) /\ refs.av1 = Bit(In("av1"))
  BY DEF BaseInv, CountInv
<1>11. CountInv'
  <2>1. CASE mx.t = "av1"
    <3>1. k = "av1"
      BY <2>1, Wiring
    <3>2. In("rvd0")' = In("rvd0") /\ In("rvd1")' = In("rvd1")
      BY <1>7, <2>1 DEF Clients, Rvds
    <3>3. Bit(In("av1"))' = v
      BY <1>8, <2>1 DEF Bit, Clients
    <3>4. Bit(In("rvd0"))' = Bit(In("rvd0")) /\ Bit(In("rvd1"))' = Bit(In("rvd1"))
      BY <3>2 DEF Bit
    <3> QED BY <1>9, <1>10, <3>1, <3>3, <3>4 DEF CountInv
  <2>2. CASE mx.t = "rvd0"
    <3>1. k = "rk"
      BY <2>2, Wiring
    <3>2. In("rvd1")' = In("rvd1") /\ In("av1")' = In("av1")
      BY <1>7, <2>2 DEF Clients, Rvds
    <3>3. Bit(In("rvd0"))' = v /\ (v = 0 => Bit(In("rvd0")) = 1)
      BY <1>8, <2>2 DEF Bit, Clients, Rvds
    <3>4. Bit(In("rvd1"))' = Bit(In("rvd1")) /\ Bit(In("av1"))' = Bit(In("av1"))
      BY <3>2 DEF Bit
    <3>5. Bit(In("rvd0")) \in {0, 1} /\ Bit(In("rvd1")) \in {0, 1}
      BY DEF Bit
    <3>6. Bit(In("rvd1")) = 0
      BY <1>10, <3>1, <3>3, <3>5
    <3> QED BY <1>9, <1>10, <3>1, <3>3, <3>4, <3>6 DEF CountInv
  <2>3. CASE mx.t = "rvd1"
    <3>1. k = "rk"
      BY <2>3, Wiring
    <3>2. In("rvd0")' = In("rvd0") /\ In("av1")' = In("av1")
      BY <1>7, <2>3 DEF Clients, Rvds
    <3>3. Bit(In("rvd1"))' = v /\ (v = 0 => Bit(In("rvd1")) = 1)
      BY <1>8, <2>3 DEF Bit, Clients, Rvds
    <3>4. Bit(In("rvd0"))' = Bit(In("rvd0")) /\ Bit(In("av1"))' = Bit(In("av1"))
      BY <3>2 DEF Bit
    <3>5. Bit(In("rvd0")) \in {0, 1} /\ Bit(In("rvd1")) \in {0, 1}
      BY DEF Bit
    <3>6. Bit(In("rvd0")) = 0
      BY <1>10, <3>1, <3>3, <3>5
    <3> QED BY <1>9, <1>10, <3>1, <3>3, <3>4, <3>6 DEF CountInv
  <2> QED BY <2>1, <2>2, <2>3 DEF Clients, Rvds
<1> QED BY <1>3, <1>4, <1>11 DEF BaseInv

LEMMA RefsStep ==
    ASSUME BaseInv, Step, Head(mx.prog) \in {RaiseParents, DropParents, ParentsDec}
    PROVE  /\ PmuInv' /\ FaultInv' /\ CtlInv' /\ \A e \in Domains : Kept(e)
           /\ UNCHANGED <<gated, reset, clksel>> /\ PmuSame
           /\ Counts(refs.rk, refs.av1, refs'.par)
           /\ Head(mx.prog) = RaiseParents =>
                /\ refs'.par = refs.par + 1
                /\ Went(IF refs.par = 0 THEN RaiseParentsProg \o Tail(mx.prog) ELSE Tail(mx.prog), mx.ok)
           /\ Head(mx.prog) = DropParents =>
                /\ refs'.par = refs.par - 1
                /\ Went(IF refs.par = 1 THEN DropParentsProg \o Tail(mx.prog) ELSE Tail(mx.prog), mx.ok)
           /\ Head(mx.prog) = ParentsDec => refs'.par = refs.par - 1 /\ Went(Tail(mx.prog), mx.ok)
           /\ \A p : Went(p, mx.ok) /\ Cont(p) => CountInv'
<1>1. Head(mx.prog).op \in {"RaiseParents", "DropParents", "ParentsDec", "SetRef"}
  BY DEF RaiseParents, DropParents, ParentsDec
<1>2. refs = [rk |-> refs.rk, av1 |-> refs.av1, par |-> refs.par]
  BY DEF BaseInv, CountInv
<1>3. /\ UNCHANGED <<gated, reset, clksel>> /\ PmuSame
      /\ Head(mx.prog) = RaiseParents =>
           /\ Counts(refs.rk, refs.av1, refs.par + 1)
           /\ Went(IF refs.par = 0 THEN RaiseParentsProg \o Tail(mx.prog) ELSE Tail(mx.prog), mx.ok)
      /\ Head(mx.prog) = DropParents =>
           /\ Counts(refs.rk, refs.av1, refs.par - 1)
           /\ Went(IF refs.par = 1 THEN DropParentsProg \o Tail(mx.prog) ELSE Tail(mx.prog), mx.ok)
      /\ Head(mx.prog) = ParentsDec =>
           Counts(refs.rk, refs.av1, refs.par - 1) /\ Went(Tail(mx.prog), mx.ok)
  BY <1>1, <1>2, DoRefs DEF BaseInv
<1>4. \A n : Counts(refs.rk, refs.av1, n) => refs'.par = n /\ Counts(refs.rk, refs.av1, refs'.par)
  BY DEF Counts
<1>5. PICK p : Went(p, mx.ok)
  BY <1>3
<1>6. PmuInv' /\ FaultInv' /\ CtlInv' /\ \A e \in Domains : Kept(e)
  BY <1>3, <1>5, Quiet
<1>7. Counts(refs.rk, refs.av1, refs'.par)
  BY <1>3, <1>4
<1>8. \A q : Went(q, mx.ok) /\ Cont(q) => CountInv'
  BY <1>3, <1>7, Quiet
<1> QED BY <1>3, <1>4, <1>6, <1>7, <1>8

-----------------------------------------------------------------------------
\* The steps of the programs.

LEMMA Undoing ==
    /\ UndoProg("Raise", "RKVDEC0") = Suffix(UndoRk, 4) /\ UndoProg("Raise", "RKVDEC1") = Suffix(UndoRk, 1)
    /\ UndoProg("Raise", "AV1") = Suffix(UndoAv1, 1)
    /\ UndoProg("Raise", "VCODEC") = Suffix(UndoParents, 4) /\ UndoProg("Raise", "VDPU") = Suffix(UndoParents, 1)
    /\ UndoProg("FullReset", "RKVDEC0") = << >> /\ UndoProg("FullReset", "RKVDEC1") = << >>
<1>1. UndoProg("Raise", "RKVDEC0") = Suffix(UndoRk, 4)
  BY DEF UndoProg, Suffix, UndoRk
<1>2. UndoProg("Raise", "RKVDEC1") = Suffix(UndoRk, 1)
  BY DEF UndoProg, Suffix, UndoRk
<1>3. UndoProg("Raise", "AV1") = Suffix(UndoAv1, 1)
  BY DEF UndoProg, Suffix, UndoAv1
<1>4. UndoProg("Raise", "VCODEC") = Suffix(UndoParents, 4)
  BY DEF UndoProg, Suffix, UndoParents
<1>5. UndoProg("Raise", "VDPU") = Suffix(UndoParents, 1)
  BY DEF UndoProg, Suffix, UndoParents
<1>6. UndoProg("FullReset", "RKVDEC0") = << >> /\ UndoProg("FullReset", "RKVDEC1") = << >>
  BY DEF UndoProg
<1> QED BY <1>1, <1>2, <1>3, <1>4, <1>5, <1>6

\* A client that holds its cluster is in the count.
LEMMA Holding ==
    ASSUME CInv, NEW c \in Clients, Holds(c)
    PROVE  In(c) /\ (c \in Rvds => refs.rk > 0) /\ (c = "av1" => refs.av1 = 1)
<1>1. call[c] # "Drop" /\ Counted(c)
  BY DEF CInv, BaseInv, CtlInv, Holds, Counted
<1>2. In(c)
  BY <1>1 DEF In
<1>3. refs.rk = Bit(In("rvd0")) + Bit(In("rvd1")) /\ refs.av1 = Bit(In("av1"))
  BY DEF CInv, BaseInv, CountInv
<1>4. c \in Rvds => refs.rk > 0
  <2>1. Bit(In("rvd0")) \in {0, 1} /\ Bit(In("rvd1")) \in {0, 1}
    BY DEF Bit
  <2>2. c = "rvd0" => Bit(In("rvd0")) = 1
    BY <1>2 DEF Bit
  <2>3. c = "rvd1" => Bit(In("rvd1")) = 1
    BY <1>2 DEF Bit
  <2> QED BY <1>3, <2>1, <2>2, <2>3 DEF Rvds
<1>5. c = "av1" => refs.av1 = 1
  BY <1>2, <1>3 DEF Bit
<1> QED BY <1>2, <1>4, <1>5

LEMMA RaisingRkStep ==
    ASSUME CInv, Step, NEW n \in 1 .. 9, RaisingRk(n)
    PROVE  CInv'
<1>1. /\ BaseInv /\ mx.prog = Suffix(RaiseClusterProg, n) /\ mx.t \in Rvds /\ call[mx.t] = "Raise" /\ mx.ok = TRUE
      /\ refs.rk = 0 /\ Av1Ok
  BY DEF CInv, RaisingRk, Inside
<1>2. /\ Head(mx.prog) = RaiseClusterProg[n] /\ Tail(mx.prog) = Suffix(RaiseClusterProg, n + 1)
      /\ n < 9 => Cont(Tail(mx.prog))
  <2>1. /\ Head(mx.prog) = RaiseClusterProg[n] /\ Tail(mx.prog) = Suffix(RaiseClusterProg, n + 1)
        /\ n < 9 => Suffix(RaiseClusterProg, n + 1) # << >>
    BY <1>1, RaiseClusterAt
  <2> QED BY <2>1, Zenon DEF Cont
<1>3. CASE n = 1
  <2>1. Head(mx.prog) = RaiseParents /\ Tail(mx.prog) = Suffix(RaiseClusterProg, 2) /\ Cont(Tail(mx.prog))
    BY <1>1, <1>2, <1>3, RaiseClusterOps
  <2>2. /\ PmuInv' /\ FaultInv' /\ CtlInv' /\ (\A e \in Domains : Kept(e)) /\ UNCHANGED <<gated, reset, clksel>>
        /\ Counts(refs.rk, refs.av1, refs'.par) /\ refs'.par = refs.par + 1
        /\ Went(IF refs.par = 0 THEN RaiseParentsProg \o Suffix(RaiseClusterProg, 2) ELSE Suffix(RaiseClusterProg, 2), TRUE)
        /\ \A p : Went(p, TRUE) /\ Cont(p) => CountInv'
    BY <1>1, <2>1, RefsStep
  <2>3. refs.par = Bit(refs.av1 > 0) /\ ParentsOk /\ refs.par \in {0, 1} /\ RkCold /\ (refs.par = 0 => refs.av1 = 0)
    <3>1. refs.par = Bit(refs.av1 > 0) /\ ParentsOk /\ RkCold
      BY <1>3, Wiring DEF RaisingRk, RkCold
    <3>2. refs.av1 \in {0, 1}
      BY <1>1 DEF BaseInv, CountInv, Bit
    <3> QED BY <3>1, <3>2 DEF Bit
  <2>4. refs'.rk = 0 /\ refs'.av1 = refs.av1 /\ refs' = [rk |-> 0, av1 |-> refs.av1, par |-> refs.par + 1]
    BY <1>1, <2>2 DEF Counts
  <2>5. ParentsFrame /\ Av1Frame /\ RkFrame
    BY <2>2, FramesOf, Wiring DEF SameBit, Went, Domains
  <2>6. Av1Ok' /\ RkCold'
    BY <1>1, <2>3, <2>4, <2>5, Av1FrameKeeps, RkFrameKeeps
  <2>7. CASE refs.par = 0
    <3>1. RaiseParentsProg \o Suffix(RaiseClusterProg, 2) = Then(RaiseParentsProg, 1, Suffix(RaiseClusterProg, 2))
      BY TailsTyped, Spliced
    <3>2. RaiseParentsProg \o Suffix(RaiseClusterProg, 2) # << >>
      BY TailsTyped, Spliced
    <3>3. Went(RaiseParentsProg \o Suffix(RaiseClusterProg, 2), TRUE) /\ CountInv'
      BY <2>2, <2>7, <3>2 DEF Cont
    <3>4. "44" \in gated' /\ "44" \in reset'
      BY <2>2, <2>3, <2>7 DEF ParentsOk, ParentsCold
    <3>5. RaisingParents(1)'
      BY <1>1, <2>3, <2>4, <2>6, <2>7, <3>1, <3>3, <3>4 DEF RaisingParents, ParentsRaising, Inside, Went
    <3> QED BY <2>2, <3>3, <3>5 DEF CInv, BaseInv, Place
  <2>8. CASE refs.par # 0
    <3>1. Went(Suffix(RaiseClusterProg, 2), TRUE) /\ CountInv'
      BY <2>1, <2>2, <2>8
    <3>2. ParentsUp'
      BY <2>3, <2>5, <2>8, ParentsFrameKeeps DEF ParentsOk
    <3>3. refs'.par = 1 + Bit(refs'.av1 > 0)
      BY <2>2, <2>3, <2>4
    <3>4. RaisingRk(2)'
      BY <1>1, <1>3, <2>2, <2>4, <2>6, <3>1, <3>2, <3>3 DEF RaisingRk, RkCold, Inside, Went
    <3> QED BY <2>2, <3>1, <3>4 DEF CInv, BaseInv, Place
  <2> QED BY <2>7, <2>8
<1>4. CASE n = 2
  <2>1. Head(mx.prog) = Clksel("rk") /\ Tail(mx.prog) = Suffix(RaiseClusterProg, 3) /\ Cont(Tail(mx.prog))
    BY <1>1, <1>2, <1>4, RaiseClusterOps
  <2>2. /\ BaseInv' /\ (\A e \in Domains : Kept(e)) /\ UNCHANGED <<refs, gated, reset>>
        /\ Went(Suffix(RaiseClusterProg, 3), TRUE) /\ clksel' = clksel \cup {"rk"}
    BY <1>1, <2>1, ClkselStep
  <2>3. ParentsFrame /\ Av1Frame
    BY <2>2, FramesOf, Wiring DEF SameBit, Went, Domains
  <2>4. ParentsUp' /\ Av1Ok'
    BY <1>1, <1>4, <2>2, <2>3, ParentsFrameKeeps, Av1FrameKeeps DEF RaisingRk
  <2>5. Released("RKVDEC0")' /\ Released("RKVDEC1")'
    BY <1>1, <1>4, <2>2 DEF RaisingRk, Kept, Domains
  <2>6. "rk" \in clksel' /\ Con40 \subseteq gated' /\ Con40 \subseteq reset' /\ Con41 \subseteq gated'
        /\ Con41 \subseteq reset'
    BY <1>1, <1>4, <2>2, Wiring DEF RaisingRk
  <2>7. RaisingRk(3)'
    BY <1>1, <1>4, <2>2, <2>4, <2>5, <2>6 DEF RaisingRk, Inside, Went
  <2> QED BY <2>2, <2>7 DEF CInv, Place
<1>5. CASE n = 3
  <2>1. Head(mx.prog) = Ungate(Con40) /\ Tail(mx.prog) = Suffix(RaiseClusterProg, 4) /\ Cont(Tail(mx.prog))
    BY <1>1, <1>2, <1>5, RaiseClusterOps
  <2>2. /\ BaseInv' /\ (\A e \in Domains : Kept(e)) /\ UNCHANGED <<refs, reset, clksel>>
        /\ Went(Suffix(RaiseClusterProg, 4), TRUE) /\ gated' = gated \ Con40
    BY <1>1, <2>1, UngateStep
  <2>3. ParentsFrame /\ Av1Frame
    BY <2>2, FramesOf, Wiring DEF SameBit, Went, Domains
  <2>4. ParentsUp' /\ Av1Ok'
    BY <1>1, <1>5, <2>2, <2>3, ParentsFrameKeeps, Av1FrameKeeps DEF RaisingRk
  <2>5. Released("RKVDEC0")' /\ Released("RKVDEC1")'
    BY <1>1, <1>5, <2>2 DEF RaisingRk, Kept, Domains
  <2>6. "rk" \in clksel' /\ "40bus" \notin gated' /\ Con40 \subseteq reset' /\ Con41 \subseteq gated'
        /\ Con41 \subseteq reset'
    BY <1>1, <1>5, <2>2, Wiring DEF RaisingRk
  <2>7. RaisingRk(4)'
    BY <1>1, <1>5, <2>2, <2>4, <2>5, <2>6 DEF RaisingRk, Inside, Went
  <2> QED BY <2>2, <2>7 DEF CInv, Place
<1>6. CASE n = 4
  <2>1. Head(mx.prog) = Deassert(Con40) /\ Tail(mx.prog) = Suffix(RaiseClusterProg, 5) /\ Cont(Tail(mx.prog))
    BY <1>1, <1>2, <1>6, RaiseClusterOps
  <2>2. /\ BaseInv' /\ (\A e \in Domains : Kept(e)) /\ UNCHANGED <<refs, gated, clksel>>
        /\ Went(Suffix(RaiseClusterProg, 5), TRUE) /\ reset' = reset \ Con40
    BY <1>1, <2>1, DeassertStep
  <2>3. ParentsFrame /\ Av1Frame
    BY <2>2, FramesOf, Wiring DEF SameBit, Went, Domains
  <2>4. ParentsUp' /\ Av1Ok'
    BY <1>1, <1>6, <2>2, <2>3, ParentsFrameKeeps, Av1FrameKeeps DEF RaisingRk
  <2>5. Released("RKVDEC0")' /\ Released("RKVDEC1")'
    BY <1>1, <1>6, <2>2 DEF RaisingRk, Kept, Domains
  <2>6. "rk" \in clksel' /\ "40bus" \notin gated' /\ Con40 \cap reset' = {} /\ Con41 \subseteq gated'
        /\ Con41 \subseteq reset'
    BY <1>1, <1>6, <2>2, Wiring DEF RaisingRk
  <2>7. RaisingRk(5)'
    BY <1>1, <1>6, <2>2, <2>4, <2>5, <2>6 DEF RaisingRk, Inside, Went
  <2> QED BY <2>2, <2>7 DEF CInv, Place
<1>7. CASE n = 5
  <2>1. Head(mx.prog) = On("RKVDEC0") /\ Tail(mx.prog) = Suffix(RaiseClusterProg, 6) /\ Cont(Tail(mx.prog))
    BY <1>1, <1>2, <1>7, RaiseClusterOps
  <2>2. "RKVDEC0" \in Domains /\ (faults = 0 => BusAlive("RKVDEC0", on \cup {"RKVDEC0"}))
    <3>1. BusOf("RKVDEC0") \cap (gated \cup reset) = {} /\ ParentsUp
      BY <1>7, Wiring DEF RaisingRk
    <3> QED BY <1>1, <3>1, Alive DEF BaseInv, Domains
  <2>3. /\ BaseInv' /\ (\A e \in Domains \ {"RKVDEC0"} : Kept(e)) /\ UNCHANGED <<refs, gated, reset, clksel>>
        /\ \/ Went(Suffix(RaiseClusterProg, 6), TRUE) /\ Up("RKVDEC0")' /\ "RKVDEC0" \in on' /\ "RKVDEC0" \in pwr'
           \/ Went(Suffix(UndoRk, 4), FALSE) /\ faults' > 0 /\ Up("RKVDEC0")'
    BY <1>1, <2>1, <2>2, OnStep, Undoing
  <2>4. CASE Went(Suffix(RaiseClusterProg, 6), TRUE) /\ Up("RKVDEC0")' /\ "RKVDEC0" \in on' /\ "RKVDEC0" \in pwr'
    <3>3. ParentsFrame /\ Av1Frame
      BY <2>3, <2>4, FramesOf, Wiring DEF SameBit, Went, Domains
    <3>4. ParentsUp' /\ Av1Ok'
      BY <1>1, <1>7, <2>3, <2>4, <3>3, ParentsFrameKeeps, Av1FrameKeeps DEF RaisingRk
    <3>5. Up("RKVDEC0")' /\ Released("RKVDEC1")'
      BY <1>1, <1>7, <2>3, <2>4 DEF RaisingRk, Kept, Domains
    <3>6. "rk" \in clksel' /\ "40bus" \notin gated' /\ Con40 \cap reset' = {} /\ Con41 \subseteq gated'
          /\ Con41 \subseteq reset'
      BY <1>1, <1>7, <2>3, <2>4, Wiring DEF RaisingRk
    <3>7. RaisingRk(6)'
      BY <1>1, <1>7, <2>3, <2>4, <3>4, <3>5, <3>6 DEF RaisingRk, Inside, Went
    <3> QED BY <2>3, <2>4, <3>7 DEF CInv, Place
  <2>5. CASE Went(Suffix(UndoRk, 4), FALSE) /\ faults' > 0 /\ Up("RKVDEC0")'
    <3>3. ParentsFrame /\ Av1Frame
      BY <2>3, <2>5, FramesOf, Wiring DEF SameBit, Went, Domains
    <3>4. ParentsUp' /\ Av1Ok'
      BY <1>1, <1>7, <2>3, <2>5, <3>3, ParentsFrameKeeps, Av1FrameKeeps DEF RaisingRk
    <3>5. Con41 \subseteq gated' /\ Con41 \subseteq reset'
      BY <1>1, <1>7, <2>3, <2>5, Wiring DEF RaisingRk
    <3>6. UndoingRk(4)'
      BY <1>1, <1>7, <2>3, <2>5, <3>4, <3>5 DEF RaisingRk, UndoingRk, Inside, Went
    <3> QED BY <2>3, <2>5, <3>6 DEF CInv, Place
  <2> QED BY <2>3, <2>4, <2>5
<1>8. CASE n = 6
  <2>1. Head(mx.prog) = Ungate(Con41) /\ Tail(mx.prog) = Suffix(RaiseClusterProg, 7) /\ Cont(Tail(mx.prog))
    BY <1>1, <1>2, <1>8, RaiseClusterOps
  <2>2. /\ BaseInv' /\ (\A e \in Domains : Kept(e)) /\ UNCHANGED <<refs, reset, clksel>>
        /\ Went(Suffix(RaiseClusterProg, 7), TRUE) /\ gated' = gated \ Con41
    BY <1>1, <2>1, UngateStep
  <2>3. ParentsFrame /\ Av1Frame
    BY <2>2, FramesOf, Wiring DEF SameBit, Went, Domains
  <2>4. ParentsUp' /\ Av1Ok'
    BY <1>1, <1>8, <2>2, <2>3, ParentsFrameKeeps, Av1FrameKeeps DEF RaisingRk
  <2>5. Up("RKVDEC0")' /\ Released("RKVDEC1")'
    BY <1>1, <1>8, <2>2 DEF RaisingRk, Kept, Domains
  <2>6. "rk" \in clksel' /\ "40bus" \notin gated' /\ Con40 \cap reset' = {} /\ "41bus" \notin gated'
        /\ Con41 \subseteq reset'
    BY <1>1, <1>8, <2>2, Wiring DEF RaisingRk
  <2>7. RaisingRk(7)'
    BY <1>1, <1>8, <2>2, <2>4, <2>5, <2>6 DEF RaisingRk, Inside, Went
  <2> QED BY <2>2, <2>7 DEF CInv, Place
<1>9. CASE n = 7
  <2>1. Head(mx.prog) = Deassert(Con41) /\ Tail(mx.prog) = Suffix(RaiseClusterProg, 8) /\ Cont(Tail(mx.prog))
    BY <1>1, <1>2, <1>9, RaiseClusterOps
  <2>2. /\ BaseInv' /\ (\A e \in Domains : Kept(e)) /\ UNCHANGED <<refs, gated, clksel>>
        /\ Went(Suffix(RaiseClusterProg, 8), TRUE) /\ reset' = reset \ Con41
    BY <1>1, <2>1, DeassertStep
  <2>3. ParentsFrame /\ Av1Frame
    BY <2>2, FramesOf, Wiring DEF SameBit, Went, Domains
  <2>4. ParentsUp' /\ Av1Ok'
    BY <1>1, <1>9, <2>2, <2>3, ParentsFrameKeeps, Av1FrameKeeps DEF RaisingRk
  <2>5. Up("RKVDEC0")' /\ Released("RKVDEC1")'
    BY <1>1, <1>9, <2>2 DEF RaisingRk, Kept, Domains
  <2>6. "rk" \in clksel' /\ "40bus" \notin gated' /\ Con40 \cap reset' = {} /\ "41bus" \notin gated'
        /\ Con41 \cap reset' = {}
    BY <1>1, <1>9, <2>2, Wiring DEF RaisingRk
  <2>7. RaisingRk(8)'
    BY <1>1, <1>9, <2>2, <2>4, <2>5, <2>6 DEF RaisingRk, Inside, Went
  <2> QED BY <2>2, <2>7 DEF CInv, Place
<1>10. CASE n = 8
  <2>1. Head(mx.prog) = On("RKVDEC1") /\ Tail(mx.prog) = Suffix(RaiseClusterProg, 9) /\ Cont(Tail(mx.prog))
    BY <1>1, <1>2, <1>10, RaiseClusterOps
  <2>2. "RKVDEC1" \in Domains /\ (faults = 0 => BusAlive("RKVDEC1", on \cup {"RKVDEC1"}))
    <3>1. BusOf("RKVDEC1") \cap (gated \cup reset) = {} /\ ParentsUp
      BY <1>10, Wiring DEF RaisingRk
    <3> QED BY <1>1, <3>1, Alive DEF BaseInv, Domains
  <2>3. /\ BaseInv' /\ (\A e \in Domains \ {"RKVDEC1"} : Kept(e)) /\ UNCHANGED <<refs, gated, reset, clksel>>
        /\ \/ Went(Suffix(RaiseClusterProg, 9), TRUE) /\ Up("RKVDEC1")' /\ "RKVDEC1" \in on' /\ "RKVDEC1" \in pwr'
           \/ Went(Suffix(UndoRk, 1), FALSE) /\ faults' > 0 /\ Up("RKVDEC1")'
    BY <1>1, <2>1, <2>2, OnStep, Undoing
  <2>4. CASE Went(Suffix(RaiseClusterProg, 9), TRUE) /\ Up("RKVDEC1")' /\ "RKVDEC1" \in on' /\ "RKVDEC1" \in pwr'
    <3>3. ParentsFrame /\ Av1Frame
      BY <2>3, <2>4, FramesOf, Wiring DEF SameBit, Went, Domains
    <3>4. ParentsUp' /\ Av1Ok'
      BY <1>1, <1>10, <2>3, <2>4, <3>3, ParentsFrameKeeps, Av1FrameKeeps DEF RaisingRk
    <3>5. Up("RKVDEC0")' /\ Up("RKVDEC1")'
      BY <1>1, <1>10, <2>3, <2>4 DEF RaisingRk, Kept, Domains
    <3>6. "rk" \in clksel' /\ "40bus" \notin gated' /\ Con40 \cap reset' = {} /\ "41bus" \notin gated'
          /\ Con41 \cap reset' = {}
      BY <1>1, <1>10, <2>3, <2>4, Wiring DEF RaisingRk
    <3>7. RaisingRk(9)'
      BY <1>1, <1>10, <2>3, <2>4, <3>4, <3>5, <3>6 DEF RaisingRk, Inside, Went
    <3> QED BY <2>3, <2>4, <3>7 DEF CInv, Place
  <2>5. CASE Went(Suffix(UndoRk, 1), FALSE) /\ faults' > 0 /\ Up("RKVDEC1")'
    <3>3. ParentsFrame /\ Av1Frame
      BY <2>3, <2>5, FramesOf, Wiring DEF SameBit, Went, Domains
    <3>4. ParentsUp' /\ Av1Ok'
      BY <1>1, <1>10, <2>3, <2>5, <3>3, ParentsFrameKeeps, Av1FrameKeeps DEF RaisingRk
    <3>5. UndoingRk(1)'
      BY <1>1, <1>10, <2>3, <2>5, <3>4 DEF RaisingRk, UndoingRk, Inside, Went
    <3> QED BY <2>3, <2>5, <3>5 DEF CInv, Place
  <2> QED BY <2>3, <2>4, <2>5
<1>11. CASE n = 9
  <2>1. Head(mx.prog) = SetRef("rk", 1) /\ Tail(mx.prog) = << >>
    BY <1>1, <1>2, <1>11, RaiseClusterOps, RaiseClusterAt
  <2>2. mx.t \in Clients /\ RefOf(mx.t) = "rk" /\ refs.rk = 1 - 1 /\ 1 # 0
    BY <1>1 DEF Clients, RefOf
  <2>3. /\ BaseInv' /\ (\A e \in Domains : Kept(e)) /\ UNCHANGED <<gated, reset, clksel>>
        /\ Went(<< >>, TRUE) /\ Counts(1, refs.av1, refs.par)
    BY <1>1, <2>1, <2>2, SetRefStep
  <2>4. refs'.rk = 1 /\ refs'.av1 = refs.av1 /\ refs'.par = refs.par /\ refs.par = 1 + Bit(refs.av1 > 0)
    BY <1>11, <2>3 DEF Counts, RaisingRk
  <2>5. ParentsFrame /\ Av1Frame
    BY <2>3, FramesOf, Wiring DEF SameBit, Went, Domains
  <2>6. ParentsUp' /\ Av1Ok'
    BY <1>1, <1>11, <2>4, <2>5, ParentsFrameKeeps, Av1FrameKeeps DEF RaisingRk
  <2>7. Up("RKVDEC0")' /\ Up("RKVDEC1")'
    BY <1>11, <2>3 DEF RaisingRk, Kept, Domains
  <2>11. quiet' = {}
    <3>1. \A c \in quiet : c \in Rvds /\ c \in Clients /\ Holds(c)
      BY <1>1 DEF BaseInv, CtlInv, Holds, Clients
    <3>2. quiet = {}
      BY <3>1, <2>2, Holding
    <3> QED BY <3>2 DEF Step, jobVars
  <2>8. CoreUp("rvd0")' /\ CoreUp("rvd1")' /\ "rk" \in clksel'
    BY <1>11, <2>3, <2>7, <2>11, Wiring DEF RaisingRk, CoreUp
  <2>9. refs'.par = Bit(refs'.rk > 0) + Bit(refs'.av1 > 0) /\ refs'.par > 0
    BY <2>4 DEF Bit
  <2>10. Resting'
    BY <2>3, <2>4, <2>6, <2>8, <2>9 DEF Resting, ParentsOk, RkOk, Went
  <2> QED BY <2>3, <2>10 DEF CInv, Place
<1> QED BY <1>3, <1>4, <1>5, <1>6, <1>7, <1>8, <1>9, <1>10, <1>11

LEMMA UndoingRkStep ==
    ASSUME CInv, Step, NEW n \in 1 .. 6, UndoingRk(n)
    PROVE  CInv'
<1>1. /\ BaseInv /\ mx.prog = Suffix(UndoRk, n) /\ mx.t \in Rvds /\ call[mx.t] = "Raise" /\ mx.ok = FALSE
      /\ refs.rk = 0 /\ refs.par = 1 + Bit(refs.av1 > 0) /\ ParentsUp /\ Av1Ok
  BY DEF CInv, UndoingRk, Inside
<1>2. /\ Head(mx.prog) = UndoRk[n] /\ Tail(mx.prog) = Suffix(UndoRk, n + 1)
      /\ n < 6 => Cont(Tail(mx.prog))
  <2>1. /\ Head(mx.prog) = UndoRk[n] /\ Tail(mx.prog) = Suffix(UndoRk, n + 1)
        /\ n < 6 => Suffix(UndoRk, n + 1) # << >>
    BY <1>1, UndoRkAt
  <2> QED BY <2>1, Zenon DEF Cont
<1>3. CASE n = 1
  <2>1. Head(mx.prog) = Assert(Con41) /\ Tail(mx.prog) = Suffix(UndoRk, 2) /\ Cont(Tail(mx.prog))
    BY <1>1, <1>2, <1>3, UndoRkOps
  <2>2. /\ BaseInv' /\ (\A e \in Domains : Kept(e)) /\ UNCHANGED <<refs, gated, clksel>>
        /\ Went(Suffix(UndoRk, 2), FALSE) /\ reset' = reset \cup Con41
    BY <1>1, <2>1, AssertStep
  <2>3. ParentsFrame /\ Av1Frame
    BY <2>2, FramesOf, Wiring DEF SameBit, Went, Domains
  <2>4. ParentsUp' /\ Av1Ok'
    BY <1>1, <1>3, <2>2, <2>3, ParentsFrameKeeps, Av1FrameKeeps DEF UndoingRk
  <2>5. Con41 \subseteq reset'
    BY <1>1, <1>3, <2>2, Wiring DEF UndoingRk
  <2>6. UndoingRk(2)'
    BY <1>1, <1>3, <2>2, <2>4, <2>5 DEF UndoingRk, Inside, Went
  <2> QED BY <2>2, <2>6 DEF CInv, Place
<1>4. CASE n = 2
  <2>1. Head(mx.prog) = Gate(Con41) /\ Tail(mx.prog) = Suffix(UndoRk, 3) /\ Cont(Tail(mx.prog))
    BY <1>1, <1>2, <1>4, UndoRkOps
  <2>2. /\ BaseInv' /\ (\A e \in Domains : Kept(e)) /\ UNCHANGED <<refs, reset, clksel>>
        /\ Went(Suffix(UndoRk, 3), FALSE) /\ gated' = gated \cup Con41
    BY <1>1, <2>1, GateStep
  <2>3. ParentsFrame /\ Av1Frame
    BY <2>2, FramesOf, Wiring DEF SameBit, Went, Domains
  <2>4. ParentsUp' /\ Av1Ok'
    BY <1>1, <1>4, <2>2, <2>3, ParentsFrameKeeps, Av1FrameKeeps DEF UndoingRk
  <2>5. Con41 \subseteq reset' /\ Con41 \subseteq gated'
    BY <1>1, <1>4, <2>2, Wiring DEF UndoingRk
  <2>6. UndoingRk(3)'
    BY <1>1, <1>4, <2>2, <2>4, <2>5 DEF UndoingRk, Inside, Went
  <2> QED BY <2>2, <2>6 DEF CInv, Place
<1>5. CASE n = 3
  <2>1. Head(mx.prog) = Off("RKVDEC0") /\ Tail(mx.prog) = Suffix(UndoRk, 4) /\ Cont(Tail(mx.prog))
    BY <1>1, <1>2, <1>5, UndoRkOps
  <2>0. faults # 0
    BY <1>1 DEF BaseInv, FaultInv
  <2>2. /\ BaseInv' /\ (\A e \in Domains \ {"RKVDEC0"} : Kept(e)) /\ UNCHANGED <<refs, gated, reset, clksel>>
        /\ Went(Suffix(UndoRk, 4), FALSE) /\ Released("RKVDEC0")'
    <3>1. "RKVDEC0" \in Domains
      BY DEF Domains
    <3> QED BY <1>1, <2>0, <2>1, <3>1, OffStep
  <2>3. ParentsFrame /\ Av1Frame
    BY <2>2, FramesOf, Wiring DEF SameBit, Went, Domains
  <2>4. ParentsUp' /\ Av1Ok'
    BY <1>1, <1>5, <2>2, <2>3, ParentsFrameKeeps, Av1FrameKeeps DEF UndoingRk
  <2>5. Con41 \subseteq reset' /\ Con41 \subseteq gated'
    BY <1>1, <1>5, <2>2, Wiring DEF UndoingRk
  <2>6. UndoingRk(4)'
    BY <1>1, <1>5, <2>2, <2>4, <2>5 DEF UndoingRk, Inside, Went
  <2> QED BY <2>2, <2>6 DEF CInv, Place
<1>6. CASE n = 4
  <2>1. Head(mx.prog) = Assert(Con40) /\ Tail(mx.prog) = Suffix(UndoRk, 5) /\ Cont(Tail(mx.prog))
    BY <1>1, <1>2, <1>6, UndoRkOps
  <2>2. /\ BaseInv' /\ (\A e \in Domains : Kept(e)) /\ UNCHANGED <<refs, gated, clksel>>
        /\ Went(Suffix(UndoRk, 5), FALSE) /\ reset' = reset \cup Con40
    BY <1>1, <2>1, AssertStep
  <2>3. ParentsFrame /\ Av1Frame
    BY <2>2, FramesOf, Wiring DEF SameBit, Went, Domains
  <2>4. ParentsUp' /\ Av1Ok'
    BY <1>1, <1>6, <2>2, <2>3, ParentsFrameKeeps, Av1FrameKeeps DEF UndoingRk
  <2>5. Con41 \subseteq reset' /\ Con41 \subseteq gated' /\ Con40 \subseteq reset'
    BY <1>1, <1>6, <2>2, Wiring DEF UndoingRk
  <2>6. UndoingRk(5)'
    BY <1>1, <1>6, <2>2, <2>4, <2>5 DEF UndoingRk, Inside, Went
  <2> QED BY <2>2, <2>6 DEF CInv, Place
<1>7. CASE n = 5
  <2>1. Head(mx.prog) = Gate(Con40) /\ Tail(mx.prog) = Suffix(UndoRk, 6) /\ Cont(Tail(mx.prog))
    BY <1>1, <1>2, <1>7, UndoRkOps
  <2>2. /\ BaseInv' /\ (\A e \in Domains : Kept(e)) /\ UNCHANGED <<refs, reset, clksel>>
        /\ Went(Suffix(UndoRk, 6), FALSE) /\ gated' = gated \cup Con40
    BY <1>1, <2>1, GateStep
  <2>3. ParentsFrame /\ Av1Frame
    BY <2>2, FramesOf, Wiring DEF SameBit, Went, Domains
  <2>4. ParentsUp' /\ Av1Ok'
    BY <1>1, <1>7, <2>2, <2>3, ParentsFrameKeeps, Av1FrameKeeps DEF UndoingRk
  <2>5. Con41 \subseteq reset' /\ Con41 \subseteq gated' /\ Con40 \subseteq reset'
        /\ Con40 \subseteq gated'
    BY <1>1, <1>7, <2>2, Wiring DEF UndoingRk
  <2>6. UndoingRk(6)'
    BY <1>1, <1>7, <2>2, <2>4, <2>5 DEF UndoingRk, Inside, Went
  <2> QED BY <2>2, <2>6 DEF CInv, Place
<1>8. CASE n = 6
  <2>1. Head(mx.prog) = DropParents /\ Tail(mx.prog) = << >>
    BY <1>1, <1>2, <1>8, UndoRkOps, UndoRkAt
  <2>2. /\ PmuInv' /\ FaultInv' /\ CtlInv' /\ (\A e \in Domains : Kept(e)) /\ UNCHANGED <<gated, reset, clksel>>
        /\ Counts(refs.rk, refs.av1, refs'.par) /\ refs'.par = refs.par - 1
        /\ Went(IF refs.par = 1 THEN DropParentsProg \o << >> ELSE << >>, FALSE)
        /\ \A p : Went(p, FALSE) /\ Cont(p) => CountInv'
    BY <1>1, <2>1, RefsStep
  <2>3. refs.par = 1 + Bit(refs.av1 > 0) /\ refs.av1 \in Nat /\ ParentsUp
    <3>1. refs.av1 \in Nat
      BY <1>1 DEF BaseInv, CountInv, Bit
    <3> QED BY <1>1, <1>8, <3>1 DEF UndoingRk
  <2>4. refs'.rk = refs.rk /\ refs'.av1 = refs.av1 /\ refs'.par = Bit(refs.av1 > 0)
    BY <2>2, <2>3 DEF Counts, Bit
  <2>5. ParentsFrame /\ Av1Frame /\ RkFrame
    BY <2>2, FramesOf, Wiring DEF SameBit, Went, Domains
  <2>6. ParentsUp'
    BY <2>3, <2>5, ParentsFrameKeeps
  <2>7. RkCold
    BY <1>1, <1>8 DEF UndoingRk, RkCold, Released, BaseInv, FaultInv
  <2>8. CASE refs.par = 1
    <3>1. refs.av1 = 0 /\ refs'.par = 0
      BY <2>3, <2>4, <2>8 DEF Bit
    <3>2. Went(Then(DropParentsProg, 1, << >>), FALSE) /\ CountInv'
      <4>1. DropParentsProg \o << >> = Then(DropParentsProg, 1, << >>) /\ DropParentsProg \o << >> # << >>
        BY TailsTyped, Spliced
      <4> QED BY <2>2, <2>8, <4>1 DEF Cont
    <3>3. RkCold'
      BY <1>1, <2>5, <2>7, <3>1, RkFrameKeeps
    <3>4. ParentsDropping(1)'
      BY <2>6, <3>1, <3>3 DEF ParentsDropping
    <3>5. DroppingParents(1)'
      BY <1>1, <2>4, <3>1, <3>2, <3>4 DEF DroppingParents, Inside, Went, Clients
    <3> QED BY <2>2, <3>2, <3>5 DEF CInv, BaseInv, Place
  <2>9. CASE refs.par # 1
    <3>0. Cont(<< >>)
      BY <1>1 DEF Cont
    <3>1. Went(<< >>, FALSE) /\ CountInv'
      BY <2>2, <2>9, <3>0
    <3>2. refs'.par = 1 /\ refs.av1 > 0
      BY <2>3, <2>4, <2>9 DEF Bit
    <3>3. RkCold' /\ Av1Ok'
      BY <1>1, <2>4, <2>5, <2>7, RkFrameKeeps, Av1FrameKeeps
    <3>4. Resting'
      BY <1>1, <2>4, <2>6, <3>1, <3>2, <3>3 DEF Resting, ParentsOk, RkOk, Went, Bit
    <3> QED BY <2>2, <3>1, <3>4 DEF CInv, BaseInv, Place
  <2> QED BY <2>8, <2>9
<1> QED BY <1>3, <1>4, <1>5, <1>6, <1>7, <1>8

LEMMA DroppingRkStep ==
    ASSUME CInv, Step, NEW n \in 1 .. 8, DroppingRk(n)
    PROVE  CInv'
<1>1. /\ BaseInv /\ mx.prog = Suffix(DropClusterProg, n) /\ mx.t \in Rvds /\ call[mx.t] = "Drop" /\ mx.ok = TRUE
      /\ refs.rk = 1 /\ Av1Ok
  BY DEF CInv, DroppingRk, Inside
<1>2. /\ Head(mx.prog) = DropClusterProg[n] /\ Tail(mx.prog) = Suffix(DropClusterProg, n + 1)
      /\ n < 8 => Cont(Tail(mx.prog))
  <2>1. /\ Head(mx.prog) = DropClusterProg[n] /\ Tail(mx.prog) = Suffix(DropClusterProg, n + 1)
        /\ n < 8 => Suffix(DropClusterProg, n + 1) # << >>
    BY <1>1, DropClusterAt
  <2> QED BY <2>1, Zenon DEF Cont
<1>3. CASE n = 1
  <2>1. Head(mx.prog) = Off("RKVDEC1") /\ Tail(mx.prog) = Suffix(DropClusterProg, 2) /\ Cont(Tail(mx.prog))
    BY <1>1, <1>2, <1>3, DropClusterOps
  <2>0. faults = 0 => BusAlive("RKVDEC1", on)
    <3>1. BusOf("RKVDEC1") \cap (gated \cup reset) = {} /\ ParentsUp /\ Up("RKVDEC1")
      BY <1>3, Wiring DEF DroppingRk
    <3>2. faults = 0 => "RKVDEC1" \in on
      BY <1>1, <3>1 DEF BaseInv, FaultInv, Up
    <3> QED BY <1>1, <3>1, <3>2, Alive DEF BaseInv
  <2>2. /\ BaseInv' /\ (\A e \in Domains \ {"RKVDEC1"} : Kept(e)) /\ UNCHANGED <<refs, gated, reset, clksel>>
        /\ Went(Suffix(DropClusterProg, 2), TRUE) /\ Released("RKVDEC1")'
    <3>1. "RKVDEC1" \in Domains
      BY DEF Domains
    <3> QED BY <1>1, <2>0, <2>1, <3>1, OffStep
  <2>3. ParentsFrame /\ Av1Frame
    BY <2>2, FramesOf, Wiring DEF SameBit, Went, Domains
  <2>4. ParentsUp' /\ Av1Ok'
    BY <1>1, <1>3, <2>2, <2>3, ParentsFrameKeeps, Av1FrameKeeps DEF DroppingRk
  <2>5. Released("RKVDEC1")' /\ Up("RKVDEC0")'
    BY <1>1, <1>3, <2>2 DEF DroppingRk, Kept, Domains
  <2>6. {"40bus"} \cap (gated' \cup reset') = {}
    BY <1>1, <1>3, <2>2, Wiring DEF DroppingRk
  <2>7. DroppingRk(2)'
    BY <1>1, <1>3, <2>2, <2>4, <2>5, <2>6 DEF DroppingRk, Inside, Went
  <2> QED BY <2>2, <2>7 DEF CInv, Place
<1>4. CASE n = 2
  <2>1. Head(mx.prog) = Off("RKVDEC0") /\ Tail(mx.prog) = Suffix(DropClusterProg, 3) /\ Cont(Tail(mx.prog))
    BY <1>1, <1>2, <1>4, DropClusterOps
  <2>0. faults = 0 => BusAlive("RKVDEC0", on)
    <3>1. BusOf("RKVDEC0") \cap (gated \cup reset) = {} /\ ParentsUp /\ Up("RKVDEC0")
      BY <1>4, Wiring DEF DroppingRk
    <3>2. faults = 0 => "RKVDEC0" \in on
      BY <1>1, <3>1 DEF BaseInv, FaultInv, Up
    <3> QED BY <1>1, <3>1, <3>2, Alive DEF BaseInv
  <2>2. /\ BaseInv' /\ (\A e \in Domains \ {"RKVDEC0"} : Kept(e)) /\ UNCHANGED <<refs, gated, reset, clksel>>
        /\ Went(Suffix(DropClusterProg, 3), TRUE) /\ Released("RKVDEC0")'
    <3>1. "RKVDEC0" \in Domains
      BY DEF Domains
    <3> QED BY <1>1, <2>0, <2>1, <3>1, OffStep
  <2>3. ParentsFrame /\ Av1Frame
    BY <2>2, FramesOf, Wiring DEF SameBit, Went, Domains
  <2>4. ParentsUp' /\ Av1Ok'
    BY <1>1, <1>4, <2>2, <2>3, ParentsFrameKeeps, Av1FrameKeeps DEF DroppingRk
  <2>5. Released("RKVDEC1")' /\ Released("RKVDEC0")'
    BY <1>1, <1>4, <2>2 DEF DroppingRk, Kept, Domains
  <2>6. DroppingRk(3)'
    BY <1>1, <1>4, <2>2, <2>4, <2>5 DEF DroppingRk, Inside, Went
  <2> QED BY <2>2, <2>6 DEF CInv, Place
<1>5. CASE n = 3
  <2>1. Head(mx.prog) = Assert(Con40) /\ Tail(mx.prog) = Suffix(DropClusterProg, 4) /\ Cont(Tail(mx.prog))
    BY <1>1, <1>2, <1>5, DropClusterOps
  <2>2. /\ BaseInv' /\ (\A e \in Domains : Kept(e)) /\ UNCHANGED <<refs, gated, clksel>>
        /\ Went(Suffix(DropClusterProg, 4), TRUE) /\ reset' = reset \cup Con40
    BY <1>1, <2>1, AssertStep
  <2>3. ParentsFrame /\ Av1Frame
    BY <2>2, FramesOf, Wiring DEF SameBit, Went, Domains
  <2>4. ParentsUp' /\ Av1Ok'
    BY <1>1, <1>5, <2>2, <2>3, ParentsFrameKeeps, Av1FrameKeeps DEF DroppingRk
  <2>5. Released("RKVDEC1")' /\ Released("RKVDEC0")'
    BY <1>1, <1>5, <2>2 DEF DroppingRk, Kept, Domains
  <2>6. Con40 \subseteq reset'
    BY <1>1, <1>5, <2>2, Wiring DEF DroppingRk
  <2>7. DroppingRk(4)'
    BY <1>1, <1>5, <2>2, <2>4, <2>5, <2>6 DEF DroppingRk, Inside, Went
  <2> QED BY <2>2, <2>7 DEF CInv, Place
<1>6. CASE n = 4
  <2>1. Head(mx.prog) = Assert(Con41) /\ Tail(mx.prog) = Suffix(DropClusterProg, 5) /\ Cont(Tail(mx.prog))
    BY <1>1, <1>2, <1>6, DropClusterOps
  <2>2. /\ BaseInv' /\ (\A e \in Domains : Kept(e)) /\ UNCHANGED <<refs, gated, clksel>>
        /\ Went(Suffix(DropClusterProg, 5), TRUE) /\ reset' = reset \cup Con41
    BY <1>1, <2>1, AssertStep
  <2>3. ParentsFrame /\ Av1Frame
    BY <2>2, FramesOf, Wiring DEF SameBit, Went, Domains
  <2>4. ParentsUp' /\ Av1Ok'
    BY <1>1, <1>6, <2>2, <2>3, ParentsFrameKeeps, Av1FrameKeeps DEF DroppingRk
  <2>5. Released("RKVDEC1")' /\ Released("RKVDEC0")'
    BY <1>1, <1>6, <2>2 DEF DroppingRk, Kept, Domains
  <2>6. Con40 \subseteq reset' /\ Con41 \subseteq reset'
    BY <1>1, <1>6, <2>2, Wiring DEF DroppingRk
  <2>7. DroppingRk(5)'
    BY <1>1, <1>6, <2>2, <2>4, <2>5, <2>6 DEF DroppingRk, Inside, Went
  <2> QED BY <2>2, <2>7 DEF CInv, Place
<1>7. CASE n = 5
  <2>1. Head(mx.prog) = Gate(Con41) /\ Tail(mx.prog) = Suffix(DropClusterProg, 6) /\ Cont(Tail(mx.prog))
    BY <1>1, <1>2, <1>7, DropClusterOps
  <2>2. /\ BaseInv' /\ (\A e \in Domains : Kept(e)) /\ UNCHANGED <<refs, reset, clksel>>
        /\ Went(Suffix(DropClusterProg, 6), TRUE) /\ gated' = gated \cup Con41
    BY <1>1, <2>1, GateStep
  <2>3. ParentsFrame /\ Av1Frame
    BY <2>2, FramesOf, Wiring DEF SameBit, Went, Domains
  <2>4. ParentsUp' /\ Av1Ok'
    BY <1>1, <1>7, <2>2, <2>3, ParentsFrameKeeps, Av1FrameKeeps DEF DroppingRk
  <2>5. Released("RKVDEC1")' /\ Released("RKVDEC0")'
    BY <1>1, <1>7, <2>2 DEF DroppingRk, Kept, Domains
  <2>6. Con40 \subseteq reset' /\ Con41 \subseteq reset' /\ Con41 \subseteq gated'
    BY <1>1, <1>7, <2>2, Wiring DEF DroppingRk
  <2>7. DroppingRk(6)'
    BY <1>1, <1>7, <2>2, <2>4, <2>5, <2>6 DEF DroppingRk, Inside, Went
  <2> QED BY <2>2, <2>7 DEF CInv, Place
<1>8. CASE n = 6
  <2>1. Head(mx.prog) = Gate(Con40) /\ Tail(mx.prog) = Suffix(DropClusterProg, 7) /\ Cont(Tail(mx.prog))
    BY <1>1, <1>2, <1>8, DropClusterOps
  <2>2. /\ BaseInv' /\ (\A e \in Domains : Kept(e)) /\ UNCHANGED <<refs, reset, clksel>>
        /\ Went(Suffix(DropClusterProg, 7), TRUE) /\ gated' = gated \cup Con40
    BY <1>1, <2>1, GateStep
  <2>3. ParentsFrame /\ Av1Frame
    BY <2>2, FramesOf, Wiring DEF SameBit, Went, Domains
  <2>4. ParentsUp' /\ Av1Ok'
    BY <1>1, <1>8, <2>2, <2>3, ParentsFrameKeeps, Av1FrameKeeps DEF DroppingRk
  <2>5. Released("RKVDEC1")' /\ Released("RKVDEC0")'
    BY <1>1, <1>8, <2>2 DEF DroppingRk, Kept, Domains
  <2>6. Con40 \subseteq reset' /\ Con41 \subseteq reset' /\ Con41 \subseteq gated'
        /\ Con40 \subseteq gated'
    BY <1>1, <1>8, <2>2, Wiring DEF DroppingRk
  <2>7. DroppingRk(7)'
    BY <1>1, <1>8, <2>2, <2>4, <2>5, <2>6 DEF DroppingRk, Inside, Went
  <2> QED BY <2>2, <2>7 DEF CInv, Place
<1>9. CASE n = 7
  <2>1. Head(mx.prog) = DropParents /\ Tail(mx.prog) = Suffix(DropClusterProg, 8)
    BY <1>1, <1>2, <1>9, DropClusterOps
  <2>2. /\ PmuInv' /\ FaultInv' /\ CtlInv' /\ (\A e \in Domains : Kept(e)) /\ UNCHANGED <<gated, reset, clksel>>
        /\ Counts(refs.rk, refs.av1, refs'.par) /\ refs'.par = refs.par - 1
        /\ Went(IF refs.par = 1 THEN DropParentsProg \o Suffix(DropClusterProg, 8) ELSE Suffix(DropClusterProg, 8), TRUE)
        /\ \A p : Went(p, TRUE) /\ Cont(p) => CountInv'
    BY <1>1, <2>1, RefsStep
  <2>3. refs.par = 1 + Bit(refs.av1 > 0) /\ refs.av1 \in Nat /\ ParentsUp
    <3>1. refs.av1 \in Nat
      BY <1>1 DEF BaseInv, CountInv, Bit
    <3> QED BY <1>1, <1>9, <3>1 DEF DroppingRk
  <2>4. refs'.rk = refs.rk /\ refs'.av1 = refs.av1 /\ refs'.par = Bit(refs.av1 > 0)
    BY <2>2, <2>3 DEF Counts, Bit
  <2>5. ParentsFrame /\ Av1Frame /\ RkFrame
    BY <2>2, FramesOf, Wiring DEF SameBit, Went, Domains
  <2>6. ParentsUp'
    BY <2>3, <2>5, ParentsFrameKeeps
  <2>7. RkCold
    BY <1>9 DEF DroppingRk, RkCold
  <2>8. CASE refs.par = 1
    <3>1. refs.av1 = 0 /\ refs'.par = 0
      BY <2>3, <2>4, <2>8 DEF Bit
    <3>2. Went(Then(DropParentsProg, 1, Suffix(DropClusterProg, 8)), TRUE) /\ CountInv'
      <4>1. DropParentsProg \o Suffix(DropClusterProg, 8) = Then(DropParentsProg, 1, Suffix(DropClusterProg, 8)) /\ DropParentsProg \o Suffix(DropClusterProg, 8) # << >>
        BY TailsTyped, Spliced
      <4> QED BY <2>2, <2>8, <4>1 DEF Cont
    <3>3. RkCold'
      BY <1>1, <2>5, <2>7, <3>1, RkFrameKeeps
    <3>4. ParentsDropping(1)'
      BY <2>6, <3>1, <3>3 DEF ParentsDropping
    <3>5. DroppingParents(1)'
      BY <1>1, <2>4, <3>1, <3>2, <3>4 DEF DroppingParents, Inside, Went, Clients
    <3> QED BY <2>2, <3>2, <3>5 DEF CInv, BaseInv, Place
  <2>9. CASE refs.par # 1
    <3>0. Cont(Suffix(DropClusterProg, 8))
      <4>1. Cont(Tail(mx.prog))
        BY <1>2, <1>9
      <4> QED BY <2>1, <4>1, Zenon
    <3>1. Went(Suffix(DropClusterProg, 8), TRUE) /\ CountInv'
      BY <2>2, <2>9, <3>0
    <3>2. refs'.par = 1 /\ refs.av1 > 0
      BY <2>3, <2>4, <2>9 DEF Bit
    <3>3. RkCold' /\ Av1Ok'
      BY <1>1, <2>4, <2>5, <2>7, RkFrameKeeps, Av1FrameKeeps
    <3>4. DroppingRk(8)'
      BY <1>1, <2>4, <2>6, <3>1, <3>2, <3>3 DEF DroppingRk, ParentsOk, RkCold, Inside, Went, Bit
    <3> QED BY <2>2, <3>1, <3>4 DEF CInv, BaseInv, Place
  <2> QED BY <2>8, <2>9
<1>10. CASE n = 8
  <2>1. Head(mx.prog) = SetRef("rk", 0) /\ Tail(mx.prog) = << >>
    BY <1>1, <1>2, <1>10, DropClusterOps, DropClusterAt
  <2>2. mx.t \in Clients /\ RefOf(mx.t) = "rk" /\ refs.rk = 1 - 0 /\ 1 # 0
    BY <1>1 DEF Clients, RefOf
  <2>3. /\ BaseInv' /\ (\A e \in Domains : Kept(e)) /\ UNCHANGED <<gated, reset, clksel>>
        /\ Went(<< >>, TRUE) /\ Counts(0, refs.av1, refs.par)
    BY <1>1, <2>1, <2>2, SetRefStep
  <2>4. refs'.rk = 0 /\ refs'.av1 = refs.av1 /\ refs'.par = refs.par /\ refs.par = Bit(refs.av1 > 0)
    BY <1>10, <2>3 DEF Counts, DroppingRk
  <2>5. ParentsFrame /\ Av1Frame /\ RkFrame
    BY <2>3, FramesOf, Wiring DEF SameBit, Went, Domains
  <2>6. ParentsOk /\ RkCold
    BY <1>10 DEF DroppingRk, RkCold
  <2>7. ParentsOk' /\ Av1Ok' /\ RkCold'
    BY <1>1, <2>4, <2>5, <2>6, ParentsFrameKeeps, Av1FrameKeeps, RkFrameKeeps
  <2>8. refs'.par = Bit(refs'.rk > 0) + Bit(refs'.av1 > 0)
    BY <2>4 DEF Bit
  <2>9. Resting'
    BY <2>3, <2>4, <2>7, <2>8 DEF Resting, RkOk, Went
  <2> QED BY <2>3, <2>9 DEF CInv, Place
<1> QED BY <1>3, <1>4, <1>5, <1>6, <1>7, <1>8, <1>9, <1>10

LEMMA RaisingAv1Step ==
    ASSUME CInv, Step, NEW n \in 1 .. 6, RaisingAv1(n)
    PROVE  CInv'
<1>1. /\ BaseInv /\ mx.prog = Suffix(RaiseAv1Prog, n) /\ mx.t \in {"av1"} /\ call[mx.t] = "Raise" /\ mx.ok = TRUE
      /\ refs.av1 = 0 /\ RkOk
  BY DEF CInv, RaisingAv1, Inside
<1>2. /\ Head(mx.prog) = RaiseAv1Prog[n] /\ Tail(mx.prog) = Suffix(RaiseAv1Prog, n + 1)
      /\ n < 6 => Cont(Tail(mx.prog))
  <2>1. /\ Head(mx.prog) = RaiseAv1Prog[n] /\ Tail(mx.prog) = Suffix(RaiseAv1Prog, n + 1)
        /\ n < 6 => Suffix(RaiseAv1Prog, n + 1) # << >>
    BY <1>1, RaiseAv1At
  <2> QED BY <2>1, Zenon DEF Cont
<1>3. CASE n = 1
  <2>1. Head(mx.prog) = RaiseParents /\ Tail(mx.prog) = Suffix(RaiseAv1Prog, 2) /\ Cont(Tail(mx.prog))
    BY <1>1, <1>2, <1>3, RaiseAv1Ops
  <2>2. /\ PmuInv' /\ FaultInv' /\ CtlInv' /\ (\A e \in Domains : Kept(e)) /\ UNCHANGED <<gated, reset, clksel>>
        /\ Counts(refs.rk, refs.av1, refs'.par) /\ refs'.par = refs.par + 1
        /\ Went(IF refs.par = 0 THEN RaiseParentsProg \o Suffix(RaiseAv1Prog, 2) ELSE Suffix(RaiseAv1Prog, 2), TRUE)
        /\ \A p : Went(p, TRUE) /\ Cont(p) => CountInv'
    BY <1>1, <2>1, RefsStep
  <2>3. refs.par = Bit(refs.rk > 0) /\ ParentsOk /\ refs.par \in {0, 1} /\ (refs.par = 0 => refs.rk = 0)
    <3>1. refs.par = Bit(refs.rk > 0) /\ ParentsOk
      BY <1>3 DEF RaisingAv1
    <3>2. refs.rk \in Nat
      BY <1>1 DEF BaseInv, CountInv, Bit
    <3> QED BY <3>1, <3>2 DEF Bit
  <2>4. refs'.av1 = 0 /\ refs'.rk = refs.rk /\ refs' = [rk |-> refs.rk, av1 |-> 0, par |-> refs.par + 1]
    BY <1>1, <2>2 DEF Counts
  <2>5. ParentsFrame /\ Av1Frame /\ RkFrame
    BY <2>2, FramesOf, Wiring DEF SameBit, Went, Domains
  <2>6. RkOk'
    BY <1>1, <2>4, <2>5, RkFrameKeeps
  <2>7. CASE refs.par = 0
    <3>2. /\ RaiseParentsProg \o Suffix(RaiseAv1Prog, 2) = Then(RaiseParentsProg, 1, Suffix(RaiseAv1Prog, 2))
          /\ RaiseParentsProg \o Suffix(RaiseAv1Prog, 2) # << >>
      BY TailsTyped, Spliced
    <3>3. Went(RaiseParentsProg \o Suffix(RaiseAv1Prog, 2), TRUE) /\ CountInv'
      BY <2>2, <2>7, <3>2 DEF Cont
    <3>4. "44" \in gated' /\ "44" \in reset'
      BY <2>2, <2>3, <2>7 DEF ParentsOk, ParentsCold
    <3>6. RkCold'
      BY <2>3, <2>4, <2>6, <2>7 DEF RkOk
    <3>5. RaisingParents(1)'
      BY <1>1, <2>3, <2>4, <2>7, <3>2, <3>3, <3>4, <3>6 DEF RaisingParents, ParentsRaising, Inside, Went
    <3> QED BY <2>2, <3>3, <3>5 DEF CInv, BaseInv, Place
  <2>8. CASE refs.par # 0
    <3>1. Went(Suffix(RaiseAv1Prog, 2), TRUE) /\ CountInv'
      BY <2>1, <2>2, <2>8
    <3>2. ParentsUp'
      BY <2>3, <2>5, <2>8, ParentsFrameKeeps DEF ParentsOk
    <3>3. refs'.par = 1 + Bit(refs'.rk > 0)
      BY <2>2, <2>3, <2>4
    <3>4. RaisingAv1(2)'
      BY <1>1, <1>3, <2>2, <2>4, <2>6, <3>1, <3>2, <3>3 DEF RaisingAv1, Inside, Went
    <3> QED BY <2>2, <3>1, <3>4 DEF CInv, BaseInv, Place
  <2> QED BY <2>7, <2>8
<1>4. CASE n = 2
  <2>1. Head(mx.prog) = Clksel("av1") /\ Tail(mx.prog) = Suffix(RaiseAv1Prog, 3) /\ Cont(Tail(mx.prog))
    BY <1>1, <1>2, <1>4, RaiseAv1Ops
  <2>2. /\ BaseInv' /\ (\A e \in Domains : Kept(e)) /\ UNCHANGED <<refs, gated, reset>>
        /\ Went(Suffix(RaiseAv1Prog, 3), TRUE) /\ clksel' = clksel \cup {"av1"}
    BY <1>1, <2>1, ClkselStep
  <2>3. ParentsFrame /\ RkFrame
    BY <2>2, FramesOf, Wiring DEF SameBit, Went, Domains
  <2>4. ParentsUp' /\ RkOk'
    BY <1>1, <1>4, <2>2, <2>3, ParentsFrameKeeps, RkFrameKeeps DEF RaisingAv1
  <2>5. "av1" \in clksel'
    BY <1>1, <1>4, <2>2, Wiring DEF RaisingAv1
  <2>6. RaisingAv1(3)'
    BY <1>1, <1>4, <2>2, <2>4, <2>5 DEF RaisingAv1, Inside, Went
  <2> QED BY <2>2, <2>6 DEF CInv, Place
<1>5. CASE n = 3
  <2>1. Head(mx.prog) = Ungate(Con68) /\ Tail(mx.prog) = Suffix(RaiseAv1Prog, 4) /\ Cont(Tail(mx.prog))
    BY <1>1, <1>2, <1>5, RaiseAv1Ops
  <2>2. /\ BaseInv' /\ (\A e \in Domains : Kept(e)) /\ UNCHANGED <<refs, reset, clksel>>
        /\ Went(Suffix(RaiseAv1Prog, 4), TRUE) /\ gated' = gated \ Con68
    BY <1>1, <2>1, UngateStep
  <2>3. ParentsFrame /\ RkFrame
    BY <2>2, FramesOf, Wiring DEF SameBit, Went, Domains
  <2>4. ParentsUp' /\ RkOk'
    BY <1>1, <1>5, <2>2, <2>3, ParentsFrameKeeps, RkFrameKeeps DEF RaisingAv1
  <2>5. "av1" \in clksel' /\ "68" \notin gated'
    BY <1>1, <1>5, <2>2, Wiring DEF RaisingAv1
  <2>6. RaisingAv1(4)'
    BY <1>1, <1>5, <2>2, <2>4, <2>5 DEF RaisingAv1, Inside, Went
  <2> QED BY <2>2, <2>6 DEF CInv, Place
<1>6. CASE n = 4
  <2>1. Head(mx.prog) = Deassert(Con68) /\ Tail(mx.prog) = Suffix(RaiseAv1Prog, 5) /\ Cont(Tail(mx.prog))
    BY <1>1, <1>2, <1>6, RaiseAv1Ops
  <2>2. /\ BaseInv' /\ (\A e \in Domains : Kept(e)) /\ UNCHANGED <<refs, gated, clksel>>
        /\ Went(Suffix(RaiseAv1Prog, 5), TRUE) /\ reset' = reset \ Con68
    BY <1>1, <2>1, DeassertStep
  <2>3. ParentsFrame /\ RkFrame
    BY <2>2, FramesOf, Wiring DEF SameBit, Went, Domains
  <2>4. ParentsUp' /\ RkOk'
    BY <1>1, <1>6, <2>2, <2>3, ParentsFrameKeeps, RkFrameKeeps DEF RaisingAv1
  <2>5. "av1" \in clksel' /\ "68" \notin gated' /\ "68" \notin reset'
    BY <1>1, <1>6, <2>2, Wiring DEF RaisingAv1
  <2>6. RaisingAv1(5)'
    BY <1>1, <1>6, <2>2, <2>4, <2>5 DEF RaisingAv1, Inside, Went
  <2> QED BY <2>2, <2>6 DEF CInv, Place
<1>7. CASE n = 5
  <2>1. Head(mx.prog) = On("AV1") /\ Tail(mx.prog) = Suffix(RaiseAv1Prog, 6) /\ Cont(Tail(mx.prog))
    BY <1>1, <1>2, <1>7, RaiseAv1Ops
  <2>2. "AV1" \in Domains /\ (faults = 0 => BusAlive("AV1", on \cup {"AV1"}))
    <3>1. BusOf("AV1") \cap (gated \cup reset) = {} /\ ParentsUp
      BY <1>7, Wiring DEF RaisingAv1
    <3> QED BY <1>1, <3>1, Alive DEF BaseInv, Domains
  <2>3. /\ BaseInv' /\ (\A e \in Domains \ {"AV1"} : Kept(e)) /\ UNCHANGED <<refs, gated, reset, clksel>>
        /\ \/ Went(Suffix(RaiseAv1Prog, 6), TRUE) /\ Up("AV1")' /\ "AV1" \in on' /\ "AV1" \in pwr'
           \/ Went(Suffix(UndoAv1, 1), FALSE) /\ faults' > 0 /\ Up("AV1")'
    BY <1>1, <2>1, <2>2, OnStep, Undoing
  <2>4. CASE Went(Suffix(RaiseAv1Prog, 6), TRUE) /\ Up("AV1")' /\ "AV1" \in on' /\ "AV1" \in pwr'
    <3>3. ParentsFrame /\ RkFrame
      BY <2>3, <2>4, FramesOf, Wiring DEF SameBit, Went, Domains
    <3>4. ParentsUp' /\ RkOk'
      BY <1>1, <1>7, <2>3, <2>4, <3>3, ParentsFrameKeeps, RkFrameKeeps DEF RaisingAv1
    <3>5. Up("AV1")'
      BY <1>1, <1>7, <2>3, <2>4 DEF RaisingAv1, Kept, Domains
    <3>6. "AV1" \in on' /\ "AV1" \in pwr' /\ "av1" \in clksel' /\ "68" \notin gated'
          /\ "68" \notin reset'
      BY <1>1, <1>7, <2>3, <2>4, Wiring DEF RaisingAv1
    <3>7. RaisingAv1(6)'
      BY <1>1, <1>7, <2>3, <2>4, <3>4, <3>5, <3>6 DEF RaisingAv1, Inside, Went
    <3> QED BY <2>3, <2>4, <3>7 DEF CInv, Place
  <2>5. CASE Went(Suffix(UndoAv1, 1), FALSE) /\ faults' > 0 /\ Up("AV1")'
    <3>3. ParentsFrame /\ RkFrame
      BY <2>3, <2>5, FramesOf, Wiring DEF SameBit, Went, Domains
    <3>4. ParentsUp' /\ RkOk'
      BY <1>1, <1>7, <2>3, <2>5, <3>3, ParentsFrameKeeps, RkFrameKeeps DEF RaisingAv1
    <3>5. UndoingAv1(1)'
      BY <1>1, <1>7, <2>3, <2>5, <3>4 DEF RaisingAv1, UndoingAv1, Inside, Went
    <3> QED BY <2>3, <2>5, <3>5 DEF CInv, Place
  <2> QED BY <2>3, <2>4, <2>5
<1>8. CASE n = 6
  <2>1. Head(mx.prog) = SetRef("av1", 1) /\ Tail(mx.prog) = << >>
    BY <1>1, <1>2, <1>8, RaiseAv1Ops, RaiseAv1At
  <2>2. mx.t \in Clients /\ RefOf(mx.t) = "av1" /\ refs.av1 = 1 - 1 /\ 1 # 0
    BY <1>1, Wiring DEF Clients
  <2>3. /\ BaseInv' /\ (\A e \in Domains : Kept(e)) /\ UNCHANGED <<gated, reset, clksel>>
        /\ Went(<< >>, TRUE) /\ Counts(refs.rk, 1, refs.par)
    BY <1>1, <2>1, <2>2, SetRefStep
  <2>4. refs'.rk = refs.rk /\ refs'.av1 = 1 /\ refs'.par = refs.par /\ refs.par = 1 + Bit(refs.rk > 0)
    BY <1>8, <2>3 DEF Counts, RaisingAv1
  <2>5. ParentsFrame /\ RkFrame
    BY <2>3, FramesOf, Wiring DEF SameBit, Went, Domains
  <2>6. ParentsUp' /\ RkOk'
    BY <1>1, <1>8, <2>4, <2>5, ParentsFrameKeeps, RkFrameKeeps DEF RaisingAv1
  <2>7. Kept("AV1") /\ Up("AV1") /\ "AV1" \in on /\ "AV1" \in pwr
    BY <1>8, <2>3 DEF RaisingAv1, Domains
  <2>8. Up("AV1")' /\ "AV1" \in on' /\ "AV1" \in pwr'
    BY <2>7 DEF Kept, Untouched
  <2>9. "68" \notin gated' /\ "68" \notin reset' /\ "av1" \in clksel'
    BY <1>8, <2>3 DEF RaisingAv1
  <2>10. Av1Ok'
    BY <2>8, <2>9 DEF Av1Ok, Av1On
  <2>11. refs'.par = Bit(refs'.rk > 0) + Bit(refs'.av1 > 0) /\ refs'.par > 0
    BY <2>4 DEF Bit
  <2>12. Resting'
    BY <2>3, <2>6, <2>10, <2>11 DEF Resting, ParentsOk, Went
  <2> QED BY <2>3, <2>12 DEF CInv, Place
<1> QED BY <1>3, <1>4, <1>5, <1>6, <1>7, <1>8

LEMMA UndoingAv1Step ==
    ASSUME CInv, Step, NEW n \in 1 .. 2, UndoingAv1(n)
    PROVE  CInv'
<1>1. /\ BaseInv /\ mx.prog = Suffix(UndoAv1, n) /\ mx.t \in {"av1"} /\ call[mx.t] = "Raise" /\ mx.ok = FALSE
      /\ refs.av1 = 0 /\ refs.par = 1 + Bit(refs.rk > 0) /\ ParentsUp /\ RkOk
  BY DEF CInv, UndoingAv1, Inside
<1>2. /\ Head(mx.prog) = UndoAv1[n] /\ Tail(mx.prog) = Suffix(UndoAv1, n + 1)
      /\ n < 2 => Cont(Tail(mx.prog))
  <2>1. /\ Head(mx.prog) = UndoAv1[n] /\ Tail(mx.prog) = Suffix(UndoAv1, n + 1)
        /\ n < 2 => Suffix(UndoAv1, n + 1) # << >>
    BY <1>1, UndoAv1At
  <2> QED BY <2>1, Zenon DEF Cont
<1>3. CASE n = 1
  <2>1. Head(mx.prog) = Gate(Con68) /\ Tail(mx.prog) = Suffix(UndoAv1, 2) /\ Cont(Tail(mx.prog))
    BY <1>1, <1>2, <1>3, UndoAv1Ops
  <2>2. /\ BaseInv' /\ (\A e \in Domains : Kept(e)) /\ UNCHANGED <<refs, reset, clksel>>
        /\ Went(Suffix(UndoAv1, 2), FALSE) /\ gated' = gated \cup Con68
    BY <1>1, <2>1, GateStep
  <2>3. ParentsFrame /\ RkFrame
    BY <2>2, FramesOf, Wiring DEF SameBit, Went, Domains
  <2>4. ParentsUp' /\ RkOk'
    BY <1>1, <1>3, <2>2, <2>3, ParentsFrameKeeps, RkFrameKeeps DEF UndoingAv1
  <2>5. UndoingAv1(2)'
    BY <1>1, <1>3, <2>2, <2>4 DEF UndoingAv1, Inside, Went
  <2> QED BY <2>2, <2>5 DEF CInv, Place
<1>4. CASE n = 2
  <2>1. Head(mx.prog) = DropParents /\ Tail(mx.prog) = << >>
    BY <1>1, <1>2, <1>4, UndoAv1Ops, UndoAv1At
  <2>2. /\ PmuInv' /\ FaultInv' /\ CtlInv' /\ (\A e \in Domains : Kept(e)) /\ UNCHANGED <<gated, reset, clksel>>
        /\ Counts(refs.rk, refs.av1, refs'.par) /\ refs'.par = refs.par - 1
        /\ Went(IF refs.par = 1 THEN DropParentsProg \o << >> ELSE << >>, FALSE)
        /\ \A p : Went(p, FALSE) /\ Cont(p) => CountInv'
    BY <1>1, <2>1, RefsStep
  <2>3. refs.par = 1 + Bit(refs.rk > 0) /\ refs.rk \in Nat /\ ParentsUp
    <3>1. refs.rk \in Nat
      BY <1>1 DEF BaseInv, CountInv, Bit
    <3> QED BY <1>1, <1>4, <3>1 DEF UndoingAv1
  <2>4. refs'.rk = refs.rk /\ refs'.av1 = refs.av1 /\ refs'.par = Bit(refs.rk > 0)
    BY <2>2, <2>3 DEF Counts, Bit
  <2>5. ParentsFrame /\ Av1Frame /\ RkFrame
    BY <2>2, FramesOf, Wiring DEF SameBit, Went, Domains
  <2>6. ParentsUp'
    BY <2>3, <2>5, ParentsFrameKeeps
  <2>7. refs.rk = 0 => RkCold
    BY <1>1 DEF RkOk
  <2>8. CASE refs.par = 1
    <3>1. refs.rk = 0 /\ refs'.par = 0
      BY <2>3, <2>4, <2>8 DEF Bit
    <3>2. Went(Then(DropParentsProg, 1, << >>), FALSE) /\ CountInv'
      <4>1. DropParentsProg \o << >> = Then(DropParentsProg, 1, << >>) /\ DropParentsProg \o << >> # << >>
        BY TailsTyped, Spliced
      <4> QED BY <2>2, <2>8, <4>1 DEF Cont
    <3>3. RkCold'
      BY <1>1, <2>5, <2>7, <3>1, RkFrameKeeps
    <3>4. ParentsDropping(1)'
      BY <2>6, <3>1, <3>3 DEF ParentsDropping
    <3>5. DroppingParents(1)'
      BY <1>1, <2>4, <3>1, <3>2, <3>4 DEF DroppingParents, Inside, Went, Clients
    <3> QED BY <2>2, <3>2, <3>5 DEF CInv, BaseInv, Place
  <2>9. CASE refs.par # 1
    <3>0. Cont(<< >>)
      BY <1>1 DEF Cont
    <3>1. Went(<< >>, FALSE) /\ CountInv'
      BY <2>2, <2>9, <3>0
    <3>2. refs'.par = 1 /\ refs.rk > 0
      BY <2>3, <2>4, <2>9 DEF Bit
    <3>3. RkOk'
      BY <1>1, <2>4, <2>5, RkFrameKeeps
    <3>4. Resting'
      BY <1>1, <2>4, <2>6, <3>1, <3>2, <3>3 DEF Resting, ParentsOk, Av1Ok, Went, Bit
    <3> QED BY <2>2, <3>1, <3>4 DEF CInv, BaseInv, Place
  <2> QED BY <2>8, <2>9
<1> QED BY <1>3, <1>4

LEMMA DroppingAv1Step ==
    ASSUME CInv, Step, NEW n \in 1 .. 5, DroppingAv1(n)
    PROVE  CInv'
<1>1. /\ BaseInv /\ mx.prog = Suffix(DropAv1Prog, n) /\ mx.t \in {"av1"} /\ call[mx.t] = "Drop" /\ mx.ok = TRUE
      /\ refs.av1 = 1 /\ RkOk
  BY DEF CInv, DroppingAv1, Inside
<1>2. /\ Head(mx.prog) = DropAv1Prog[n] /\ Tail(mx.prog) = Suffix(DropAv1Prog, n + 1)
      /\ n < 5 => Cont(Tail(mx.prog))
  <2>1. /\ Head(mx.prog) = DropAv1Prog[n] /\ Tail(mx.prog) = Suffix(DropAv1Prog, n + 1)
        /\ n < 5 => Suffix(DropAv1Prog, n + 1) # << >>
    BY <1>1, DropAv1At
  <2> QED BY <2>1, Zenon DEF Cont
<1>3. CASE n = 1
  <2>1. Head(mx.prog) = Off("AV1") /\ Tail(mx.prog) = Suffix(DropAv1Prog, 2) /\ Cont(Tail(mx.prog))
    BY <1>1, <1>2, <1>3, DropAv1Ops
  <2>0. "AV1" \in {"VCODEC", "AV1"}
    OBVIOUS
  <2>2. /\ BaseInv' /\ (\A e \in Domains \ {"AV1"} : Kept(e)) /\ UNCHANGED <<refs, gated, reset, clksel>>
        /\ Went(Suffix(DropAv1Prog, 2), TRUE)
    <3>1. "AV1" \in Domains
      BY DEF Domains
    <3> QED BY <1>1, <2>0, <2>1, <3>1, OffStep
  <2>3. ParentsFrame /\ RkFrame
    BY <2>2, FramesOf, Wiring DEF SameBit, Went, Domains
  <2>4. ParentsUp' /\ RkOk'
    BY <1>1, <1>3, <2>2, <2>3, ParentsFrameKeeps, RkFrameKeeps DEF DroppingAv1
  <2>5. DroppingAv1(2)'
    BY <1>1, <1>3, <2>2, <2>4 DEF DroppingAv1, Inside, Went
  <2> QED BY <2>2, <2>5 DEF CInv, Place
<1>4. CASE n = 2
  <2>1. Head(mx.prog) = Assert(Con68) /\ Tail(mx.prog) = Suffix(DropAv1Prog, 3) /\ Cont(Tail(mx.prog))
    BY <1>1, <1>2, <1>4, DropAv1Ops
  <2>2. /\ BaseInv' /\ (\A e \in Domains : Kept(e)) /\ UNCHANGED <<refs, gated, clksel>>
        /\ Went(Suffix(DropAv1Prog, 3), TRUE) /\ reset' = reset \cup Con68
    BY <1>1, <2>1, AssertStep
  <2>3. ParentsFrame /\ RkFrame
    BY <2>2, FramesOf, Wiring DEF SameBit, Went, Domains
  <2>4. ParentsUp' /\ RkOk'
    BY <1>1, <1>4, <2>2, <2>3, ParentsFrameKeeps, RkFrameKeeps DEF DroppingAv1
  <2>5. DroppingAv1(3)'
    BY <1>1, <1>4, <2>2, <2>4 DEF DroppingAv1, Inside, Went
  <2> QED BY <2>2, <2>5 DEF CInv, Place
<1>5. CASE n = 3
  <2>1. Head(mx.prog) = Gate(Con68) /\ Tail(mx.prog) = Suffix(DropAv1Prog, 4) /\ Cont(Tail(mx.prog))
    BY <1>1, <1>2, <1>5, DropAv1Ops
  <2>2. /\ BaseInv' /\ (\A e \in Domains : Kept(e)) /\ UNCHANGED <<refs, reset, clksel>>
        /\ Went(Suffix(DropAv1Prog, 4), TRUE) /\ gated' = gated \cup Con68
    BY <1>1, <2>1, GateStep
  <2>3. ParentsFrame /\ RkFrame
    BY <2>2, FramesOf, Wiring DEF SameBit, Went, Domains
  <2>4. ParentsUp' /\ RkOk'
    BY <1>1, <1>5, <2>2, <2>3, ParentsFrameKeeps, RkFrameKeeps DEF DroppingAv1
  <2>5. DroppingAv1(4)'
    BY <1>1, <1>5, <2>2, <2>4 DEF DroppingAv1, Inside, Went
  <2> QED BY <2>2, <2>5 DEF CInv, Place
<1>6. CASE n = 4
  <2>1. Head(mx.prog) = DropParents /\ Tail(mx.prog) = Suffix(DropAv1Prog, 5)
    BY <1>1, <1>2, <1>6, DropAv1Ops
  <2>2. /\ PmuInv' /\ FaultInv' /\ CtlInv' /\ (\A e \in Domains : Kept(e)) /\ UNCHANGED <<gated, reset, clksel>>
        /\ Counts(refs.rk, refs.av1, refs'.par) /\ refs'.par = refs.par - 1
        /\ Went(IF refs.par = 1 THEN DropParentsProg \o Suffix(DropAv1Prog, 5) ELSE Suffix(DropAv1Prog, 5), TRUE)
        /\ \A p : Went(p, TRUE) /\ Cont(p) => CountInv'
    BY <1>1, <2>1, RefsStep
  <2>3. refs.par = 1 + Bit(refs.rk > 0) /\ refs.rk \in Nat /\ ParentsUp
    <3>1. refs.rk \in Nat
      BY <1>1 DEF BaseInv, CountInv, Bit
    <3> QED BY <1>1, <1>6, <3>1 DEF DroppingAv1
  <2>4. refs'.rk = refs.rk /\ refs'.av1 = refs.av1 /\ refs'.par = Bit(refs.rk > 0)
    BY <2>2, <2>3 DEF Counts, Bit
  <2>5. ParentsFrame /\ Av1Frame /\ RkFrame
    BY <2>2, FramesOf, Wiring DEF SameBit, Went, Domains
  <2>6. ParentsUp'
    BY <2>3, <2>5, ParentsFrameKeeps
  <2>7. refs.rk = 0 => RkCold
    BY <1>1 DEF RkOk
  <2>8. CASE refs.par = 1
    <3>1. refs.rk = 0 /\ refs'.par = 0
      BY <2>3, <2>4, <2>8 DEF Bit
    <3>2. Went(Then(DropParentsProg, 1, Suffix(DropAv1Prog, 5)), TRUE) /\ CountInv'
      <4>1. DropParentsProg \o Suffix(DropAv1Prog, 5) = Then(DropParentsProg, 1, Suffix(DropAv1Prog, 5)) /\ DropParentsProg \o Suffix(DropAv1Prog, 5) # << >>
        BY TailsTyped, Spliced
      <4> QED BY <2>2, <2>8, <4>1 DEF Cont
    <3>3. RkCold'
      BY <1>1, <2>5, <2>7, <3>1, RkFrameKeeps
    <3>4. ParentsDropping(1)'
      BY <2>6, <3>1, <3>3 DEF ParentsDropping
    <3>5. DroppingParents(1)'
      BY <1>1, <2>4, <3>1, <3>2, <3>4 DEF DroppingParents, Inside, Went, Clients
    <3> QED BY <2>2, <3>2, <3>5 DEF CInv, BaseInv, Place
  <2>9. CASE refs.par # 1
    <3>0. Cont(Suffix(DropAv1Prog, 5))
      <4>1. Cont(Tail(mx.prog))
        BY <1>2, <1>6
      <4> QED BY <2>1, <4>1, Zenon
    <3>1. Went(Suffix(DropAv1Prog, 5), TRUE) /\ CountInv'
      BY <2>2, <2>9, <3>0
    <3>2. refs'.par = 1 /\ refs.rk > 0
      BY <2>3, <2>4, <2>9 DEF Bit
    <3>3. RkOk'
      BY <1>1, <2>4, <2>5, RkFrameKeeps
    <3>4. DroppingAv1(5)'
      BY <1>1, <2>4, <2>6, <3>1, <3>2, <3>3 DEF DroppingAv1, ParentsOk, Inside, Went, Bit
    <3> QED BY <2>2, <3>1, <3>4 DEF CInv, BaseInv, Place
  <2> QED BY <2>8, <2>9
<1>7. CASE n = 5
  <2>1. Head(mx.prog) = SetRef("av1", 0) /\ Tail(mx.prog) = << >>
    BY <1>1, <1>2, <1>7, DropAv1Ops, DropAv1At
  <2>2. mx.t \in Clients /\ RefOf(mx.t) = "av1" /\ refs.av1 = 1 - 0 /\ 1 # 0
    BY <1>1, Wiring DEF Clients
  <2>3. /\ BaseInv' /\ (\A e \in Domains : Kept(e)) /\ UNCHANGED <<gated, reset, clksel>>
        /\ Went(<< >>, TRUE) /\ Counts(refs.rk, 0, refs.par)
    BY <1>1, <2>1, <2>2, SetRefStep
  <2>4. refs'.rk = refs.rk /\ refs'.av1 = 0 /\ refs'.par = refs.par /\ refs.par = Bit(refs.rk > 0) /\ ParentsOk
    BY <1>7, <2>3 DEF Counts, DroppingAv1
  <2>5. ParentsFrame /\ RkFrame
    BY <2>3, FramesOf, Wiring DEF SameBit, Went, Domains
  <2>6. ParentsOk' /\ RkOk'
    BY <1>1, <2>4, <2>5, ParentsFrameKeeps, RkFrameKeeps
  <2>7. refs'.par = Bit(refs'.rk > 0) + Bit(refs'.av1 > 0)
    BY <2>4 DEF Bit
  <2>8. Resting'
    BY <2>3, <2>4, <2>6, <2>7 DEF Resting, Av1Ok, Went
  <2> QED BY <2>3, <2>8 DEF CInv, Place
<1> QED BY <1>3, <1>4, <1>5, <1>6, <1>7

LEMMA RaisingParentsStep ==
    ASSUME CInv, Step, NEW n \in 1 .. 4, RaisingParents(n)
    PROVE  CInv'
<1>0. PICK t \in Seq(Ops) :
         /\ mx.prog = Then(RaiseParentsProg, n, t)
         /\ \/ t = Suffix(RaiseClusterProg, 2) /\ mx.t \in Rvds
            \/ t = Suffix(RaiseAv1Prog, 2) /\ mx.t \in {"av1"}
  BY TailsTyped DEF RaisingParents, Inside
<1>1. /\ BaseInv /\ mx.prog = Then(RaiseParentsProg, n, t) /\ call[mx.t] = "Raise" /\ mx.ok = TRUE
      /\ \/ t = Suffix(RaiseClusterProg, 2) /\ mx.t \in Rvds
         \/ t = Suffix(RaiseAv1Prog, 2) /\ mx.t \in {"av1"}
      /\ ParentsRaising(n) /\ RkCold /\ refs = [rk |-> 0, av1 |-> 0, par |-> 1]
  BY <1>0 DEF CInv, RaisingParents, ParentsRaising, Inside
<1>2. /\ Head(mx.prog) = RaiseParentsProg[n] /\ Tail(mx.prog) = Then(RaiseParentsProg, n + 1, t)
      /\ (n < 4 => Cont(Tail(mx.prog))) /\ (n = 4 => Tail(mx.prog) = t /\ Cont(Tail(mx.prog)))
  <2>1. /\ Head(mx.prog) = RaiseParentsProg[n] /\ Tail(mx.prog) = Then(RaiseParentsProg, n + 1, t)
        /\ n < 4 => Tail(mx.prog) # << >>
        /\ n = 4 => Tail(mx.prog) = t
    <3>1. /\ Head(Then(RaiseParentsProg, n, t)) = RaiseParentsProg[n]
          /\ Tail(Then(RaiseParentsProg, n, t)) = Then(RaiseParentsProg, n + 1, t)
          /\ n < 4 => Then(RaiseParentsProg, n + 1, t) # << >>
          /\ n = 4 => Then(RaiseParentsProg, n + 1, t) = t
      BY RaiseParentsCatAt
    <3> QED BY <1>1, <3>1, Zenon
  <2>2. t # << >>
    <3>1. 2 \in 1 .. 9 /\ 2 \in 1 .. 6
      OBVIOUS
    <3>2. Suffix(RaiseClusterProg, 2) # << >>
      BY <3>1, RaiseClusterAt
    <3>3. Suffix(RaiseAv1Prog, 2) # << >>
      BY <3>1, RaiseAv1At
    <3> QED BY <1>1, <3>2, <3>3
  <2> QED BY <2>1, <2>2, Zenon DEF Cont
<1>3. CASE n = 1
  <2>1. Head(mx.prog) = On("VCODEC") /\ Tail(mx.prog) = Then(RaiseParentsProg, 2, t) /\ Cont(Tail(mx.prog))
    BY <1>1, <1>2, <1>3, RaiseParentsOps
  <2>2. "VCODEC" \in Domains /\ (faults = 0 => "VCODEC" = "VCODEC" \/ BusAlive("VCODEC", on \cup {"VCODEC"}))
    BY DEF Domains
  <2>3. /\ BaseInv' /\ (\A e \in Domains \ {"VCODEC"} : Kept(e)) /\ UNCHANGED <<refs, gated, reset, clksel>>
        /\ \/ Went(Then(RaiseParentsProg, 2, t), TRUE) /\ Up("VCODEC")' /\ "VCODEC" \in on' /\ "VCODEC" \in pwr'
           \/ Went(Suffix(UndoParents, 4), FALSE) /\ faults' > 0 /\ Up("VCODEC")'
    BY <1>1, <2>1, <2>2, OnStep, Undoing
  <2>4. CASE Went(Then(RaiseParentsProg, 2, t), TRUE) /\ Up("VCODEC")' /\ "VCODEC" \in on' /\ "VCODEC" \in pwr'
    <3>3. RkFrame
      BY <2>3, <2>4, FramesOf, Wiring DEF SameBit, Went, Domains
    <3>4. RkCold'
      BY <1>1, <1>3, <2>3, <2>4, <3>3, RkFrameKeeps DEF RaisingParents, ParentsRaising
    <3>5. Up("VCODEC")'
      BY <1>1, <1>3, <2>3, <2>4 DEF RaisingParents, ParentsRaising, Kept, Domains
    <3>6. "44" \in gated' /\ "44" \in reset'
      BY <1>1, <1>3, <2>3, <2>4, Wiring DEF RaisingParents, ParentsRaising
    <3>7. RaisingParents(2)'
      BY <1>1, <1>3, <2>3, <2>4, <3>4, <3>5, <3>6 DEF RaisingParents, ParentsRaising, Inside, Went
    <3> QED BY <2>3, <2>4, <3>7 DEF CInv, Place
  <2>5. CASE Went(Suffix(UndoParents, 4), FALSE) /\ faults' > 0 /\ Up("VCODEC")'
    <3>3. RkFrame
      BY <2>3, <2>5, FramesOf, Wiring DEF SameBit, Went, Domains
    <3>4. RkCold'
      BY <1>1, <1>3, <2>3, <2>5, <3>3, RkFrameKeeps DEF RaisingParents, ParentsRaising
    <3>5. "44" \in gated' /\ "44" \in reset'
      BY <1>1, <1>3, <2>3, <2>5, Wiring DEF RaisingParents, ParentsRaising
    <3>6. UndoingParents(4)'
      BY <1>1, <1>3, <2>3, <2>5, <3>4, <3>5 DEF RaisingParents, ParentsRaising, UndoingParents, Inside, Went, Clients
    <3> QED BY <2>3, <2>5, <3>6 DEF CInv, Place
  <2> QED BY <2>3, <2>4, <2>5
<1>4. CASE n = 2
  <2>1. Head(mx.prog) = Ungate(Con44) /\ Tail(mx.prog) = Then(RaiseParentsProg, 3, t) /\ Cont(Tail(mx.prog))
    BY <1>1, <1>2, <1>4, RaiseParentsOps
  <2>2. /\ BaseInv' /\ (\A e \in Domains : Kept(e)) /\ UNCHANGED <<refs, reset, clksel>>
        /\ Went(Then(RaiseParentsProg, 3, t), TRUE) /\ gated' = gated \ Con44
    BY <1>1, <2>1, UngateStep
  <2>3. RkFrame
    BY <2>2, FramesOf, Wiring DEF SameBit, Went, Domains
  <2>4. RkCold'
    BY <1>1, <1>4, <2>2, <2>3, RkFrameKeeps DEF RaisingParents, ParentsRaising
  <2>5. Up("VCODEC")'
    BY <1>1, <1>4, <2>2 DEF RaisingParents, ParentsRaising, Kept, Domains
  <2>6. "44" \notin gated' /\ "44" \in reset'
    BY <1>1, <1>4, <2>2, Wiring DEF RaisingParents, ParentsRaising
  <2>7. RaisingParents(3)'
    BY <1>1, <1>4, <2>2, <2>4, <2>5, <2>6 DEF RaisingParents, ParentsRaising, Inside, Went
  <2> QED BY <2>2, <2>7 DEF CInv, Place
<1>5. CASE n = 3
  <2>1. Head(mx.prog) = Deassert(Con44) /\ Tail(mx.prog) = Then(RaiseParentsProg, 4, t) /\ Cont(Tail(mx.prog))
    BY <1>1, <1>2, <1>5, RaiseParentsOps
  <2>2. /\ BaseInv' /\ (\A e \in Domains : Kept(e)) /\ UNCHANGED <<refs, gated, clksel>>
        /\ Went(Then(RaiseParentsProg, 4, t), TRUE) /\ reset' = reset \ Con44
    BY <1>1, <2>1, DeassertStep
  <2>3. RkFrame
    BY <2>2, FramesOf, Wiring DEF SameBit, Went, Domains
  <2>4. RkCold'
    BY <1>1, <1>5, <2>2, <2>3, RkFrameKeeps DEF RaisingParents, ParentsRaising
  <2>5. Up("VCODEC")'
    BY <1>1, <1>5, <2>2 DEF RaisingParents, ParentsRaising, Kept, Domains
  <2>6. "44" \notin gated' /\ "44" \notin reset'
    BY <1>1, <1>5, <2>2, Wiring DEF RaisingParents, ParentsRaising
  <2>7. RaisingParents(4)'
    BY <1>1, <1>5, <2>2, <2>4, <2>5, <2>6 DEF RaisingParents, ParentsRaising, Inside, Went
  <2> QED BY <2>2, <2>7 DEF CInv, Place
<1>6. CASE n = 4
  <2>1. Head(mx.prog) = On("VDPU") /\ Tail(mx.prog) = t /\ Cont(Tail(mx.prog))
    BY <1>1, <1>2, <1>6, RaiseParentsOps
  <2>2. "VDPU" \in Domains /\ (faults = 0 => "VDPU" = "VCODEC" \/ BusAlive("VDPU", on \cup {"VDPU"}))
    <3>1. Up("VCODEC") /\ "44" \notin gated /\ "44" \notin reset
      BY <1>1, <1>6 DEF ParentsRaising
    <3>2. faults = 0 => "VCODEC" \in on
      BY <1>1, <3>1 DEF BaseInv, FaultInv, Up
    <3> QED BY <3>1, <3>2, Wiring DEF BusAlive, Domains
  <2>3. /\ BaseInv' /\ (\A e \in Domains \ {"VDPU"} : Kept(e)) /\ UNCHANGED <<refs, gated, reset, clksel>>
        /\ \/ Went(t, TRUE) /\ Up("VDPU")' /\ "VDPU" \in on' /\ "VDPU" \in pwr'
           \/ Went(Suffix(UndoParents, 1), FALSE) /\ faults' > 0 /\ Up("VDPU")'
    BY <1>1, <2>1, <2>2, OnStep, Undoing
  <2>4. CASE Went(t, TRUE) /\ Up("VDPU")' /\ "VDPU" \in on' /\ "VDPU" \in pwr'
    <3>1. RkFrame
      BY <2>3, <2>4, FramesOf, Wiring DEF SameBit, Went, Domains
    <3>2. RkCold'
      BY <1>1, <3>1, RkFrameKeeps
    <3>3. ParentsUp'
      <4>1. Up("VCODEC") /\ Kept("VCODEC")
        BY <1>1, <1>6, <2>3 DEF ParentsRaising, Domains
      <4>2. Up("VCODEC")'
        BY <4>1 DEF Kept
      <4>3. "44" \notin gated' /\ "44" \notin reset'
        BY <1>1, <1>6, <2>3 DEF ParentsRaising
      <4> QED BY <2>4, <4>2, <4>3 DEF ParentsUp
    <3>4. refs' = [rk |-> 0, av1 |-> 0, par |-> 1] /\ refs'.rk = 0 /\ refs'.av1 = 0 /\ refs'.par = 1
      BY <1>1, <2>3
    <3>5. CASE t = Suffix(RaiseClusterProg, 2) /\ mx.t \in Rvds
      <4>1. RaisingRk(2)'
        BY <1>1, <2>4, <3>2, <3>3, <3>4, <3>5 DEF RaisingRk, RkCold, Av1Ok, Inside, Went, Bit
      <4> QED BY <2>3, <4>1 DEF CInv, Place
    <3>6. CASE t = Suffix(RaiseAv1Prog, 2) /\ mx.t \in {"av1"}
      <4>1. RaisingAv1(2)'
        BY <1>1, <2>4, <3>2, <3>3, <3>4, <3>6 DEF RaisingAv1, RkOk, Inside, Went, Bit
      <4> QED BY <2>3, <4>1 DEF CInv, Place
    <3> QED BY <1>1, <3>5, <3>6
  <2>5. CASE Went(Suffix(UndoParents, 1), FALSE) /\ faults' > 0 /\ Up("VDPU")'
    <3>3. RkFrame
      BY <2>3, <2>5, FramesOf, Wiring DEF SameBit, Went, Domains
    <3>4. RkCold'
      BY <1>1, <1>6, <2>3, <2>5, <3>3, RkFrameKeeps DEF RaisingParents, ParentsRaising
    <3>5. UndoingParents(1)'
      BY <1>1, <1>6, <2>3, <2>5, <3>4 DEF RaisingParents, ParentsRaising, UndoingParents, Inside, Went, Clients
    <3> QED BY <2>3, <2>5, <3>5 DEF CInv, Place
  <2> QED BY <2>3, <2>4, <2>5
<1> QED BY <1>3, <1>4, <1>5, <1>6

LEMMA UndoingParentsStep ==
    ASSUME CInv, Step, NEW n \in 1 .. 4, UndoingParents(n)
    PROVE  CInv'
<1>1. /\ BaseInv /\ mx.prog = Suffix(UndoParents, n) /\ mx.t \in Clients /\ call[mx.t] = "Raise" /\ mx.ok = FALSE
      /\ refs = [rk |-> 0, av1 |-> 0, par |-> 1] /\ RkCold
  BY DEF CInv, UndoingParents, Inside
<1>2. /\ Head(mx.prog) = UndoParents[n] /\ Tail(mx.prog) = Suffix(UndoParents, n + 1)
      /\ n < 4 => Cont(Tail(mx.prog))
  <2>1. /\ Head(mx.prog) = UndoParents[n] /\ Tail(mx.prog) = Suffix(UndoParents, n + 1)
        /\ n < 4 => Suffix(UndoParents, n + 1) # << >>
    BY <1>1, UndoParentsAt
  <2> QED BY <2>1, Zenon DEF Cont
<1>3. CASE n = 1
  <2>1. Head(mx.prog) = Gate(Con44) /\ Tail(mx.prog) = Suffix(UndoParents, 2) /\ Cont(Tail(mx.prog))
    BY <1>1, <1>2, <1>3, UndoParentsOps
  <2>2. /\ BaseInv' /\ (\A e \in Domains : Kept(e)) /\ UNCHANGED <<refs, reset, clksel>>
        /\ Went(Suffix(UndoParents, 2), FALSE) /\ gated' = gated \cup Con44
    BY <1>1, <2>1, GateStep
  <2>3. RkFrame
    BY <2>2, FramesOf, Wiring DEF SameBit, Went, Domains
  <2>4. RkCold'
    BY <1>1, <1>3, <2>2, <2>3, RkFrameKeeps DEF UndoingParents
  <2>5. "44" \in gated'
    BY <1>1, <1>3, <2>2, Wiring DEF UndoingParents
  <2>6. UndoingParents(2)'
    BY <1>1, <1>3, <2>2, <2>4, <2>5 DEF UndoingParents, Inside, Went
  <2> QED BY <2>2, <2>6 DEF CInv, Place
<1>4. CASE n = 2
  <2>1. Head(mx.prog) = Assert(Con44) /\ Tail(mx.prog) = Suffix(UndoParents, 3) /\ Cont(Tail(mx.prog))
    BY <1>1, <1>2, <1>4, UndoParentsOps
  <2>2. /\ BaseInv' /\ (\A e \in Domains : Kept(e)) /\ UNCHANGED <<refs, gated, clksel>>
        /\ Went(Suffix(UndoParents, 3), FALSE) /\ reset' = reset \cup Con44
    BY <1>1, <2>1, AssertStep
  <2>3. RkFrame
    BY <2>2, FramesOf, Wiring DEF SameBit, Went, Domains
  <2>4. RkCold'
    BY <1>1, <1>4, <2>2, <2>3, RkFrameKeeps DEF UndoingParents
  <2>5. "44" \in gated' /\ "44" \in reset'
    BY <1>1, <1>4, <2>2, Wiring DEF UndoingParents
  <2>6. UndoingParents(3)'
    BY <1>1, <1>4, <2>2, <2>4, <2>5 DEF UndoingParents, Inside, Went
  <2> QED BY <2>2, <2>6 DEF CInv, Place
<1>5. CASE n = 3
  <2>1. Head(mx.prog) = Off("VCODEC") /\ Tail(mx.prog) = Suffix(UndoParents, 4) /\ Cont(Tail(mx.prog))
    BY <1>1, <1>2, <1>5, UndoParentsOps
  <2>0. "VCODEC" \in {"VCODEC", "AV1"}
    OBVIOUS
  <2>2. /\ BaseInv' /\ (\A e \in Domains \ {"VCODEC"} : Kept(e)) /\ UNCHANGED <<refs, gated, reset, clksel>>
        /\ Went(Suffix(UndoParents, 4), FALSE) /\ Released("VCODEC")'
    <3>1. "VCODEC" \in Domains
      BY DEF Domains
    <3> QED BY <1>1, <2>0, <2>1, <3>1, OffStep
  <2>3. RkFrame
    BY <2>2, FramesOf, Wiring DEF SameBit, Went, Domains
  <2>4. RkCold'
    BY <1>1, <1>5, <2>2, <2>3, RkFrameKeeps DEF UndoingParents
  <2>5. "44" \in gated' /\ "44" \in reset'
    BY <1>1, <1>5, <2>2, Wiring DEF UndoingParents
  <2>6. UndoingParents(4)'
    BY <1>1, <1>5, <2>2, <2>4, <2>5 DEF UndoingParents, Inside, Went
  <2> QED BY <2>2, <2>6 DEF CInv, Place
<1>6. CASE n = 4
  <2>1. Head(mx.prog) = ParentsDec /\ Tail(mx.prog) = << >>
    BY <1>1, <1>2, <1>6, UndoParentsOps, UndoParentsAt
  <2>2. /\ PmuInv' /\ FaultInv' /\ CtlInv' /\ (\A e \in Domains : Kept(e)) /\ UNCHANGED <<gated, reset, clksel>>
        /\ Counts(refs.rk, refs.av1, refs'.par) /\ refs'.par = refs.par - 1
        /\ Went(<< >>, FALSE)
        /\ \A p : Went(p, FALSE) /\ Cont(p) => CountInv'
    BY <1>1, <2>1, RefsStep
  <2>3. refs'.rk = 0 /\ refs'.av1 = 0 /\ refs'.par = 0
    BY <1>1, <2>2 DEF Counts
  <2>4. CountInv'
    BY <1>1, <2>2 DEF Cont
  <2>5. RkFrame
    BY <2>2, FramesOf, Wiring DEF SameBit, Went, Domains
  <2>6. RkCold'
    BY <1>1, <2>5, RkFrameKeeps
  <2>7. faults' # 0
    BY <2>2 DEF FaultInv, Went
  <2>8. ParentsCold'
    BY <1>1, <1>6, <2>2, <2>7 DEF UndoingParents, ParentsCold, Released
  <2>9. refs'.par = Bit(refs'.rk > 0) + Bit(refs'.av1 > 0)
    BY <2>3 DEF Bit
  <2>10. ParentsOk' /\ RkOk' /\ Av1Ok'
    BY <2>3, <2>6, <2>8 DEF ParentsOk, RkOk, Av1Ok
  <2>11. Resting'
    BY <2>2, <2>9, <2>10 DEF Resting, Went
  <2> QED BY <2>2, <2>4, <2>11 DEF CInv, BaseInv, Place
<1> QED BY <1>3, <1>4, <1>5, <1>6

LEMMA DroppingParentsStep ==
    ASSUME CInv, Step, NEW n \in 1 .. 4, DroppingParents(n)
    PROVE  CInv'
<1>0. PICK t \in Seq(Ops) :
         /\ mx.prog = Then(DropParentsProg, n, t)
         /\ \/ t = << >> /\ mx.t \in Clients /\ call[mx.t] = "Raise" /\ mx.ok = FALSE /\ refs.rk = 0 /\ refs.av1 = 0
            \/ /\ t = Suffix(DropClusterProg, 8) /\ mx.t \in Rvds /\ call[mx.t] = "Drop" /\ mx.ok = TRUE
               /\ refs.rk = 1 /\ refs.av1 = 0
            \/ /\ t = Suffix(DropAv1Prog, 5) /\ mx.t \in {"av1"} /\ call[mx.t] = "Drop" /\ mx.ok = TRUE
               /\ refs.rk = 0 /\ refs.av1 = 1
  BY TailsTyped DEF DroppingParents, Inside
<1>1. /\ BaseInv /\ mx.prog = Then(DropParentsProg, n, t)
      /\ \/ t = << >> /\ mx.t \in Clients /\ call[mx.t] = "Raise" /\ mx.ok = FALSE /\ refs.rk = 0 /\ refs.av1 = 0
         \/ /\ t = Suffix(DropClusterProg, 8) /\ mx.t \in Rvds /\ call[mx.t] = "Drop" /\ mx.ok = TRUE
            /\ refs.rk = 1 /\ refs.av1 = 0
         \/ /\ t = Suffix(DropAv1Prog, 5) /\ mx.t \in {"av1"} /\ call[mx.t] = "Drop" /\ mx.ok = TRUE
            /\ refs.rk = 0 /\ refs.av1 = 1
      /\ ParentsDropping(n) /\ RkCold /\ refs.par = 0
  BY <1>0 DEF CInv, DroppingParents, ParentsDropping
<1>2. /\ Head(mx.prog) = DropParentsProg[n] /\ Tail(mx.prog) = Then(DropParentsProg, n + 1, t)
      /\ (n < 4 => Cont(Tail(mx.prog))) /\ (n = 4 => Tail(mx.prog) = t /\ Cont(Tail(mx.prog)))
  <2>1. /\ Head(mx.prog) = DropParentsProg[n] /\ Tail(mx.prog) = Then(DropParentsProg, n + 1, t)
        /\ n < 4 => Tail(mx.prog) # << >>
        /\ n = 4 => Tail(mx.prog) = t
    <3>1. /\ Head(Then(DropParentsProg, n, t)) = DropParentsProg[n]
          /\ Tail(Then(DropParentsProg, n, t)) = Then(DropParentsProg, n + 1, t)
          /\ n < 4 => Then(DropParentsProg, n + 1, t) # << >>
          /\ n = 4 => Then(DropParentsProg, n + 1, t) = t
      BY DropParentsCatAt
    <3> QED BY <1>1, <3>1, Zenon
  <2>2. t # << >> \/ (call[mx.t] = "Raise" /\ ~mx.ok)
    <3>1. 8 \in 1 .. 8 /\ 5 \in 1 .. 5
      OBVIOUS
    <3>2. Suffix(DropClusterProg, 8) # << >>
      BY <3>1, DropClusterAt
    <3>3. Suffix(DropAv1Prog, 5) # << >>
      BY <3>1, DropAv1At
    <3> QED BY <1>1, <3>2, <3>3
  <2> QED BY <2>1, <2>2, Zenon DEF Cont
<1>3. CASE n = 1
  <2>1. Head(mx.prog) = Off("VDPU") /\ Tail(mx.prog) = Then(DropParentsProg, 2, t) /\ Cont(Tail(mx.prog))
    BY <1>1, <1>2, <1>3, DropParentsOps
  <2>0. faults = 0 => BusAlive("VDPU", on)
    <3>1. BusOf("VDPU") \cap (gated \cup reset) = {} /\ ParentsUp /\ Up("VDPU")
      BY <1>1, <1>3, Wiring DEF ParentsDropping, ParentsUp
    <3>2. faults = 0 => "VDPU" \in on
      BY <1>1, <3>1 DEF BaseInv, FaultInv, Up
    <3> QED BY <1>1, <3>1, <3>2, Alive DEF BaseInv
  <2>2. /\ BaseInv' /\ (\A e \in Domains \ {"VDPU"} : Kept(e)) /\ UNCHANGED <<refs, gated, reset, clksel>>
        /\ Went(Then(DropParentsProg, 2, t), mx.ok) /\ Released("VDPU")'
    <3>1. "VDPU" \in Domains
      BY DEF Domains
    <3> QED BY <1>1, <2>0, <2>1, <3>1, OffStep
  <2>3. RkFrame
    BY <2>2, FramesOf, Wiring DEF SameBit, Went, Domains
  <2>4. RkCold'
    BY <1>1, <1>3, <2>2, <2>3, RkFrameKeeps DEF DroppingParents, ParentsDropping
  <2>5. Released("VDPU")'
    BY <1>1, <1>3, <2>2 DEF DroppingParents, ParentsDropping, Kept, Domains
  <2>6. DroppingParents(2)'
    BY <1>1, <1>3, <2>2, <2>4, <2>5 DEF DroppingParents, ParentsDropping, Inside, Went
  <2> QED BY <2>2, <2>6 DEF CInv, Place
<1>4. CASE n = 2
  <2>1. Head(mx.prog) = Assert(Con44) /\ Tail(mx.prog) = Then(DropParentsProg, 3, t) /\ Cont(Tail(mx.prog))
    BY <1>1, <1>2, <1>4, DropParentsOps
  <2>2. /\ BaseInv' /\ (\A e \in Domains : Kept(e)) /\ UNCHANGED <<refs, gated, clksel>>
        /\ Went(Then(DropParentsProg, 3, t), mx.ok) /\ reset' = reset \cup Con44
    BY <1>1, <2>1, AssertStep
  <2>3. RkFrame
    BY <2>2, FramesOf, Wiring DEF SameBit, Went, Domains
  <2>4. RkCold'
    BY <1>1, <1>4, <2>2, <2>3, RkFrameKeeps DEF DroppingParents, ParentsDropping
  <2>5. Released("VDPU")'
    BY <1>1, <1>4, <2>2 DEF DroppingParents, ParentsDropping, Kept, Domains
  <2>6. "44" \in reset'
    BY <1>1, <1>4, <2>2, Wiring DEF DroppingParents, ParentsDropping
  <2>7. DroppingParents(3)'
    BY <1>1, <1>4, <2>2, <2>4, <2>5, <2>6 DEF DroppingParents, ParentsDropping, Inside, Went
  <2> QED BY <2>2, <2>7 DEF CInv, Place
<1>5. CASE n = 3
  <2>1. Head(mx.prog) = Gate(Con44) /\ Tail(mx.prog) = Then(DropParentsProg, 4, t) /\ Cont(Tail(mx.prog))
    BY <1>1, <1>2, <1>5, DropParentsOps
  <2>2. /\ BaseInv' /\ (\A e \in Domains : Kept(e)) /\ UNCHANGED <<refs, reset, clksel>>
        /\ Went(Then(DropParentsProg, 4, t), mx.ok) /\ gated' = gated \cup Con44
    BY <1>1, <2>1, GateStep
  <2>3. RkFrame
    BY <2>2, FramesOf, Wiring DEF SameBit, Went, Domains
  <2>4. RkCold'
    BY <1>1, <1>5, <2>2, <2>3, RkFrameKeeps DEF DroppingParents, ParentsDropping
  <2>5. Released("VDPU")'
    BY <1>1, <1>5, <2>2 DEF DroppingParents, ParentsDropping, Kept, Domains
  <2>6. "44" \in reset' /\ "44" \in gated'
    BY <1>1, <1>5, <2>2, Wiring DEF DroppingParents, ParentsDropping
  <2>7. DroppingParents(4)'
    BY <1>1, <1>5, <2>2, <2>4, <2>5, <2>6 DEF DroppingParents, ParentsDropping, Inside, Went
  <2> QED BY <2>2, <2>7 DEF CInv, Place
<1>6. CASE n = 4
  <2>1. Head(mx.prog) = Off("VCODEC") /\ Tail(mx.prog) = t /\ Cont(Tail(mx.prog))
    BY <1>1, <1>2, <1>6, DropParentsOps
  <2>2. /\ BaseInv' /\ (\A e \in Domains \ {"VCODEC"} : Kept(e)) /\ UNCHANGED <<refs, gated, reset, clksel>>
        /\ Went(t, mx.ok) /\ Released("VCODEC")'
    <3>1. "VCODEC" \in Domains
      BY DEF Domains
    <3> QED BY <1>1, <2>1, <3>1, OffStep
  <2>3. RkFrame
    BY <2>2, FramesOf, Wiring DEF SameBit, Went, Domains
  <2>4. RkCold'
    BY <1>1, <2>3, RkFrameKeeps
  <2>5. ParentsCold'
    <3>1. Released("VDPU") /\ Kept("VDPU")
      BY <1>1, <1>6, <2>2 DEF ParentsDropping, Domains
    <3>2. "44" \in gated' /\ "44" \in reset'
      BY <1>1, <1>6, <2>2 DEF ParentsDropping
    <3> QED BY <2>2, <3>1, <3>2 DEF ParentsCold, Kept
  <2>6. CASE t = << >>
    <3>1. refs.rk = 0 /\ refs.av1 = 0
      <4>1. 8 \in 1 .. 8 /\ 5 \in 1 .. 5
        OBVIOUS
      <4>2. Suffix(DropClusterProg, 8) # << >>
        BY <4>1, DropClusterAt
      <4>3. Suffix(DropAv1Prog, 5) # << >>
        BY <4>1, DropAv1At
      <4> QED BY <1>1, <2>6, <4>2, <4>3
    <3>2. Resting'
      BY <1>1, <2>2, <2>4, <2>5, <2>6, <3>1 DEF Resting, ParentsOk, RkOk, Av1Ok, Went, Bit
    <3> QED BY <2>2, <3>2 DEF CInv, Place
  <2>7. CASE /\ t = Suffix(DropClusterProg, 8) /\ mx.t \in Rvds /\ call[mx.t] = "Drop" /\ mx.ok = TRUE
             /\ refs.rk = 1 /\ refs.av1 = 0
    <3>1. DroppingRk(8)'
      BY <1>1, <2>2, <2>4, <2>5, <2>7 DEF DroppingRk, ParentsOk, RkCold, Av1Ok, Inside, Went, Bit
    <3> QED BY <2>2, <3>1 DEF CInv, Place
  <2>8. CASE /\ t = Suffix(DropAv1Prog, 5) /\ mx.t \in {"av1"} /\ call[mx.t] = "Drop" /\ mx.ok = TRUE
             /\ refs.rk = 0 /\ refs.av1 = 1
    <3>1. DroppingAv1(5)'
      BY <1>1, <2>2, <2>4, <2>5, <2>8 DEF DroppingAv1, ParentsOk, RkOk, Inside, Went, Bit
    <3> QED BY <2>2, <3>1 DEF CInv, Place
  <2> QED BY <1>1, <2>6, <2>7, <2>8
<1> QED BY <1>3, <1>4, <1>5, <1>6

LEMMA CoreFrameOf ==
    ASSUME call' = call, quiet' = quiet
    PROVE  /\ Kept("RKVDEC0") /\ (\A b \in Con40 : SameBit(b)) => CoreFrame("rvd0")
           /\ Kept("RKVDEC1") /\ (\A b \in Con41 : SameBit(b)) => CoreFrame("rvd1")
BY Wiring DEF CoreFrame, Kept

LEMMA Resetting0Step ==
    ASSUME CInv, Step, NEW n \in 1 .. 6, ResettingRk("rvd0", n)
    PROVE  CInv'
<1>1. /\ BaseInv /\ mx.prog = Suffix(FullCoreResetProg("rvd0"), n) /\ mx.t \in Threads /\ OwnerOf(mx.t) = "rvd0"
      /\ call[mx.t] = "FullReset" /\ mx.ok = TRUE /\ Av1Ok /\ CoreUp("rvd1") /\ "rk" \in clksel /\ ParentsUp
      /\ refs.rk > 0 /\ refs.par = Bit(refs.rk > 0) + Bit(refs.av1 > 0)
      /\ "40bus" \notin gated /\ ("rvd0" \in quiet => "40leaf" \notin gated)
      /\ (n = 1 => Up("RKVDEC0")) /\ (n <= 2 \/ n = 6 => Con40 \cap reset = {})
  <2>1. Len(FullCoreResetProg("rvd0")) = 6 /\ "rvd1" \in Rvds \ {"rvd0"}
    BY FullCoreReset0Ops DEF Rvds
  <2>2. mx.ok \in BOOLEAN
    BY Holder DEF CInv, BaseInv, Step
  <2> QED BY <2>1, <2>2, Wiring DEF CInv, ResettingRk, Reset
<1>2. /\ Head(mx.prog) = FullCoreResetProg("rvd0")[n] /\ Tail(mx.prog) = Suffix(FullCoreResetProg("rvd0"), n + 1)
      /\ Cont(Tail(mx.prog)) /\ (n = 6 => Tail(mx.prog) = << >>)
  <2>1. /\ Head(Suffix(FullCoreResetProg("rvd0"), n)) = FullCoreResetProg("rvd0")[n] /\ Tail(Suffix(FullCoreResetProg("rvd0"), n)) = Suffix(FullCoreResetProg("rvd0"), n + 1)
        /\ n = 6 => Suffix(FullCoreResetProg("rvd0"), n + 1) = << >>
    BY FullCoreReset0At
  <2> QED BY <1>1, <2>1, Zenon DEF Cont
<1>3. /\ Len(FullCoreResetProg("rvd0")) = 6 /\ Rvds \ {"rvd0"} = {"rvd1"}
  BY FullCoreReset0Ops DEF Rvds
<1>4. ASSUME NEW k \in 1 .. 6, n = k - 1, BaseInv', ParentsFrame, Av1Frame, CoreFrame("rvd1"), refs' = refs,
             Went(Suffix(FullCoreResetProg("rvd0"), k), TRUE), "rk" \in clksel',
             "40bus" \notin gated', "rvd0" \in quiet => "40leaf" \notin gated',
             k <= 2 \/ k = 6 => Con40 \cap reset' = {}
      PROVE  CInv'
  <2>1. ParentsUp' /\ Av1Ok' /\ CoreUp("rvd1")'
    <3>1. "rvd1" \in Rvds
      BY DEF Rvds
    <3> QED BY <1>1, <1>4, <3>1, ParentsFrameKeeps, Av1FrameKeeps, CoreFrameKeeps
  <2>2. Reset("rvd0")'
    BY <1>1, <1>4, <2>1, Wiring DEF Reset, Went
  <2>3. mx'.prog = Suffix(FullCoreResetProg("rvd0"), k) /\ busy' = busy /\ quiet' = quiet /\ gating' = gating /\ k # 1
    BY <1>4 DEF Went
  <2>4. \A e \in Rvds \ {"rvd0"} : CoreUp(e)'
    BY <1>3, <2>1
  <2>5. ResettingRk("rvd0", k)'
    <3>1. /\ BusOf(DomainOf("rvd0")) \cap gated' = {} /\ ("rvd0" \in quiet' => LeafOf("rvd0") \cap gated' = {})
          /\ ConOf("rvd0") = Con40
      BY <1>4, <2>3, Wiring
    <3>2. k <= 2 \/ k = Len(FullCoreResetProg("rvd0")) => ConOf("rvd0") \cap reset' = {}
      BY <1>3, <1>4, <3>1
    <3> QED BY <1>4, <2>1, <2>2, <2>3, <2>4, <3>1, <3>2, Zenon DEF ResettingRk
  <2>6. k \in 1 .. 6 /\ "rvd0" \in Rvds /\ k <= Len(FullCoreResetProg("rvd0"))
    <3>1. k \in 1 .. 6 /\ k <= 6 /\ "rvd0" \in Rvds
      BY DEF Rvds
    <3> QED BY <1>3, <3>1, Zenon
  <2> QED BY <1>4, <2>5, <2>6 DEF CInv, Place
<1>5. CASE n = 1
  <2>1. Head(mx.prog) = Off("RKVDEC0") /\ Tail(mx.prog) = Suffix(FullCoreResetProg("rvd0"), 2) /\ Cont(Tail(mx.prog))
    BY <1>1, <1>2, <1>5, FullCoreReset0Ops
  <2>2. faults = 0 => BusAlive("RKVDEC0", on)
    <3>1. BusOf("RKVDEC0") \cap (gated \cup reset) = {} /\ Up("RKVDEC0")
      BY <1>1, <1>5, Wiring
    <3>2. faults = 0 => "RKVDEC0" \in on
      BY <1>1, <3>1 DEF BaseInv, FaultInv, Up
    <3> QED BY <1>1, <3>1, <3>2, Alive DEF BaseInv
  <2>3. /\ BaseInv' /\ (\A e \in Domains \ {"RKVDEC0"} : Kept(e)) /\ UNCHANGED <<refs, gated, reset, clksel>>
        /\ Went(Suffix(FullCoreResetProg("rvd0"), 2), TRUE)
    <3>1. "RKVDEC0" \in Domains
      BY DEF Domains
    <3> QED BY <1>1, <2>1, <2>2, <3>1, OffStep
  <2>4. ParentsFrame /\ Av1Frame /\ CoreFrame("rvd1")
    BY <2>3, FramesOf, CoreFrameOf, Wiring DEF SameBit, Went, Domains
  <2>5. /\ "rk" \in clksel' /\ "40bus" \notin gated' /\ ("rvd0" \in quiet => "40leaf" \notin gated')
        /\ (2 <= 2 \/ 2 = 6 => Con40 \cap reset' = {})
    BY <1>1, <1>5, <2>3, Wiring
  <2>6. 2 \in 1 .. 6 /\ n = 2 - 1
    BY <1>5
  <2> QED BY <1>4, <2>3, <2>4, <2>5, <2>6
<1>6. CASE n = 2
  <2>1. Head(mx.prog) = Assert(Con40) /\ Tail(mx.prog) = Suffix(FullCoreResetProg("rvd0"), 3) /\ Cont(Tail(mx.prog))
    BY <1>1, <1>2, <1>6, FullCoreReset0Ops
  <2>3. /\ BaseInv' /\ (\A e \in Domains : Kept(e)) /\ UNCHANGED <<refs, gated, clksel>>
        /\ Went(Suffix(FullCoreResetProg("rvd0"), 3), TRUE) /\ reset' = reset \cup Con40
    BY <1>1, <2>1, AssertStep
  <2>4. ParentsFrame /\ Av1Frame /\ CoreFrame("rvd1")
    BY <2>3, FramesOf, CoreFrameOf, Wiring DEF SameBit, Went, Domains
  <2>5. /\ "rk" \in clksel' /\ "40bus" \notin gated' /\ ("rvd0" \in quiet => "40leaf" \notin gated')
        /\ (3 <= 2 \/ 3 = 6 => Con40 \cap reset' = {})
    BY <1>1, <1>6, <2>3, Wiring
  <2>6. 3 \in 1 .. 6 /\ n = 3 - 1
    BY <1>6
  <2> QED BY <1>4, <2>3, <2>4, <2>5, <2>6
<1>7. CASE n = 3
  <2>1. Head(mx.prog) = Clksel("rk") /\ Tail(mx.prog) = Suffix(FullCoreResetProg("rvd0"), 4) /\ Cont(Tail(mx.prog))
    BY <1>1, <1>2, <1>7, FullCoreReset0Ops
  <2>3. /\ BaseInv' /\ (\A e \in Domains : Kept(e)) /\ UNCHANGED <<refs, gated, reset>>
        /\ Went(Suffix(FullCoreResetProg("rvd0"), 4), TRUE) /\ clksel' = clksel \cup {"rk"}
    BY <1>1, <2>1, ClkselStep
  <2>4. ParentsFrame /\ Av1Frame /\ CoreFrame("rvd1")
    BY <2>3, FramesOf, CoreFrameOf, Wiring DEF SameBit, Went, Domains
  <2>5. /\ "rk" \in clksel' /\ "40bus" \notin gated' /\ ("rvd0" \in quiet => "40leaf" \notin gated')
        /\ (4 <= 2 \/ 4 = 6 => Con40 \cap reset' = {})
    BY <1>1, <1>7, <2>3, Wiring
  <2>6. 4 \in 1 .. 6 /\ n = 4 - 1
    BY <1>7
  <2> QED BY <1>4, <2>3, <2>4, <2>5, <2>6
<1>8. CASE n = 4
  <2>1. Head(mx.prog) = Ungate(Con40) /\ Tail(mx.prog) = Suffix(FullCoreResetProg("rvd0"), 5) /\ Cont(Tail(mx.prog))
    BY <1>1, <1>2, <1>8, FullCoreReset0Ops
  <2>3. /\ BaseInv' /\ (\A e \in Domains : Kept(e)) /\ UNCHANGED <<refs, reset, clksel>>
        /\ Went(Suffix(FullCoreResetProg("rvd0"), 5), TRUE) /\ gated' = gated \ Con40
    BY <1>1, <2>1, UngateStep
  <2>4. ParentsFrame /\ Av1Frame /\ CoreFrame("rvd1")
    BY <2>3, FramesOf, CoreFrameOf, Wiring DEF SameBit, Went, Domains
  <2>5. /\ "rk" \in clksel' /\ "40bus" \notin gated' /\ ("rvd0" \in quiet => "40leaf" \notin gated')
        /\ (5 <= 2 \/ 5 = 6 => Con40 \cap reset' = {})
    BY <1>1, <1>8, <2>3, Wiring
  <2>6. 5 \in 1 .. 6 /\ n = 5 - 1
    BY <1>8
  <2> QED BY <1>4, <2>3, <2>4, <2>5, <2>6
<1>9. CASE n = 5
  <2>1. Head(mx.prog) = Deassert(Con40) /\ Tail(mx.prog) = Suffix(FullCoreResetProg("rvd0"), 6) /\ Cont(Tail(mx.prog))
    BY <1>1, <1>2, <1>9, FullCoreReset0Ops
  <2>3. /\ BaseInv' /\ (\A e \in Domains : Kept(e)) /\ UNCHANGED <<refs, gated, clksel>>
        /\ Went(Suffix(FullCoreResetProg("rvd0"), 6), TRUE) /\ reset' = reset \ Con40
    BY <1>1, <2>1, DeassertStep
  <2>4. ParentsFrame /\ Av1Frame /\ CoreFrame("rvd1")
    BY <2>3, FramesOf, CoreFrameOf, Wiring DEF SameBit, Went, Domains
  <2>5. /\ "rk" \in clksel' /\ "40bus" \notin gated' /\ ("rvd0" \in quiet => "40leaf" \notin gated')
        /\ (6 <= 2 \/ 6 = 6 => Con40 \cap reset' = {})
    BY <1>1, <1>9, <2>3, Wiring
  <2>6. 6 \in 1 .. 6 /\ n = 6 - 1
    BY <1>9
  <2> QED BY <1>4, <2>3, <2>4, <2>5, <2>6
<1>10. CASE n = 6
  <2>1. Head(mx.prog) = On("RKVDEC0") /\ Tail(mx.prog) = << >> /\ Cont(Tail(mx.prog))
    BY <1>1, <1>2, <1>10, FullCoreReset0Ops
  <2>2. "RKVDEC0" \in Domains /\ (faults = 0 => BusAlive("RKVDEC0", on \cup {"RKVDEC0"}))
    <3>1. BusOf("RKVDEC0") \cap (gated \cup reset) = {}
      BY <1>1, <1>10, Wiring
    <3> QED BY <1>1, <3>1, Alive DEF BaseInv, Domains
  <2>3. /\ BaseInv' /\ (\A e \in Domains \ {"RKVDEC0"} : Kept(e)) /\ UNCHANGED <<refs, gated, reset, clksel>>
        /\ Up("RKVDEC0")' /\ \E ok \in BOOLEAN : Went(<< >>, ok)
    BY <1>1, <2>1, <2>2, OnStep, Undoing
  <2>4. ParentsFrame /\ Av1Frame /\ CoreFrame("rvd1")
    BY <2>3, FramesOf, CoreFrameOf, Wiring DEF SameBit, Went, Domains
  <2>5. ParentsUp' /\ Av1Ok' /\ CoreUp("rvd1")'
    <3>1. "rvd1" \in Rvds
      BY DEF Rvds
    <3> QED BY <1>1, <2>3, <2>4, <3>1, ParentsFrameKeeps, Av1FrameKeeps, CoreFrameKeeps
  <2>6. CoreUp("rvd0")'
    BY <1>1, <1>10, <2>3, Wiring DEF CoreUp, Went
  <2>7. refs.par > 0 /\ mx'.prog = << >>
    <3>1. refs.rk > 0 /\ refs.par = Bit(refs.rk > 0) + Bit(refs.av1 > 0)
      BY <1>1
    <3> QED BY <2>3, <3>1 DEF Bit, Went
  <2>8. Resting'
    BY <1>1, <2>3, <2>5, <2>6, <2>7 DEF Resting, ParentsOk, RkOk
  <2> QED BY <2>3, <2>8 DEF CInv, Place
<1> QED BY <1>5, <1>6, <1>7, <1>8, <1>9, <1>10

LEMMA Resetting1Step ==
    ASSUME CInv, Step, NEW n \in 1 .. 5, ResettingRk("rvd1", n)
    PROVE  CInv'
<1>1. /\ BaseInv /\ mx.prog = Suffix(FullCoreResetProg("rvd1"), n) /\ mx.t \in Threads /\ OwnerOf(mx.t) = "rvd1"
      /\ call[mx.t] = "FullReset" /\ mx.ok = TRUE /\ Av1Ok /\ CoreUp("rvd0") /\ "rk" \in clksel /\ ParentsUp
      /\ refs.rk > 0 /\ refs.par = Bit(refs.rk > 0) + Bit(refs.av1 > 0)
      /\ "41bus" \notin gated /\ ("rvd1" \in quiet => "41leaf" \notin gated)
      /\ (n = 1 => Up("RKVDEC1")) /\ (n <= 2 \/ n = 5 => Con41 \cap reset = {})
  <2>1. Len(FullCoreResetProg("rvd1")) = 5 /\ "rvd0" \in Rvds \ {"rvd1"}
    BY FullCoreReset1Ops DEF Rvds
  <2>2. mx.ok \in BOOLEAN
    BY Holder DEF CInv, BaseInv, Step
  <2> QED BY <2>1, <2>2, Wiring DEF CInv, ResettingRk, Reset
<1>2. /\ Head(mx.prog) = FullCoreResetProg("rvd1")[n] /\ Tail(mx.prog) = Suffix(FullCoreResetProg("rvd1"), n + 1)
      /\ Cont(Tail(mx.prog)) /\ (n = 5 => Tail(mx.prog) = << >>)
  <2>1. /\ Head(Suffix(FullCoreResetProg("rvd1"), n)) = FullCoreResetProg("rvd1")[n] /\ Tail(Suffix(FullCoreResetProg("rvd1"), n)) = Suffix(FullCoreResetProg("rvd1"), n + 1)
        /\ n = 5 => Suffix(FullCoreResetProg("rvd1"), n + 1) = << >>
    BY FullCoreReset1At
  <2> QED BY <1>1, <2>1, Zenon DEF Cont
<1>3. /\ Len(FullCoreResetProg("rvd1")) = 5 /\ Rvds \ {"rvd1"} = {"rvd0"}
  BY FullCoreReset1Ops DEF Rvds
<1>4. ASSUME NEW k \in 1 .. 5, n = k - 1, BaseInv', ParentsFrame, Av1Frame, CoreFrame("rvd0"), refs' = refs,
             Went(Suffix(FullCoreResetProg("rvd1"), k), TRUE), "rk" \in clksel',
             "41bus" \notin gated', "rvd1" \in quiet => "41leaf" \notin gated',
             k <= 2 \/ k = 5 => Con41 \cap reset' = {}
      PROVE  CInv'
  <2>1. ParentsUp' /\ Av1Ok' /\ CoreUp("rvd0")'
    <3>1. "rvd0" \in Rvds
      BY DEF Rvds
    <3> QED BY <1>1, <1>4, <3>1, ParentsFrameKeeps, Av1FrameKeeps, CoreFrameKeeps
  <2>2. Reset("rvd1")'
    BY <1>1, <1>4, <2>1, Wiring DEF Reset, Went
  <2>3. mx'.prog = Suffix(FullCoreResetProg("rvd1"), k) /\ busy' = busy /\ quiet' = quiet /\ gating' = gating /\ k # 1
    BY <1>4 DEF Went
  <2>4. \A e \in Rvds \ {"rvd1"} : CoreUp(e)'
    BY <1>3, <2>1
  <2>5. ResettingRk("rvd1", k)'
    <3>1. /\ BusOf(DomainOf("rvd1")) \cap gated' = {} /\ ("rvd1" \in quiet' => LeafOf("rvd1") \cap gated' = {})
          /\ ConOf("rvd1") = Con41
      BY <1>4, <2>3, Wiring
    <3>2. k <= 2 \/ k = Len(FullCoreResetProg("rvd1")) => ConOf("rvd1") \cap reset' = {}
      BY <1>3, <1>4, <3>1
    <3> QED BY <1>4, <2>1, <2>2, <2>3, <2>4, <3>1, <3>2, Zenon DEF ResettingRk
  <2>6. k \in 1 .. 6 /\ "rvd1" \in Rvds /\ k <= Len(FullCoreResetProg("rvd1"))
    <3>1. k \in 1 .. 6 /\ k <= 5 /\ "rvd1" \in Rvds
      BY DEF Rvds
    <3> QED BY <1>3, <3>1, Zenon
  <2> QED BY <1>4, <2>5, <2>6 DEF CInv, Place
<1>5. CASE n = 1
  <2>1. Head(mx.prog) = Off("RKVDEC1") /\ Tail(mx.prog) = Suffix(FullCoreResetProg("rvd1"), 2) /\ Cont(Tail(mx.prog))
    BY <1>1, <1>2, <1>5, FullCoreReset1Ops
  <2>2. faults = 0 => BusAlive("RKVDEC1", on)
    <3>1. BusOf("RKVDEC1") \cap (gated \cup reset) = {} /\ Up("RKVDEC1")
      BY <1>1, <1>5, Wiring
    <3>2. faults = 0 => "RKVDEC1" \in on
      BY <1>1, <3>1 DEF BaseInv, FaultInv, Up
    <3> QED BY <1>1, <3>1, <3>2, Alive DEF BaseInv
  <2>3. /\ BaseInv' /\ (\A e \in Domains \ {"RKVDEC1"} : Kept(e)) /\ UNCHANGED <<refs, gated, reset, clksel>>
        /\ Went(Suffix(FullCoreResetProg("rvd1"), 2), TRUE)
    <3>1. "RKVDEC1" \in Domains
      BY DEF Domains
    <3> QED BY <1>1, <2>1, <2>2, <3>1, OffStep
  <2>4. ParentsFrame /\ Av1Frame /\ CoreFrame("rvd0")
    BY <2>3, FramesOf, CoreFrameOf, Wiring DEF SameBit, Went, Domains
  <2>5. /\ "rk" \in clksel' /\ "41bus" \notin gated' /\ ("rvd1" \in quiet => "41leaf" \notin gated')
        /\ (2 <= 2 \/ 2 = 5 => Con41 \cap reset' = {})
    BY <1>1, <1>5, <2>3, Wiring
  <2>6. 2 \in 1 .. 5 /\ n = 2 - 1
    BY <1>5
  <2> QED BY <1>4, <2>3, <2>4, <2>5, <2>6
<1>6. CASE n = 2
  <2>1. Head(mx.prog) = Assert(Con41) /\ Tail(mx.prog) = Suffix(FullCoreResetProg("rvd1"), 3) /\ Cont(Tail(mx.prog))
    BY <1>1, <1>2, <1>6, FullCoreReset1Ops
  <2>3. /\ BaseInv' /\ (\A e \in Domains : Kept(e)) /\ UNCHANGED <<refs, gated, clksel>>
        /\ Went(Suffix(FullCoreResetProg("rvd1"), 3), TRUE) /\ reset' = reset \cup Con41
    BY <1>1, <2>1, AssertStep
  <2>4. ParentsFrame /\ Av1Frame /\ CoreFrame("rvd0")
    BY <2>3, FramesOf, CoreFrameOf, Wiring DEF SameBit, Went, Domains
  <2>5. /\ "rk" \in clksel' /\ "41bus" \notin gated' /\ ("rvd1" \in quiet => "41leaf" \notin gated')
        /\ (3 <= 2 \/ 3 = 5 => Con41 \cap reset' = {})
    BY <1>1, <1>6, <2>3, Wiring
  <2>6. 3 \in 1 .. 5 /\ n = 3 - 1
    BY <1>6
  <2> QED BY <1>4, <2>3, <2>4, <2>5, <2>6
<1>7. CASE n = 3
  <2>1. Head(mx.prog) = Ungate(Con41) /\ Tail(mx.prog) = Suffix(FullCoreResetProg("rvd1"), 4) /\ Cont(Tail(mx.prog))
    BY <1>1, <1>2, <1>7, FullCoreReset1Ops
  <2>3. /\ BaseInv' /\ (\A e \in Domains : Kept(e)) /\ UNCHANGED <<refs, reset, clksel>>
        /\ Went(Suffix(FullCoreResetProg("rvd1"), 4), TRUE) /\ gated' = gated \ Con41
    BY <1>1, <2>1, UngateStep
  <2>4. ParentsFrame /\ Av1Frame /\ CoreFrame("rvd0")
    BY <2>3, FramesOf, CoreFrameOf, Wiring DEF SameBit, Went, Domains
  <2>5. /\ "rk" \in clksel' /\ "41bus" \notin gated' /\ ("rvd1" \in quiet => "41leaf" \notin gated')
        /\ (4 <= 2 \/ 4 = 5 => Con41 \cap reset' = {})
    BY <1>1, <1>7, <2>3, Wiring
  <2>6. 4 \in 1 .. 5 /\ n = 4 - 1
    BY <1>7
  <2> QED BY <1>4, <2>3, <2>4, <2>5, <2>6
<1>8. CASE n = 4
  <2>1. Head(mx.prog) = Deassert(Con41) /\ Tail(mx.prog) = Suffix(FullCoreResetProg("rvd1"), 5) /\ Cont(Tail(mx.prog))
    BY <1>1, <1>2, <1>8, FullCoreReset1Ops
  <2>3. /\ BaseInv' /\ (\A e \in Domains : Kept(e)) /\ UNCHANGED <<refs, gated, clksel>>
        /\ Went(Suffix(FullCoreResetProg("rvd1"), 5), TRUE) /\ reset' = reset \ Con41
    BY <1>1, <2>1, DeassertStep
  <2>4. ParentsFrame /\ Av1Frame /\ CoreFrame("rvd0")
    BY <2>3, FramesOf, CoreFrameOf, Wiring DEF SameBit, Went, Domains
  <2>5. /\ "rk" \in clksel' /\ "41bus" \notin gated' /\ ("rvd1" \in quiet => "41leaf" \notin gated')
        /\ (5 <= 2 \/ 5 = 5 => Con41 \cap reset' = {})
    BY <1>1, <1>8, <2>3, Wiring
  <2>6. 5 \in 1 .. 5 /\ n = 5 - 1
    BY <1>8
  <2> QED BY <1>4, <2>3, <2>4, <2>5, <2>6
<1>9. CASE n = 5
  <2>1. Head(mx.prog) = On("RKVDEC1") /\ Tail(mx.prog) = << >> /\ Cont(Tail(mx.prog))
    BY <1>1, <1>2, <1>9, FullCoreReset1Ops
  <2>2. "RKVDEC1" \in Domains /\ (faults = 0 => BusAlive("RKVDEC1", on \cup {"RKVDEC1"}))
    <3>1. BusOf("RKVDEC1") \cap (gated \cup reset) = {}
      BY <1>1, <1>9, Wiring
    <3> QED BY <1>1, <3>1, Alive DEF BaseInv, Domains
  <2>3. /\ BaseInv' /\ (\A e \in Domains \ {"RKVDEC1"} : Kept(e)) /\ UNCHANGED <<refs, gated, reset, clksel>>
        /\ Up("RKVDEC1")' /\ \E ok \in BOOLEAN : Went(<< >>, ok)
    BY <1>1, <2>1, <2>2, OnStep, Undoing
  <2>4. ParentsFrame /\ Av1Frame /\ CoreFrame("rvd0")
    BY <2>3, FramesOf, CoreFrameOf, Wiring DEF SameBit, Went, Domains
  <2>5. ParentsUp' /\ Av1Ok' /\ CoreUp("rvd0")'
    <3>1. "rvd0" \in Rvds
      BY DEF Rvds
    <3> QED BY <1>1, <2>3, <2>4, <3>1, ParentsFrameKeeps, Av1FrameKeeps, CoreFrameKeeps
  <2>6. CoreUp("rvd1")'
    BY <1>1, <1>9, <2>3, Wiring DEF CoreUp, Went
  <2>7. refs.par > 0 /\ mx'.prog = << >>
    <3>1. refs.rk > 0 /\ refs.par = Bit(refs.rk > 0) + Bit(refs.av1 > 0)
      BY <1>1
    <3> QED BY <2>3, <3>1 DEF Bit, Went
  <2>8. Resting'
    BY <1>1, <2>3, <2>5, <2>6, <2>7 DEF Resting, ParentsOk, RkOk
  <2> QED BY <2>3, <2>8 DEF CInv, Place
<1> QED BY <1>5, <1>6, <1>7, <1>8, <1>9

LEMMA ResettingAv1Step ==
    ASSUME CInv, Step, NEW n \in 1 .. 4, ResettingAv1(n)
    PROVE  CInv'
<1>1. /\ BaseInv /\ mx.prog = Suffix(FullAv1ResetProg, n) /\ mx.t \in Threads /\ OwnerOf(mx.t) = "av1"
      /\ call[mx.t] = "FullReset" /\ mx.ok = TRUE /\ RkOk /\ Av1On /\ ParentsUp /\ "AV1" \in on /\ "AV1" \in pwr
      /\ refs.av1 > 0 /\ refs.par = Bit(refs.rk > 0) + Bit(refs.av1 > 0) /\ (n # 3 => "68" \notin reset)
  <2>1. mx.ok \in BOOLEAN
    BY Holder DEF CInv, BaseInv, Step
  <2> QED BY <2>1, Wiring DEF CInv, ResettingAv1, Reset, Av1On
<1>2. /\ Head(mx.prog) = FullAv1ResetProg[n] /\ Tail(mx.prog) = Suffix(FullAv1ResetProg, n + 1)
      /\ Cont(Tail(mx.prog)) /\ (n = 4 => Tail(mx.prog) = << >>)
  <2>1. /\ Head(Suffix(FullAv1ResetProg, n)) = FullAv1ResetProg[n] /\ Tail(Suffix(FullAv1ResetProg, n)) = Suffix(FullAv1ResetProg, n + 1)
        /\ n = 4 => Suffix(FullAv1ResetProg, n + 1) = << >>
    BY FullAv1ResetAt
  <2> QED BY <1>1, <2>1, Zenon DEF Cont
<1>3. ASSUME NEW k \in 2 .. 4, BaseInv', ParentsFrame, RkFrame, refs' = refs, Went(Suffix(FullAv1ResetProg, k), TRUE), Av1On',
             k # 3 => "68" \notin reset'
      PROVE  CInv'
  <2>1. ParentsUp' /\ RkOk'
    BY <1>1, <1>3, ParentsFrameKeeps, RkFrameKeeps
  <2>2. Reset("av1")'
    BY <1>1, <1>3, <2>1, Wiring DEF Reset, Went
  <2>3. ResettingAv1(k)'
    BY <1>3, <2>1, <2>2 DEF ResettingAv1, Went
  <2> QED BY <1>3, <2>3 DEF CInv, Place
<1>4. CASE n = 1
  <2>0. FullAv1ResetProg[1] = Idle(TRUE) /\ 1 + 1 = 2
    BY FullAv1ResetOps
  <2>1. Head(mx.prog) = Idle(TRUE) /\ Tail(mx.prog) = Suffix(FullAv1ResetProg, 2) /\ Cont(Tail(mx.prog))
    BY <1>1, <1>2, <1>4, <2>0, Zenon
  <2>2. /\ BaseInv' /\ (\A e \in Domains \ {"AV1"} : Kept(e)) /\ UNCHANGED <<refs, gated, reset, clksel>>
        /\ Went(Suffix(FullAv1ResetProg, 2), TRUE) /\ "AV1" \in on' /\ "AV1" \in pwr'
    BY <1>1, <2>1, IdleStep
  <2>3. Av1On'
    BY <1>1, <2>2 DEF Av1On, Went
  <2>4. ParentsFrame /\ RkFrame
    BY <2>2, FramesOf, Wiring DEF SameBit, Went, Domains
  <2>5. 2 # 3 => "68" \notin reset'
    BY <1>1, <1>4, <2>2, Wiring
  <2>6. 2 \in 2 .. 4
    OBVIOUS
  <2> QED BY <1>3, <2>2, <2>3, <2>4, <2>5, <2>6
<1>5. CASE n = 2
  <2>0. FullAv1ResetProg[2] = Assert(Con68) /\ 2 + 1 = 3
    BY FullAv1ResetOps
  <2>1. Head(mx.prog) = Assert(Con68) /\ Tail(mx.prog) = Suffix(FullAv1ResetProg, 3) /\ Cont(Tail(mx.prog))
    BY <1>1, <1>2, <1>5, <2>0, Zenon
  <2>2. /\ BaseInv' /\ (\A e \in Domains : Kept(e)) /\ UNCHANGED <<refs, gated, clksel>>
        /\ Went(Suffix(FullAv1ResetProg, 3), TRUE) /\ reset' = reset \cup Con68
    BY <1>1, <2>1, AssertStep
  <2>3. Av1On'
    <3>1. Kept("AV1")
      BY <2>2 DEF Domains
    <3> QED BY <1>1, <2>2, <3>1 DEF Av1On, Kept, Untouched, Went
  <2>4. ParentsFrame /\ RkFrame
    BY <2>2, FramesOf, Wiring DEF SameBit, Went, Domains
  <2>5. 3 # 3 => "68" \notin reset'
    BY <1>1, <1>5, <2>2, Wiring
  <2>6. 3 \in 2 .. 4
    OBVIOUS
  <2> QED BY <1>3, <2>2, <2>3, <2>4, <2>5, <2>6
<1>6. CASE n = 3
  <2>0. FullAv1ResetProg[3] = Deassert(Con68) /\ 3 + 1 = 4
    BY FullAv1ResetOps
  <2>1. Head(mx.prog) = Deassert(Con68) /\ Tail(mx.prog) = Suffix(FullAv1ResetProg, 4) /\ Cont(Tail(mx.prog))
    BY <1>1, <1>2, <1>6, <2>0, Zenon
  <2>2. /\ BaseInv' /\ (\A e \in Domains : Kept(e)) /\ UNCHANGED <<refs, gated, clksel>>
        /\ Went(Suffix(FullAv1ResetProg, 4), TRUE) /\ reset' = reset \ Con68
    BY <1>1, <2>1, DeassertStep
  <2>3. Av1On'
    <3>1. Kept("AV1")
      BY <2>2 DEF Domains
    <3> QED BY <1>1, <2>2, <3>1 DEF Av1On, Kept, Untouched, Went
  <2>4. ParentsFrame /\ RkFrame
    BY <2>2, FramesOf, Wiring DEF SameBit, Went, Domains
  <2>5. 4 # 3 => "68" \notin reset'
    BY <1>1, <1>6, <2>2, Wiring
  <2>6. 4 \in 2 .. 4
    OBVIOUS
  <2> QED BY <1>3, <2>2, <2>3, <2>4, <2>5, <2>6
<1>7. CASE n = 4
  <2>0. FullAv1ResetProg[4] = Idle(FALSE) /\ 4 + 1 = 5
    BY FullAv1ResetOps
  <2>1. Head(mx.prog) = Idle(FALSE) /\ Tail(mx.prog) = << >> /\ Cont(Tail(mx.prog))
    BY <1>1, <1>2, <1>7, <2>0, Zenon
  <2>2. /\ BaseInv' /\ (\A e \in Domains \ {"AV1"} : Kept(e)) /\ UNCHANGED <<refs, gated, reset, clksel>>
        /\ Went(<< >>, TRUE) /\ "AV1" \in on' /\ "AV1" \in pwr' /\ Up("AV1")'
    BY <1>1, <2>1, IdleStep
  <2>3. Av1On'
    BY <1>1, <2>2 DEF Av1On, Went
  <2>4. ParentsFrame /\ RkFrame
    BY <2>2, FramesOf, Wiring DEF SameBit, Went, Domains
  <2>5. ParentsUp' /\ RkOk'
    BY <1>1, <2>2, <2>4, ParentsFrameKeeps, RkFrameKeeps
  <2>6. "68" \notin reset'
    BY <1>1, <1>7, <2>2
  <2>7. refs.par > 0 /\ mx'.prog = << >>
    <3>1. refs.av1 > 0 /\ refs.par = Bit(refs.rk > 0) + Bit(refs.av1 > 0)
      BY <1>1
    <3> QED BY <2>2, <3>1 DEF Bit, Went
  <2>8. Resting'
    BY <1>1, <2>2, <2>3, <2>5, <2>6, <2>7 DEF Resting, ParentsOk, Av1Ok
  <2> QED BY <2>2, <2>8 DEF CInv, Place
<1> QED BY <1>4, <1>5, <1>6, <1>7

LEMMA StepKeeps ==
    ASSUME CInv, Step
    PROVE  CInv'
<1>1. ~Resting
  BY DEF Resting, Step
<1>2. ASSUME NEW c \in Rvds, NEW n \in 1 .. 6, n <= Len(FullCoreResetProg(c)), ResettingRk(c, n) PROVE CInv'
  <2>1. CASE c = "rvd0"
    BY <1>2, <2>1, Resetting0Step
  <2>2. CASE c = "rvd1"
    <3>1. Len(FullCoreResetProg("rvd1")) = 5
      BY FullCoreReset1Ops
    <3>2. n <= 5
      BY <1>2, <2>2, <3>1, Zenon
    <3>3. n \in 1 .. 5
      BY <3>2
    <3> QED BY <1>2, <2>2, <3>3, Resetting1Step
  <2> QED BY <2>1, <2>2 DEF Rvds
<1> QED BY <1>1, <1>2, RaisingRkStep, UndoingRkStep, DroppingRkStep, RaisingAv1Step, UndoingAv1Step, DroppingAv1Step,
           RaisingParentsStep, UndoingParentsStep, DroppingParentsStep, ResettingAv1Step DEF CInv, Place

-----------------------------------------------------------------------------
\* The clients' own steps and what the hardware does on its own time: the program stands still, and
\* what its assertion says stays true.

LEMMA Rests ==
    ASSUME CInv, mx.prog = << >>
    PROVE  Resting
<1>1. ASSUME NEW n \in 1 .. 9 PROVE ~RaisingRk(n)
  BY <1>1, RaiseClusterAt DEF RaisingRk
<1>2. ASSUME NEW n \in 1 .. 6 PROVE ~UndoingRk(n)
  BY <1>2, UndoRkAt DEF UndoingRk
<1>3. ASSUME NEW n \in 1 .. 8 PROVE ~DroppingRk(n)
  BY <1>3, DropClusterAt DEF DroppingRk
<1>4. ASSUME NEW n \in 1 .. 6 PROVE ~RaisingAv1(n)
  BY <1>4, RaiseAv1At DEF RaisingAv1
<1>5. ASSUME NEW n \in 1 .. 2 PROVE ~UndoingAv1(n)
  BY <1>5, UndoAv1At DEF UndoingAv1
<1>6. ASSUME NEW n \in 1 .. 5 PROVE ~DroppingAv1(n)
  BY <1>6, DropAv1At DEF DroppingAv1
<1>7. ASSUME NEW n \in 1 .. 4 PROVE ~RaisingParents(n) /\ ~UndoingParents(n) /\ ~DroppingParents(n)
  <2>1. ~RaisingParents(n)
    <3>1. \A t \in Seq(Ops) : Then(RaiseParentsProg, n, t) # << >>
      BY <1>7, RaiseParentsCatAt
    <3> QED BY <3>1, TailsTyped DEF RaisingParents
  <2>2. ~UndoingParents(n)
    BY <1>7, UndoParentsAt DEF UndoingParents
  <2>3. ~DroppingParents(n)
    <3>1. \A t \in Seq(Ops) : Then(DropParentsProg, n, t) # << >>
      BY <1>7, DropParentsCatAt
    <3> QED BY <3>1, TailsTyped DEF DroppingParents
  <2> QED BY <2>1, <2>2, <2>3
<1>8. ASSUME NEW c \in Rvds, NEW n \in 1 .. 6, n <= Len(FullCoreResetProg(c)) PROVE ~ResettingRk(c, n)
  <2>1. CASE c = "rvd0"
    BY <1>8, <2>1, FullCoreReset0At DEF ResettingRk
  <2>2. CASE c = "rvd1"
    <3>1. Len(FullCoreResetProg("rvd1")) = 5
      BY FullCoreReset1Ops
    <3>2. n <= 5
      BY <1>8, <2>2, <3>1, Zenon
    <3>3. n \in 1 .. 5
      BY <3>2
    <3> QED BY <2>2, <3>3, FullCoreReset1At DEF ResettingRk
  <2> QED BY <2>1, <2>2 DEF Rvds
<1>9. ASSUME NEW n \in 1 .. 4 PROVE ~ResettingAv1(n)
  BY <1>9, FullAv1ResetAt DEF ResettingAv1
<1> QED BY <1>1, <1>2, <1>3, <1>4, <1>5, <1>6, <1>7, <1>8, <1>9 DEF CInv, Place

Steady ==
    /\ mx' = mx /\ refs' = refs /\ clksel' = clksel /\ SameBit("44")
    /\ mx.prog # << >> => call'[mx.t] = call[mx.t]
    /\ \A e \in Domains : /\ Up(e) => Up(e)'
                          /\ Released(e) => Released(e)'
                          /\ e \in on /\ e \in pwr => e \in on' /\ e \in pwr'
\* At most the leaf clocks stop, and not those of a quiet core.
CoreSteady(c) ==
    /\ \A b \in ConOf(c) : (b \in reset') = (b \in reset) /\ (b \in gated => b \in gated')
    /\ BusOf(DomainOf(c)) \cap gated' \subseteq gated
    /\ c \in quiet' => c \in quiet /\ LeafOf(c) \cap gated' \subseteq gated
    /\ Pulsing(c) => Pulsing(c)'
RkSteady == \A c \in Rvds : CoreSteady(c)
Av1Steady == SameBit("68") /\ (pc'["av1"] = "up" => pc["av1"] = "up")

LEMMA SteadyParents ==
    ASSUME Steady
    PROVE  (ParentsUp => ParentsUp') /\ (ParentsCold => ParentsCold') /\ (ParentsOk => ParentsOk')
<1>1. (ParentsUp => ParentsUp') /\ (ParentsCold => ParentsCold')
  BY DEF Steady, ParentsUp, ParentsCold, SameBit, Domains
<1> QED BY <1>1 DEF ParentsOk, Steady

LEMMA SteadyCore ==
    ASSUME Steady, NEW c \in Rvds, CoreSteady(c)
    PROVE  CoreUp(c) => CoreUp(c)'
<1>1. DomainOf(c) \in Domains
  BY Wiring DEF Rvds, Domains
<1>2. BusOf(DomainOf(c)) \subseteq ConOf(c) /\ LeafOf(c) \subseteq ConOf(c)
  BY Wiring DEF Rvds
<1> QED BY <1>1, <1>2 DEF Steady, CoreUp, CoreSteady

LEMMA SteadyRk ==
    ASSUME Steady, RkSteady
    PROVE  /\ \A c \in Rvds : CoreUp(c) => CoreUp(c)'
           /\ (RkCold => RkCold') /\ (RkOk => RkOk')
<1>1. \A c \in Rvds : CoreUp(c) => CoreUp(c)'
  BY SteadyCore DEF RkSteady
<1>2. RkCold => RkCold'
  BY Wiring DEF Steady, RkSteady, CoreSteady, RkCold, Domains, Rvds
<1>3. "rvd0" \in Rvds /\ "rvd1" \in Rvds
  BY DEF Rvds
<1> QED BY <1>1, <1>2, <1>3 DEF RkOk, Steady

LEMMA SteadyAv1 ==
    ASSUME Steady, Av1Steady
    PROVE  Av1On => Av1On'
BY DEF Steady, Av1Steady, Av1On, SameBit, Domains

\* Nothing of the rkvdec cores changes; the AV1 clocks may, while the AV1 client holds them.
LEMMA PlaceKeeps ==
    ASSUME CInv, Steady, RkSteady, Av1On => Av1On', "68" \in reset' => "68" \in reset, refs.av1 = 0 => SameBit("68")
    PROVE  Place'
<1>1. (ParentsUp => ParentsUp') /\ (ParentsCold => ParentsCold') /\ (ParentsOk => ParentsOk')
  BY SteadyParents
<1>2. /\ \A c \in Rvds : CoreUp(c) => CoreUp(c)'
      /\ (RkCold => RkCold') /\ (RkOk => RkOk')
  BY SteadyRk
<1>3. Av1Ok => Av1Ok'
  BY DEF Av1Ok, Steady, Domains
<1>4. mx' = mx /\ refs' = refs /\ clksel' = clksel /\ (mx.prog # << >> => call'[mx.t] = call[mx.t])
  BY DEF Steady
<1>5. CASE mx.prog = << >>
  <2>1. Resting
    BY <1>5, Rests
  <2>2. Resting'
    BY <1>1, <1>2, <1>3, <1>4, <2>1 DEF Resting
  <2> QED BY <2>2 DEF Place
<1>6. CASE mx.prog # << >>
  <2>1. call'[mx'.t] = call[mx.t]
    BY <1>4, <1>6
  <2>2. \A ts, e, ok : Inside(ts, e, ok) => Inside(ts, e, ok)'
    BY <1>4, <2>1 DEF Inside
  <2>3. /\ \A b \in Con40 \cup Con41 : (b \in reset') = (b \in reset) /\ (b \in gated => b \in gated')
        /\ ("40bus" \notin gated => "40bus" \notin gated') /\ ("41bus" \notin gated => "41bus" \notin gated')
    BY Wiring DEF RkSteady, CoreSteady, Rvds
  <2>4. /\ \A d \in {"RKVDEC0", "RKVDEC1", "VCODEC", "VDPU", "AV1"} :
             (Up(d) => Up(d)') /\ (Released(d) => Released(d)') /\ (d \in on /\ d \in pwr => d \in on' /\ d \in pwr')
        /\ SameBit("44")
    BY DEF Steady, Domains
  <2>5. ASSUME NEW n \in 1 .. 9, RaisingRk(n) PROVE RaisingRk(n)'
    <3>1. /\ (Con40 \subseteq gated => Con40 \subseteq gated') /\ ("40bus" \notin gated => "40bus" \notin gated')
          /\ (Con41 \subseteq gated => Con41 \subseteq gated') /\ ("41bus" \notin gated => "41bus" \notin gated')
      BY <2>3
    <3>2. /\ (Con40 \subseteq reset => Con40 \subseteq reset') /\ (Con40 \cap reset = {} => Con40 \cap reset' = {})
          /\ (Con41 \subseteq reset => Con41 \subseteq reset') /\ (Con41 \cap reset = {} => Con41 \cap reset' = {})
      BY <2>3
    <3>3. /\ mx'.prog = Suffix(RaiseClusterProg, n) /\ Inside(Rvds, "Raise", TRUE)'
          /\ refs'.rk = 0 /\ Av1Ok'
          /\ n = 1 => refs'.par = Bit(refs'.av1 > 0) /\ ParentsOk'
          /\ n > 1 => refs'.par = 1 + Bit(refs'.av1 > 0) /\ ParentsUp'
          /\ n > 2 => "rk" \in clksel'
      BY <1>1, <1>3, <1>4, <2>2, <2>5 DEF RaisingRk
    <3>4. /\ IF n <= 3 THEN Con40 \subseteq gated' ELSE "40bus" \notin gated'
          /\ IF n <= 4 THEN Con40 \subseteq reset' ELSE Con40 \cap reset' = {}
          /\ IF n <= 6 THEN Con41 \subseteq gated' ELSE "41bus" \notin gated'
          /\ IF n <= 7 THEN Con41 \subseteq reset' ELSE Con41 \cap reset' = {}
      BY <2>5, <3>1, <3>2 DEF RaisingRk
    <3>5. /\ IF n <= 5 THEN Released("RKVDEC0")' ELSE Up("RKVDEC0")'
          /\ IF n <= 8 THEN Released("RKVDEC1")' ELSE Up("RKVDEC1")'
      BY <2>4, <2>5 DEF RaisingRk
    <3> QED BY <3>3, <3>4, <3>5, Zenon DEF RaisingRk
  <2>6. ASSUME NEW n \in 1 .. 6, UndoingRk(n) PROVE UndoingRk(n)'
    BY <1>1, <1>3, <1>4, <2>2, <2>3, <2>6, Wiring DEF UndoingRk
  <2>7. ASSUME NEW n \in 1 .. 8, DroppingRk(n) PROVE DroppingRk(n)'
    <3>1. /\ (Con40 \subseteq gated => Con40 \subseteq gated') /\ (Con41 \subseteq gated => Con41 \subseteq gated')
          /\ (Con40 \subseteq reset => Con40 \subseteq reset') /\ (Con41 \subseteq reset => Con41 \subseteq reset')
      BY <2>3
    <3>2. \A b \in {"40bus", "41bus"} : {b} \cap (gated \cup reset) = {} => {b} \cap (gated' \cup reset') = {}
      BY <2>3, Wiring
    <3>3. /\ mx'.prog = Suffix(DropClusterProg, n) /\ Inside(Rvds, "Drop", TRUE)'
          /\ refs'.rk = 1 /\ Av1Ok'
          /\ n <= 7 => refs'.par = 1 + Bit(refs'.av1 > 0) /\ ParentsUp'
          /\ n = 8 => refs'.par = Bit(refs'.av1 > 0) /\ ParentsOk'
      BY <1>1, <1>3, <1>4, <2>2, <2>7 DEF DroppingRk
    <3>4. /\ IF n = 1 THEN {"41bus"} \cap (gated' \cup reset') = {} /\ Up("RKVDEC1")' ELSE Released("RKVDEC1")'
          /\ IF n <= 2 THEN {"40bus"} \cap (gated' \cup reset') = {} /\ Up("RKVDEC0")' ELSE Released("RKVDEC0")'
      BY <2>4, <2>7, <3>2 DEF DroppingRk
    <3>5. /\ n > 3 => Con40 \subseteq reset'
          /\ n > 4 => Con41 \subseteq reset'
          /\ n > 5 => Con41 \subseteq gated'
          /\ n > 6 => Con40 \subseteq gated'
      BY <2>7, <3>1 DEF DroppingRk
    <3> QED BY <3>3, <3>4, <3>5, Zenon DEF DroppingRk
  <2>8. ASSUME NEW n \in 1 .. 6, RaisingAv1(n) PROVE RaisingAv1(n)'
    BY <1>1, <1>2, <1>4, <2>2, <2>4, <2>8 DEF RaisingAv1, SameBit
  <2>9. ASSUME NEW n \in 1 .. 2, UndoingAv1(n) PROVE UndoingAv1(n)'
    BY <1>1, <1>2, <1>4, <2>2, <2>9 DEF UndoingAv1
  <2>10. ASSUME NEW n \in 1 .. 5, DroppingAv1(n) PROVE DroppingAv1(n)'
    BY <1>1, <1>2, <1>4, <2>2, <2>10 DEF DroppingAv1
  <2>11. ASSUME NEW n \in 1 .. 4, RaisingParents(n) PROVE RaisingParents(n)'
    BY <1>2, <1>4, <2>2, <2>4, <2>11 DEF RaisingParents, ParentsRaising, SameBit
  <2>12. ASSUME NEW n \in 1 .. 4, UndoingParents(n) PROVE UndoingParents(n)'
    BY <1>2, <1>4, <2>2, <2>4, <2>12 DEF UndoingParents, SameBit
  <2>13. ASSUME NEW n \in 1 .. 4, DroppingParents(n) PROVE DroppingParents(n)'
    BY <1>1, <1>2, <1>4, <2>2, <2>4, <2>13 DEF DroppingParents, ParentsDropping, SameBit
  <2>14. ASSUME NEW c, Reset(c) PROVE Reset(c)'
    BY <1>1, <1>4, <2>1, <2>14 DEF Reset
  <2>15. ASSUME NEW c \in Rvds, NEW n \in 1 .. 6, ResettingRk(c, n) PROVE ResettingRk(c, n)'
    <3>1. DomainOf(c) \in Domains /\ BusOf(DomainOf(c)) \subseteq ConOf(c) /\ LeafOf(c) \subseteq ConOf(c)
      BY Wiring DEF Rvds, Domains
    <3>2. CoreSteady(c) /\ (Up(DomainOf(c)) => Up(DomainOf(c))')
      BY <3>1 DEF RkSteady, Steady
    <3> QED BY <1>2, <1>3, <1>4, <2>14, <2>15, <3>1, <3>2 DEF ResettingRk, CoreSteady
  <2>16. ASSUME NEW n \in 1 .. 4, ResettingAv1(n) PROVE ResettingAv1(n)'
    BY <1>2, <1>4, <2>14, <2>16 DEF ResettingAv1
  <2>17. ~Resting
    BY <1>6 DEF Resting
  <2> QED BY <2>5, <2>6, <2>7, <2>8, <2>9, <2>10, <2>11, <2>12, <2>13, <2>15, <2>16, <2>17 DEF CInv, Place
<1> QED BY <1>5, <1>6

LEMMA NobodyDrops ==
    ASSUME CInv, NEW c \in Clients, Holds(c), mx.prog # << >>, mx.t \in Clients, call[mx.t] = "Drop"
    PROVE  mx.t # c /\ (c \in Rvds /\ mx.t \in Rvds => refs.rk = 2)
<1>1. mx.t # c
  BY DEF CInv, BaseInv, CtlInv, Holds
<1>2. In(c) /\ In(mx.t)
  BY Holding DEF In, Counted
<1>3. PICK d \in Clients : d = mx.t
  OBVIOUS
<1>4. In(d) /\ d # c
  BY <1>1, <1>2, <1>3
<1>5. refs.rk = Bit(In("rvd0")) + Bit(In("rvd1"))
  BY DEF CInv, BaseInv, CountInv
<1>6. ASSUME c \in Rvds, d \in Rvds PROVE refs.rk = 2
  <2>1. In("rvd0") /\ In("rvd1")
    BY <1>2, <1>4, <1>6 DEF Rvds
  <2> QED BY <1>5, <2>1 DEF Bit
<1> QED BY <1>1, <1>3, <1>6

\* A client that holds the rkvdec cluster touches its own core.
LEMMA CorePlaceKeeps ==
    ASSUME CInv, Steady, Av1Steady, NEW c \in Rvds, Holds(c), CoreUp(c) => CoreUp(c)',
           \A d \in Rvds \ {c} : CoreSteady(d),
           mx.prog # << >> /\ call[mx.t] = "FullReset" /\ OwnerOf(mx.t) = c =>
              reset' = reset /\ BusOf(DomainOf(c)) \cap gated' \subseteq gated /\ (c \in quiet' => LeafOf(c) \cap gated' = {})
    PROVE  Place'
<1>0. c \in Clients /\ refs.rk > 0
  BY Holding DEF Clients
<1>1. (ParentsUp => ParentsUp') /\ (ParentsCold => ParentsCold') /\ (ParentsOk => ParentsOk')
  BY SteadyParents
<1>2. \A d \in Rvds : CoreUp(d) => CoreUp(d)'
  BY SteadyCore
<1>3. RkOk => RkOk'
  <2>1. "rvd0" \in Rvds /\ "rvd1" \in Rvds
    BY DEF Rvds
  <2> QED BY <1>0, <1>2, <2>1 DEF RkOk, Steady
<1>4. (Av1On => Av1On') /\ (Av1Ok => Av1Ok')
  BY SteadyAv1 DEF Av1Ok, Steady, Av1Steady, SameBit, Domains
<1>5. mx' = mx /\ refs' = refs /\ clksel' = clksel /\ (mx.prog # << >> => call'[mx.t] = call[mx.t])
  BY DEF Steady
<1>6. CASE mx.prog = << >>
  <2>1. Resting
    BY <1>6, Rests
  <2>2. Resting'
    BY <1>1, <1>3, <1>4, <1>5, <2>1 DEF Resting
  <2> QED BY <2>2 DEF Place
<1>7. CASE mx.prog # << >>
  <2>1. call'[mx'.t] = call[mx.t]
    BY <1>5, <1>7
  <2>2. \A ts, e, ok : Inside(ts, e, ok) => Inside(ts, e, ok)'
    BY <1>5, <2>1 DEF Inside
  <2>3. \A n : ~RaisingRk(n) /\ ~UndoingRk(n) /\ ~RaisingParents(n) /\ ~UndoingParents(n)
    <3>0. refs.rk # 0
      BY <1>0
    <3>1. \A n : ~RaisingRk(n)
      BY <3>0, Zenon DEF RaisingRk
    <3>2. \A n : ~UndoingRk(n)
      BY <3>0, Zenon DEF UndoingRk
    <3>3. refs # [rk |-> 0, av1 |-> 0, par |-> 1]
      BY <1>0
    <3>4. \A n : ~RaisingParents(n)
      BY <3>3 DEF RaisingParents, ParentsRaising
    <3>5. \A n : ~UndoingParents(n)
      BY <3>3 DEF UndoingParents
    <3> QED BY <3>1, <3>2, <3>4, <3>5
  <2>4. \A n : ~DroppingRk(n)
    BY <1>0, <1>7, NobodyDrops DEF DroppingRk, Inside, Clients
  <2>5. \A n : ~DroppingParents(n)
    BY <1>0, <1>7, NobodyDrops DEF DroppingParents, Inside, Clients
  <2>6. ASSUME NEW n \in 1 .. 6, RaisingAv1(n) PROVE RaisingAv1(n)'
    BY <1>1, <1>3, <1>5, <2>2, <2>6 DEF RaisingAv1, Steady, Av1Steady, SameBit, Domains
  <2>7. ASSUME NEW n \in 1 .. 2, UndoingAv1(n) PROVE UndoingAv1(n)'
    BY <1>1, <1>3, <1>5, <2>2, <2>7 DEF UndoingAv1
  <2>8. ASSUME NEW n \in 1 .. 5, DroppingAv1(n) PROVE DroppingAv1(n)'
    BY <1>1, <1>3, <1>5, <2>2, <2>8 DEF DroppingAv1
  <2>9. ASSUME NEW d, Reset(d) PROVE Reset(d)'
    BY <1>1, <1>5, <2>1, <2>9 DEF Reset
  <2>10. ASSUME NEW d \in Rvds, NEW n \in 1 .. 6, ResettingRk(d, n) PROVE ResettingRk(d, n)'
    <3>1. DomainOf(d) \in Domains /\ BusOf(DomainOf(d)) \subseteq ConOf(d) /\ LeafOf(d) \subseteq ConOf(d)
      BY Wiring DEF Rvds, Domains
    <3>2. Up(DomainOf(d)) => Up(DomainOf(d))'
      BY <3>1 DEF Steady
    <3>3. CASE d # c
      <4>1. CoreSteady(d)
        BY <3>3
      <4> QED BY <1>2, <1>4, <1>5, <2>9, <2>10, <3>1, <3>2, <4>1 DEF ResettingRk, CoreSteady
    <3>4. CASE d = c
      <4>1. call[mx.t] = "FullReset" /\ OwnerOf(mx.t) = c
        BY <2>10, <3>4 DEF ResettingRk, Reset
      <4>2. reset' = reset /\ BusOf(DomainOf(c)) \cap gated' \subseteq gated /\ (c \in quiet' => LeafOf(c) \cap gated' = {})
        BY <1>7, <4>1
      <4> QED BY <1>2, <1>4, <1>5, <2>9, <2>10, <3>1, <3>2, <3>4, <4>2 DEF ResettingRk
    <3> QED BY <3>3, <3>4
  <2>11. ASSUME NEW n \in 1 .. 4, ResettingAv1(n) PROVE ResettingAv1(n)'
    BY <1>3, <1>4, <1>5, <2>9, <2>11 DEF ResettingAv1, Av1Steady, SameBit
  <2>12. ~Resting
    BY <1>7 DEF Resting
  <2> QED BY <2>3, <2>4, <2>5, <2>6, <2>7, <2>8, <2>10, <2>11, <2>12 DEF CInv, Place
<1> QED BY <1>6, <1>7

\* A thread outside the locked entry points is not the holder.
LEMMA NotHolder ==
    ASSUME CInv, NEW t \in Threads, call[t] \notin {"Raise", "Drop", "FullReset"}
    PROVE  mx.t # t
BY DEF CInv, BaseInv, CtlInv, NoHolder, Threads, Clients, Rvds, Files

LEMMA CountSame ==
    ASSUME CountInv, refs' = refs, \A c \in Clients : In(c)' <=> In(c)
    PROVE  CountInv'
<1>1. Bit(In("rvd0"))' = Bit(In("rvd0")) /\ Bit(In("rvd1"))' = Bit(In("rvd1")) /\ Bit(In("av1"))' = Bit(In("av1"))
  BY DEF Bit, Clients, Rvds
<1> QED BY <1>1 DEF CountInv

LEMMA PmuSteady ==
    ASSUME PmuInv, PmuSame
    PROVE  /\ PmuInv'
           /\ \A e \in Domains : /\ Up(e) => Up(e)'
                                 /\ Released(e) => Released(e)'
                                 /\ e \in on /\ e \in pwr => e \in on' /\ e \in pwr'
BY DEF PmuInv, PmuSame, Up, Released

\* No thread of client c pulses its core reset while another resets the core.
LEMMA OneCaller ==
    ASSUME CInv, NEW t \in Threads, NEW u \in Threads, OwnerOf(t) = OwnerOf(u), call[t] # "none", call[u] # "none"
    PROVE  t = u
<1>1. CtlInv
  BY DEF CInv, BaseInv
<1>2. \A f \in Files : call[f] # "none" => call[OwnerOf(f)] = "none"
  <2>1. \A f \in Files : OwnerOf(f) \in Clients
    BY Wiring DEF Files, Clients, Rvds
  <2> QED BY <1>1, <2>1 DEF CtlInv
<1>3. \A c \in Clients : OwnerOf(c) = c
  BY Wiring DEF Clients, Rvds
<1>4. CASE t \in Clients /\ u \in Clients
  BY <1>3, <1>4
<1>5. CASE t \in Files /\ u \in Clients
  BY <1>2, <1>3, <1>5
<1>6. CASE t \in Clients /\ u \in Files
  BY <1>2, <1>3, <1>6
<1>7. CASE t \in Files /\ u \in Files
  BY <1>7, Wiring DEF Files
<1> QED BY <1>4, <1>5, <1>6, <1>7 DEF Threads

\* A thread that pulses a core reset belongs to an rkvdec client that holds its cluster.
LEMMA Pulser ==
    ASSUME CInv, NEW t \in Threads, call[t] \in {"Pulse", "Pulsed"}
    PROVE  OwnerOf(t) \in Rvds /\ Holds(OwnerOf(t))
<1>1. CtlInv
  BY DEF CInv, BaseInv
<1>2. CASE t \in Clients
  <2>1. OwnerOf(t) = t /\ t \in Rvds
    BY <1>1, <1>2, Wiring DEF CtlInv, Clients, Rvds
  <2> QED BY <1>1, <1>2, <2>1 DEF CtlInv, Holds
<1>3. CASE t \in Files
  <2>1. OwnerOf(t) \in Rvds
    BY <1>1, <1>3, Wiring DEF CtlInv, Files, Rvds
  <2>2. pc[OwnerOf(t)] \in {"up", "d3"}
    BY <1>1, <1>3 DEF CtlInv
  <2> QED BY <2>1, <2>2 DEF Holds
<1> QED BY <1>2, <1>3 DEF Threads

LEMMA AssertCoreResetKeeps ==
    ASSUME CInv, NEW t \in Threads, AssertCoreReset(t)
    PROVE  CInv'
<1>1. /\ call[t] = "Pulse" /\ call' = [call EXCEPT ![t] = "Pulsed"] /\ reset' = reset \cup LeafOf(OwnerOf(t))
      /\ mmio' = mmio /\ refs' = refs /\ mx' = mx /\ pc' = pc /\ busy' = busy /\ quiet' = quiet /\ gating' = gating /\ gated' = gated /\ clksel' = clksel
      /\ PmuSame
  BY DEF AssertCoreReset, Call, HiwordWrite, pmuVars, PmuSame, jobVars
<1>2. PICK c \in Rvds : c = OwnerOf(t) /\ Holds(c)
  BY <1>1, Pulser
<1>3. mx.t # t
  BY <1>1, NotHolder
<1>4. PmuInv /\ FaultInv /\ CtlInv /\ CountInv
  BY DEF CInv, BaseInv
<1>5. PmuInv' /\ \A e \in Domains : /\ Up(e) => Up(e)'
                                    /\ Released(e) => Released(e)'
                                    /\ e \in on /\ e \in pwr => e \in on' /\ e \in pwr'
  BY <1>1, <1>4, PmuSteady
<1>6. call \in [Threads -> Entries] /\ call'[t] = "Pulsed" /\ \A u \in Threads \ {t} : call'[u] = call[u]
  BY <1>1, <1>4 DEF CtlInv
<1>7. CtlInv'
  <2>1. call' \in [Threads -> Entries]
    BY <1>1, <1>6 DEF Entries
  <2>2. t # "av1" /\ t # "fav1"
    BY <1>2, Wiring DEF Rvds
  <2> QED BY <1>1, <1>3, <1>4, <1>6, <2>1, <2>2 DEF CtlInv, Threads, Clients, Rvds, Files, NoHolder
<1>8. CountInv'
  <2>1. \A d \in Clients : In(d)' <=> In(d)
    BY <1>1, <1>3, <1>6 DEF In, Counted, Holds, Threads
  <2> QED BY <1>1, <1>4, <2>1, CountSame
<1>9. FaultInv'
  BY <1>1, <1>4 DEF FaultInv, PmuSame
<1>10. \A d \in Rvds : Pulsing(d) => Pulsing(d)'
  BY <1>1, <1>6 DEF Pulsing
<1>11. Pulsing(c)'
  BY <1>2, <1>6 DEF Pulsing
<1>12. LeafOf(c) \cap {"44", "68"} = {} /\ LeafOf(c) \cap BusOf(DomainOf(c)) = {} /\ \A d \in Rvds \ {c} : LeafOf(c) \cap ConOf(d) = {}
  BY Wiring DEF Rvds
<1>13. Steady
  BY <1>1, <1>3, <1>5, <1>6, <1>2, <1>12, Holder, <1>4 DEF Steady, SameBit
<1>14. Av1Steady
  BY <1>1, <1>2, <1>12 DEF Av1Steady, SameBit
<1>15. CoreUp(c) => CoreUp(c)'
  <2>1. DomainOf(c) \in Domains
    BY Wiring DEF Rvds, Domains
  <2> QED BY <1>1, <1>2, <1>5, <1>11, <1>12, <2>1 DEF CoreUp
<1>16. \A d \in Rvds \ {c} : CoreSteady(d)
  BY <1>1, <1>2, <1>10, <1>12 DEF CoreSteady
<1>17. ~(mx.prog # << >> /\ call[mx.t] = "FullReset" /\ OwnerOf(mx.t) = c)
  BY <1>1, <1>2, <1>3, <1>4, Holder, OneCaller
<1>18. Place'
  BY <1>2, <1>13, <1>14, <1>15, <1>16, <1>17, CorePlaceKeeps
<1> QED BY <1>5, <1>7, <1>8, <1>9, <1>18 DEF CInv, BaseInv

LEMMA DeassertCoreResetKeeps ==
    ASSUME CInv, NEW t \in Threads, DeassertCoreReset(t)
    PROVE  CInv'
<1>1. /\ call[t] = "Pulsed" /\ call' = [call EXCEPT ![t] = "none"] /\ reset' = reset \ LeafOf(OwnerOf(t))
      /\ mmio' = mmio /\ refs' = refs /\ mx' = mx /\ busy' = busy /\ quiet' = quiet /\ gating' = gating /\ gated' = gated /\ clksel' = clksel
      /\ PmuSame /\ pc' = (IF t \in Clients THEN [pc EXCEPT ![t] = "up"] ELSE pc)
  BY DEF DeassertCoreReset, Call, Move, HiwordWrite, pmuVars, PmuSame, jobVars
<1>2. PICK c \in Rvds : c = OwnerOf(t) /\ Holds(c)
  BY <1>1, Pulser
<1>3. mx.t # t
  BY <1>1, NotHolder
<1>4. PmuInv /\ FaultInv /\ CtlInv /\ CountInv
  BY DEF CInv, BaseInv
<1>5. PmuInv' /\ \A e \in Domains : /\ Up(e) => Up(e)'
                                    /\ Released(e) => Released(e)'
                                    /\ e \in on /\ e \in pwr => e \in on' /\ e \in pwr'
  BY <1>1, <1>4, PmuSteady
<1>6. call \in [Threads -> Entries] /\ call'[t] = "none" /\ \A u \in Threads \ {t} : call'[u] = call[u]
  BY <1>1, <1>4 DEF CtlInv
<1>7. /\ pc \in [Clients -> States] /\ (t \in Clients => pc[t] = "calling" /\ pc'[t] = "up")
      /\ \A d \in Clients \ {t} : pc'[d] = pc[d]
  BY <1>1, <1>4 DEF CtlInv
<1>8. CtlInv'
  <2>1. call' \in [Threads -> Entries] /\ pc' \in [Clients -> States]
    BY <1>1, <1>6, <1>7 DEF Entries, States
  <2>2. t # "av1" /\ t # "fav1"
    BY <1>2, Wiring DEF Rvds
  <2>3. \A d \in busy' : pc'[d] = "up"
    BY <1>1, <1>4, <1>7 DEF CtlInv, Clients
  <2>4. \A d \in Clients : pc'[d] = "calling" <=> call'[d] # "none"
    BY <1>4, <1>6, <1>7 DEF CtlInv, Threads
  <2>5. \A d \in Rvds : pc'[d] # "d3"
    BY <1>4, <1>7 DEF CtlInv, Clients
  <2>6. \A u \in Files : /\ call'[u] \in {"none", "FullReset", "Pulse", "Pulsed"}
                         /\ call'[u] # "none" => pc'[OwnerOf(u)] \in {"up", "d3"}
    <3>1. \A u \in Files : OwnerOf(u) \in Clients
      BY Wiring DEF Files, Clients, Rvds
    <3> QED BY <1>4, <1>6, <1>7, <3>1 DEF CtlInv, Threads
  <2>7. mmio
    BY <1>1, <1>4 DEF CtlInv
  <2>8. call'["av1"] \notin {"Pulse", "Pulsed"} /\ call'["fav1"] \in {"none", "FullReset"}
    BY <1>4, <1>6, <2>2 DEF CtlInv, Threads, Clients, Files
  <2>9. mx' = NoHolder \/ (/\ mx' = [t |-> mx'.t, prog |-> mx'.prog, ok |-> mx'.ok] /\ mx'.t \in Threads
                           /\ mx'.ok \in BOOLEAN /\ call'[mx'.t] \in {"Raise", "Drop", "FullReset"} /\ mmio')
    BY <1>1, <1>3, <1>4, <1>6 DEF CtlInv
  <2> QED BY <1>1, <1>4, <2>1, <2>3, <2>4, <2>5, <2>6, <2>7, <2>8, <2>9 DEF CtlInv
<1>9. CountInv'
  <2>1. \A d \in Clients : In(d)' <=> In(d)
    BY <1>1, <1>3, <1>6, <1>7 DEF In, Counted, Holds, Threads
  <2> QED BY <1>1, <1>4, <2>1, CountSame
<1>10. FaultInv'
  BY <1>1, <1>4 DEF FaultInv, PmuSame
<1>11. \A d \in Rvds \ {c} : Pulsing(d) => Pulsing(d)'
  BY <1>2, <1>6 DEF Pulsing
<1>12. LeafOf(c) \cap {"44", "68"} = {} /\ LeafOf(c) \cap BusOf(DomainOf(c)) = {} /\ \A d \in Rvds \ {c} : LeafOf(c) \cap ConOf(d) = {}
  BY Wiring DEF Rvds
<1>13. Steady
  BY <1>1, <1>3, <1>5, <1>6, <1>2, <1>12, Holder, <1>4 DEF Steady, SameBit
<1>14. Av1Steady
  <2>1. pc'["av1"] = pc["av1"]
    BY <1>2, <1>7, Wiring DEF Clients, Rvds
  <2> QED BY <1>1, <1>2, <1>12, <2>1 DEF Av1Steady, SameBit
<1>15. CoreUp(c) => CoreUp(c)'
  <2>1. DomainOf(c) \in Domains
    BY Wiring DEF Rvds, Domains
  <2> QED BY <1>1, <1>2, <1>5, <1>12, <2>1 DEF CoreUp
<1>16. \A d \in Rvds \ {c} : CoreSteady(d)
  BY <1>1, <1>2, <1>11, <1>12 DEF CoreSteady
<1>17. ~(mx.prog # << >> /\ call[mx.t] = "FullReset" /\ OwnerOf(mx.t) = c)
  BY <1>1, <1>2, <1>3, <1>4, Holder, OneCaller
<1>18. Place'
  BY <1>2, <1>13, <1>14, <1>15, <1>16, <1>17, CorePlaceKeeps
<1> QED BY <1>5, <1>8, <1>9, <1>10, <1>18 DEF CInv, BaseInv

LEMMA KickKeeps ==
    ASSUME CInv, NEW c \in Rvds, Kick(c) \/ Complete(c)
    PROVE  CInv'
<1>0. busy \subseteq Rvds /\ (\A d \in busy : pc[d] = "up") /\ gating \in [Rvds -> Nat] /\ quiet \subseteq busy
      /\ \A d \in quiet : gating[d] = 0
  BY DEF CInv, BaseInv, CtlInv
<1>1. /\ pc[c] = "up" /\ mmio' = mmio /\ refs' = refs /\ mx' = mx /\ call' = call /\ pc' = pc /\ reset' = reset /\ clksel' = clksel
      /\ PmuSame
      /\ gated' = gated \ LeafOf(c) \/ (gated' = gated /\ c \notin quiet')
      /\ busy' \subseteq busy \cup {c} /\ quiet' \subseteq quiet \cup {c} /\ quiet' \subseteq busy'
      /\ \A d \in Rvds \ {c} : gating'[d] = gating[d]
      /\ gating' \in [Rvds -> Nat] /\ (c \in quiet' => gating'[c] = 0)
  <2>1. CASE Kick(c)
    BY <1>0, <2>1 DEF Kick, HiwordWrite, pmuVars, PmuSame
  <2>2. CASE Complete(c)
    BY <1>0, <2>2 DEF Complete, hwVars, cruVars, pmuVars, PmuSame
  <2> QED BY <2>1, <2>2
<1>2. Holds(c) /\ c \in Clients
  BY <1>1 DEF Holds, Clients
<1>4. PmuInv /\ FaultInv /\ CtlInv /\ CountInv
  BY DEF CInv, BaseInv
<1>5. PmuInv' /\ \A e \in Domains : /\ Up(e) => Up(e)'
                                    /\ Released(e) => Released(e)'
                                    /\ e \in on /\ e \in pwr => e \in on' /\ e \in pwr'
  BY <1>1, <1>4, PmuSteady
<1>6. CtlInv'
  <2>1. /\ busy' \subseteq Rvds /\ \A d \in busy' : pc'[d] = "up"
        /\ gating' \in [Rvds -> Nat] /\ quiet' \subseteq busy' /\ \A d \in quiet' : gating'[d] = 0
    BY <1>0, <1>1
  <2> QED BY <1>1, <1>4, <2>1 DEF CtlInv
<1>7. CountInv'
  <2>1. \A d \in Clients : In(d)' <=> In(d)
    BY <1>1 DEF In, Counted, Holds
  <2> QED BY <1>1, <1>4, <2>1, CountSame
<1>8. FaultInv'
  BY <1>1, <1>4 DEF FaultInv, PmuSame
<1>9. \A d \in Rvds : Pulsing(d) <=> Pulsing(d)'
  BY <1>1 DEF Pulsing
<1>10. LeafOf(c) \cap {"44", "68"} = {} /\ LeafOf(c) \cap BusOf(DomainOf(c)) = {} /\ \A d \in Rvds \ {c} : LeafOf(c) \cap ConOf(d) = {}
  BY Wiring DEF Rvds
<1>11. Steady
  BY <1>1, <1>5, <1>10 DEF Steady, SameBit
<1>12. Av1Steady
  BY <1>1, <1>10 DEF Av1Steady, SameBit
<1>13. BusOf(DomainOf(c)) \cap gated' \subseteq gated /\ (c \in quiet' => LeafOf(c) \cap gated' = {})
  BY <1>1, <1>10
<1>14. CoreUp(c) => CoreUp(c)'
  <2>1. DomainOf(c) \in Domains
    BY Wiring DEF Rvds, Domains
  <2> QED BY <1>1, <1>5, <1>9, <1>13, <2>1 DEF CoreUp
<1>15. \A d \in Rvds \ {c} : CoreSteady(d)
  <2>1. \A d \in Rvds : BusOf(DomainOf(d)) \subseteq ConOf(d) /\ LeafOf(d) \subseteq ConOf(d)
    BY Wiring DEF Rvds
  <2> QED BY <1>1, <1>9, <1>10, <2>1 DEF CoreSteady
<1>16. Place'
  BY <1>1, <1>2, <1>11, <1>12, <1>13, <1>14, <1>15, CorePlaceKeeps
<1> QED BY <1>5, <1>6, <1>7, <1>8, <1>16 DEF CInv, BaseInv

\* The late gate, wherever its own client has got to by then.
LEMMA GateKeeps ==
    ASSUME CInv, NEW c \in Rvds, GateLeafClocks(c)
    PROVE  CInv'
<1>0. gating \in [Rvds -> Nat] /\ gating[c] > 0 /\ c \notin quiet
  BY DEF CInv, BaseInv, CtlInv, GateLeafClocks
<1>1. /\ mmio' = mmio /\ refs' = refs /\ mx' = mx /\ call' = call /\ pc' = pc /\ reset' = reset /\ clksel' = clksel
      /\ PmuSame /\ gated' = gated \cup LeafOf(c) /\ busy' = busy /\ quiet' = quiet
      /\ gating' \in [Rvds -> Nat] /\ \A d \in Rvds \ {c} : gating'[d] = gating[d]
  BY <1>0 DEF GateLeafClocks, HiwordWrite, pmuVars, PmuSame
<1>2. PmuInv /\ FaultInv /\ CtlInv /\ CountInv
  BY DEF CInv, BaseInv
<1>3. PmuInv' /\ \A e \in Domains : /\ Up(e) => Up(e)'
                                    /\ Released(e) => Released(e)'
                                    /\ e \in on /\ e \in pwr => e \in on' /\ e \in pwr'
  BY <1>1, <1>2, PmuSteady
<1>4. CtlInv'
  <2>1. quiet' \subseteq busy' /\ \A d \in quiet' : gating'[d] = 0
    BY <1>0, <1>1, <1>2 DEF CtlInv
  <2> QED BY <1>1, <1>2, <2>1 DEF CtlInv
<1>5. CountInv'
  <2>1. \A d \in Clients : In(d)' <=> In(d)
    BY <1>1 DEF In, Counted, Holds
  <2> QED BY <1>1, <1>2, <2>1, CountSame
<1>6. FaultInv'
  BY <1>1, <1>2 DEF FaultInv, PmuSame
<1>7. /\ LeafOf(c) \cap {"44", "68"} = {} /\ \A d \in Rvds : LeafOf(c) \cap BusOf(DomainOf(d)) = {}
      /\ \A d \in Rvds \ {c} : LeafOf(c) \cap LeafOf(d) = {}
  BY Wiring DEF Rvds
<1>8. Steady
  BY <1>1, <1>3, <1>7 DEF Steady, SameBit
<1>9. Av1Steady /\ SameBit("68")
  BY <1>1, <1>7 DEF Av1Steady, SameBit
<1>10. RkSteady
  <2>1. \A d \in Rvds : Pulsing(d) => Pulsing(d)'
    BY <1>1 DEF Pulsing
  <2> QED BY <1>0, <1>1, <1>7, <2>1 DEF RkSteady, CoreSteady
<1>11. Place'
  BY <1>1, <1>8, <1>9, <1>10, SteadyAv1, PlaceKeeps
<1> QED BY <1>3, <1>4, <1>5, <1>6, <1>11 DEF CInv, BaseInv

LEMMA D0Keeps ==
    ASSUME CInv, D0Entry \/ D0Exit
    PROVE  CInv'
<1>1. /\ mmio' = mmio /\ refs' = refs /\ mx' = mx /\ call' = call /\ busy' = busy /\ quiet' = quiet /\ gating' = gating /\ reset' = reset /\ clksel' = clksel
      /\ PmuSame /\ pc["av1"] \in {"up", "d3"}
      /\ \/ gated' = gated \ Con68 /\ pc' = [pc EXCEPT !["av1"] = "up"]
         \/ gated' = gated \cup Con68 /\ pc' = [pc EXCEPT !["av1"] = "d3"]
  BY DEF D0Entry, D0Exit, Move, HiwordWrite, pmuVars, PmuSame, jobVars
<1>2. Holds("av1") /\ "av1" \in Clients
  BY <1>1 DEF Holds, Clients
<1>4. PmuInv /\ FaultInv /\ CtlInv /\ CountInv
  BY DEF CInv, BaseInv
<1>5. PmuInv' /\ \A e \in Domains : /\ Up(e) => Up(e)'
                                    /\ Released(e) => Released(e)'
                                    /\ e \in on /\ e \in pwr => e \in on' /\ e \in pwr'
  BY <1>1, <1>4, PmuSteady
<1>6. pc \in [Clients -> States] /\ pc'["av1"] \in {"up", "d3"} /\ \A d \in Clients \ {"av1"} : pc'[d] = pc[d]
  BY <1>1, <1>2, <1>4 DEF CtlInv
<1>7. CtlInv'
  <2>1. pc' \in [Clients -> States]
    BY <1>1, <1>6 DEF States
  <2>2. \A d \in busy' : pc'[d] = "up"
    BY <1>1, <1>4, <1>6 DEF CtlInv, Clients, Rvds
  <2>3. \A d \in Clients : pc'[d] = "calling" <=> call'[d] # "none"
    BY <1>1, <1>4, <1>6 DEF CtlInv
  <2>4. \A d \in Rvds : pc'[d] # "d3"
    BY <1>4, <1>6 DEF CtlInv, Clients, Rvds
  <2>5. \A u \in Files : call'[u] # "none" => pc'[OwnerOf(u)] \in {"up", "d3"}
    <3>1. \A u \in Files : OwnerOf(u) \in Clients
      BY Wiring DEF Files, Clients, Rvds
    <3> QED BY <1>1, <1>4, <1>6, <3>1 DEF CtlInv
  <2>6. mmio
    BY <1>1, <1>2, <1>4 DEF CtlInv
  <2> QED BY <1>1, <1>4, <2>1, <2>2, <2>3, <2>4, <2>5, <2>6 DEF CtlInv
<1>8. CountInv'
  <2>1. \A d \in Clients : In(d)' <=> In(d)
    BY <1>1, <1>6 DEF In, Counted, Holds
  <2> QED BY <1>1, <1>4, <2>1, CountSame
<1>9. FaultInv'
  BY <1>1, <1>4 DEF FaultInv, PmuSame
<1>10. Steady
  BY <1>1, <1>5, Wiring DEF Steady, SameBit
<1>11. RkSteady
  <2>1. \A d \in Rvds : Pulsing(d) => Pulsing(d)'
    BY <1>1 DEF Pulsing
  <2>2. \A d \in Rvds : \A b \in ConOf(d) : SameBit(b)
    BY <1>1, Wiring DEF Rvds, SameBit
  <2>3. \A d \in Rvds : BusOf(DomainOf(d)) \subseteq ConOf(d) /\ LeafOf(d) \subseteq ConOf(d)
    BY Wiring DEF Rvds
  <2> QED BY <1>1, <2>1, <2>2, <2>3 DEF RkSteady, CoreSteady, SameBit
<1>12. Av1On => Av1On'
  BY <1>1, <1>6, <1>4, <1>2, Wiring DEF Av1On, PmuSame
<1>13. refs.av1 # 0
  BY <1>2, Holding
<1>14. Place'
  BY <1>1, <1>10, <1>11, <1>12, <1>13, PlaceKeeps
<1> QED BY <1>5, <1>7, <1>8, <1>9, <1>14 DEF CInv, BaseInv

\* A step that only moves a caller, with the hardware and the counts as they are.
LEMMA MoveKeeps ==
    ASSUME CInv, mx' = mx, refs' = refs, busy' = busy /\ quiet' = quiet /\ gating' = gating, UNCHANGED <<gated, reset, clksel>>, PmuSame, CtlInv',
           \A c \in Clients : In(c)' <=> In(c), mx.prog # << >> => call'[mx.t] = call[mx.t],
           \A t \in Threads : call[t] = "Pulsed" => call'[t] = "Pulsed", pc'["av1"] = "up" => pc["av1"] = "up"
    PROVE  CInv'
<1>1. PmuInv /\ FaultInv /\ CtlInv /\ CountInv
  BY DEF CInv, BaseInv
<1>2. PmuInv' /\ \A e \in Domains : /\ Up(e) => Up(e)'
                                    /\ Released(e) => Released(e)'
                                    /\ e \in on /\ e \in pwr => e \in on' /\ e \in pwr'
  BY <1>1, PmuSteady
<1>3. CountInv'
  BY <1>1, CountSame
<1>4. FaultInv'
  BY <1>1 DEF FaultInv, PmuSame
<1>5. Steady
  BY <1>2 DEF Steady, SameBit
<1>6. RkSteady
  BY DEF RkSteady, CoreSteady, Pulsing
<1>7. Av1Steady
  BY DEF Av1Steady, SameBit
<1>8. Place'
  BY <1>5, <1>6, <1>7, SteadyAv1, PlaceKeeps DEF SameBit
<1> QED BY <1>2, <1>3, <1>4, <1>8 DEF CInv, BaseInv

LEMMA PrepareKeeps ==
    ASSUME CInv, NEW c \in Clients, PrepareHardware(c) \/ PrepareReset(c) \/ ReleaseHardware(c)
    PROVE  CInv'
<1>0. PmuInv /\ FaultInv /\ CtlInv /\ CountInv
  BY DEF CInv, BaseInv
<1>1. PICK e \in {"Raise", "FullReset", "Drop"} :
         /\ call' = [call EXCEPT ![c] = e] /\ pc' = [pc EXCEPT ![c] = "calling"] /\ call[c] = "none"
         /\ mmio' = mmio /\ refs' = refs /\ mx' = mx /\ busy' = busy /\ quiet' = quiet /\ gating' = gating /\ UNCHANGED <<gated, reset, clksel>> /\ PmuSame
         /\ (e = "Raise" /\ pc[c] = "down") \/ (e # "Raise" /\ pc[c] \in {"raised", "up", "d3"})
         /\ c \notin busy /\ \A t \in Files : OwnerOf(t) = c => call[t] = "none"
  <2>1. CASE PrepareHardware(c)
    BY <1>0, <2>1 DEF PrepareHardware, Call, Move, jobVars, hwVars, pmuVars, cruVars, PmuSame, CtlInv
  <2>2. CASE PrepareReset(c)
    BY <1>0, <2>2 DEF PrepareReset, Call, Move, jobVars, hwVars, pmuVars, cruVars, PmuSame, CtlInv
  <2>3. CASE ReleaseHardware(c)
    BY <1>0, <2>3 DEF ReleaseHardware, Call, Move, jobVars, hwVars, pmuVars, cruVars, PmuSame, CtlInv
  <2> QED BY <2>1, <2>2, <2>3
<1>2. c \in Threads /\ mx.t # c
  BY <1>1, NotHolder DEF Threads
<1>3. /\ call \in [Threads -> Entries] /\ pc \in [Clients -> States]
      /\ call'[c] = e /\ \A u \in Threads \ {c} : call'[u] = call[u]
      /\ pc'[c] = "calling" /\ \A d \in Clients \ {c} : pc'[d] = pc[d]
  BY <1>0, <1>1, <1>2 DEF CtlInv
<1>4. CtlInv'
  <2>1. call' \in [Threads -> Entries] /\ pc' \in [Clients -> States]
    BY <1>1, <1>3 DEF Entries, States
  <2>2. \A d \in busy' : pc'[d] = "up"
    BY <1>0, <1>1, <1>3 DEF CtlInv, Clients
  <2>3. \A d \in Clients : pc'[d] = "calling" <=> call'[d] # "none"
    BY <1>0, <1>1, <1>3 DEF CtlInv, Threads
  <2>4. \A d \in Rvds : pc'[d] # "d3"
    BY <1>0, <1>3 DEF CtlInv, Clients
  <2>5. \A u \in Files : /\ call'[u] \in {"none", "FullReset", "Pulse", "Pulsed"}
                         /\ call'[u] # "none" => pc'[OwnerOf(u)] \in {"up", "d3"}
    <3>1. \A u \in Files : OwnerOf(u) \in Clients /\ u # c
      BY Wiring DEF Files, Clients, Rvds
    <3> QED BY <1>0, <1>1, <1>3, <3>1 DEF CtlInv, Threads
  <2>6. call'["av1"] \notin {"Pulse", "Pulsed"} /\ call'["fav1"] \in {"none", "FullReset"}
    BY <1>0, <1>3 DEF CtlInv, Threads, Clients, Rvds, Files
  <2>7. mx' = NoHolder \/ (/\ mx' = [t |-> mx'.t, prog |-> mx'.prog, ok |-> mx'.ok] /\ mx'.t \in Threads
                           /\ mx'.ok \in BOOLEAN /\ call'[mx'.t] \in {"Raise", "Drop", "FullReset"} /\ mmio')
    BY <1>0, <1>1, <1>2, <1>3 DEF CtlInv
  <2>8. ~mmio' => \A t \in Threads : call'[t] \in {"none", "Raise"}
    BY <1>0, <1>1, <1>3 DEF CtlInv
  <2>9. ~mmio' => \A d \in Clients : pc'[d] \in {"down", "calling"}
    BY <1>0, <1>1, <1>3 DEF CtlInv
  <2> QED BY <1>0, <1>1, <2>1, <2>2, <2>3, <2>4, <2>5, <2>6, <2>7, <2>8, <2>9 DEF CtlInv
<1>5. \A d \in Clients : In(d)' <=> In(d)
  <2>1. \A d \in Clients \ {c} : In(d)' <=> In(d)
    BY <1>1, <1>3 DEF In, Counted, Holds, Threads
  <2>2. Counted(c)' <=> Counted(c)
    BY <1>1, <1>3 DEF Counted, Holds
  <2>3. In(c)' <=> In(c)
    BY <1>1, <1>2, <2>2 DEF In
  <2> QED BY <2>1, <2>3
<1>6. mx.prog # << >> => call'[mx.t] = call[mx.t]
  BY <1>0, <1>2, <1>3, Holder
<1>7. \A t \in Threads : call[t] = "Pulsed" => call'[t] = "Pulsed"
  BY <1>1, <1>3
<1>8. pc'["av1"] = "up" => pc["av1"] = "up"
  BY <1>3 DEF Clients
<1> QED BY <1>1, <1>4, <1>5, <1>6, <1>7, <1>8, MoveKeeps


LEMMA SessionResetKeeps ==
    ASSUME CInv, NEW t \in Files, SessionReset(t)
    PROVE  CInv'
<1>0. PmuInv /\ FaultInv /\ CtlInv /\ CountInv
  BY DEF CInv, BaseInv
<1>1. PICK e \in {"FullReset", "Pulse"} :
         /\ call' = [call EXCEPT ![t] = e] /\ call[t] = "none" /\ pc[OwnerOf(t)] = "up"
         /\ e = "Pulse" => OwnerOf(t) \in Rvds
         /\ mmio' = mmio /\ refs' = refs /\ mx' = mx /\ pc' = pc /\ busy' = busy /\ quiet' = quiet /\ gating' = gating
         /\ UNCHANGED <<gated, reset, clksel>> /\ PmuSame
  BY DEF SessionReset, Call, jobVars, hwVars, pmuVars, cruVars, PmuSame
<1>2. t \in Threads /\ mx.t # t /\ t \notin Clients /\ OwnerOf(t) \in Clients
  BY <1>1, NotHolder, Wiring DEF Threads, Files, Clients, Rvds
<1>3. call \in [Threads -> Entries] /\ call'[t] = e /\ \A u \in Threads \ {t} : call'[u] = call[u]
  BY <1>0, <1>1, <1>2 DEF CtlInv
<1>4. mmio
  BY <1>0, <1>1, <1>2 DEF CtlInv
<1>5. CtlInv'
  <2>1. call' \in [Threads -> Entries]
    BY <1>1, <1>3 DEF Entries
  <2>2. \A d \in Clients : pc'[d] = "calling" <=> call'[d] # "none"
    BY <1>0, <1>1, <1>2, <1>3 DEF CtlInv, Threads
  <2>3. \A u \in Files : /\ call'[u] \in {"none", "FullReset", "Pulse", "Pulsed"}
                         /\ call'[u] # "none" => pc'[OwnerOf(u)] \in {"up", "d3"}
    BY <1>0, <1>1, <1>3 DEF CtlInv, Threads
  <2>4. call'["av1"] \notin {"Pulse", "Pulsed"}
    BY <1>0, <1>2, <1>3 DEF CtlInv, Threads, Clients
  <2>5. call'["fav1"] \in {"none", "FullReset"}
    <3>1. t = "fav1" => e # "Pulse"
      BY <1>1, Wiring DEF Rvds
    <3> QED BY <1>0, <1>1, <1>3, <3>1 DEF CtlInv, Threads, Files
  <2>6. mx' = NoHolder \/ (/\ mx' = [t |-> mx'.t, prog |-> mx'.prog, ok |-> mx'.ok] /\ mx'.t \in Threads
                           /\ mx'.ok \in BOOLEAN /\ call'[mx'.t] \in {"Raise", "Drop", "FullReset"} /\ mmio')
    BY <1>0, <1>1, <1>2, <1>3 DEF CtlInv
  <2> QED BY <1>0, <1>1, <1>4, <2>1, <2>2, <2>3, <2>4, <2>5, <2>6 DEF CtlInv
<1>6. \A d \in Clients : In(d)' <=> In(d)
  BY <1>1, <1>2, <1>3 DEF In, Counted, Holds, Threads
<1>7. mx.prog # << >> => call'[mx.t] = call[mx.t]
  BY <1>0, <1>2, <1>3, Holder
<1>8. \A u \in Threads : call[u] = "Pulsed" => call'[u] = "Pulsed"
  BY <1>1, <1>3
<1> QED BY <1>1, <1>5, <1>6, <1>7, <1>8, MoveKeeps

LEMMA CcuHardwareKeeps ==
    ASSUME CInv, CcuPrepareHardware \/ CcuReleaseHardware
    PROVE  CInv'
<1>0. PmuInv /\ FaultInv /\ CtlInv /\ CountInv
  BY DEF CInv, BaseInv
<1>1. /\ refs' = refs /\ mx' = mx /\ call' = call /\ pc' = pc /\ busy' = busy /\ quiet' = quiet /\ gating' = gating
      /\ UNCHANGED <<gated, reset, clksel>> /\ PmuSame
  BY DEF CcuPrepareHardware, CcuReleaseHardware, jobVars, hwVars, pmuVars, cruVars, PmuSame
<1>4. mmio' = TRUE \/ mmio' = FALSE
  BY DEF CcuPrepareHardware, CcuReleaseHardware, jobVars
<1>5. mmio' \in BOOLEAN
  BY <1>4, Zenon
<1>6. mmio' # TRUE => (\A c \in Clients : pc[c] = "down") /\ (\A t \in Threads : call[t] = "none")
  BY DEF CcuPrepareHardware, CcuReleaseHardware, jobVars
<1>2. CtlInv'
  <2>1. CASE mmio'
    BY <1>0, <1>1, <1>5, <2>1 DEF CtlInv
  <2>2. CASE ~mmio'
    <3>1. /\ \A c \in Clients : pc[c] = "down"
          /\ \A t \in Threads : call[t] = "none"
      BY <1>6, <2>2, Zenon
    <3>2. mx = NoHolder
      BY <1>0, <3>1 DEF CtlInv
    <3> QED BY <1>0, <1>1, <1>5, <2>2, <3>1, <3>2 DEF CtlInv
  <2> QED BY <2>1, <2>2
<1>3. \A d \in Clients : In(d)' <=> In(d)
  BY <1>1 DEF In, Counted, Holds
<1> QED BY <1>1, <1>2, <1>3, MoveKeeps

\* A late ack or a late power status only comes for a domain whose handshake timed out.
LEMMA PmuSettleKeeps ==
    ASSUME CInv, PmuSettle
    PROVE  CInv'
<1>0. PmuInv /\ FaultInv /\ CtlInv /\ CountInv
  BY DEF CInv, BaseInv
<1>1. /\ mmio' = mmio /\ refs' = refs /\ mx' = mx /\ call' = call /\ pc' = pc /\ busy' = busy /\ quiet' = quiet /\ gating' = gating
      /\ UNCHANGED <<gated, reset, clksel>> /\ pwr' = pwr /\ req' = req /\ faults' = faults
  BY DEF PmuSettle, jobVars
<1>2. PICK d \in Domains :
         \/ /\ HasIdle(d) /\ (d \in req) # (d \in idle)
            /\ idle' = (IF d \in req THEN idle \cup {d} ELSE idle \ {d})
            /\ tainted' = (IF d \in req THEN tainted ELSE tainted \ {d})
            /\ on' = on
         \/ /\ (d \in pwr) # (d \in on)
            /\ on' = (IF d \in pwr THEN on \cup {d} ELSE on \ {d})
            /\ idle' = idle /\ tainted' = tainted
  BY DEF PmuSettle, jobVars
<1>3. d \in tainted
  BY <1>0, <1>2 DEF PmuInv
<1>4. /\ PmuInv' /\ tainted' \subseteq tainted
      /\ \A e \in Domains : /\ Up(e) => Up(e)'
                            /\ e \in on /\ e \in pwr => e \in on' /\ e \in pwr'
  <2>1. CASE d \in req /\ d \notin idle /\ HasIdle(d) /\ idle' = idle \cup {d} /\ tainted' = tainted /\ on' = on
    BY <1>0, <1>1, <1>3, <2>1 DEF PmuInv, Up, HasIdle
  <2>2. CASE d \notin req /\ d \in idle /\ idle' = idle \ {d} /\ tainted' = tainted \ {d} /\ on' = on
    <3>1. d \in on /\ d \in pwr
      BY <1>0, <2>2 DEF PmuInv
    <3> QED BY <1>0, <1>1, <2>2, <3>1 DEF PmuInv, Up
  <2>3. CASE d \in pwr /\ d \notin on /\ on' = on \cup {d} /\ idle' = idle /\ tainted' = tainted
    BY <1>0, <1>1, <1>3, <2>3 DEF PmuInv, Up
  <2>4. CASE d \notin pwr /\ d \in on /\ on' = on \ {d} /\ idle' = idle /\ tainted' = tainted
    BY <1>0, <1>1, <1>3, <2>4 DEF PmuInv, Up
  <2>5. \/ d \in req /\ d \notin idle /\ HasIdle(d) /\ idle' = idle \cup {d} /\ tainted' = tainted /\ on' = on
        \/ d \notin req /\ d \in idle /\ idle' = idle \ {d} /\ tainted' = tainted \ {d} /\ on' = on
        \/ d \in pwr /\ d \notin on /\ on' = on \cup {d} /\ idle' = idle /\ tainted' = tainted
        \/ d \notin pwr /\ d \in on /\ on' = on \ {d} /\ idle' = idle /\ tainted' = tainted
    BY <1>2
  <2> QED BY <2>1, <2>2, <2>3, <2>4, <2>5
<1>5. FaultInv'
  BY <1>0, <1>1, <1>4 DEF FaultInv
<1>6. CtlInv'
  BY <1>0, <1>1 DEF CtlInv
<1>7. CountInv'
  <2>1. \A c \in Clients : In(c)' <=> In(c)
    BY <1>1 DEF In, Counted, Holds
  <2> QED BY <1>0, <1>1, <2>1, CountSame
<1>8. Steady
  <2>1. \A e \in Domains : Released(e) => Released(e)'
    BY <1>1 DEF Released
  <2> QED BY <1>1, <1>4, <2>1 DEF Steady, SameBit
<1>9. RkSteady /\ Av1Steady
  BY <1>1 DEF RkSteady, CoreSteady, Av1Steady, SameBit, Pulsing
<1>10. Place'
  BY <1>1, <1>8, <1>9, SteadyAv1, PlaceKeeps DEF SameBit
<1> QED BY <1>4, <1>5, <1>6, <1>7, <1>10 DEF CInv, BaseInv

-----------------------------------------------------------------------------
\* Taking the mutex: the program starts from rest.

\* What the hardware predicates say is unchanged by a step that leaves the hardware alone.
LEMMA HwSame ==
    ASSUME UNCHANGED <<gated, reset, clksel, quiet, pc>>, PmuSame
    PROVE  /\ ParentsUp' = ParentsUp /\ ParentsCold' = ParentsCold /\ RkCold' = RkCold /\ Av1On' = Av1On
           /\ \A d : Up(d)' = Up(d)
           /\ call' = call => \A c \in Rvds : CoreUp(c)' = CoreUp(c)
<1>1. \A d : Up(d)' = Up(d) /\ Released(d)' = Released(d)
  BY DEF PmuSame, Up, Released
<1>2. ParentsUp' = ParentsUp /\ ParentsCold' = ParentsCold /\ RkCold' = RkCold /\ Av1On' = Av1On
  BY <1>1 DEF ParentsUp, ParentsCold, RkCold, Av1On, PmuSame
<1>3. ASSUME call' = call, NEW c \in Rvds PROVE CoreUp(c)' = CoreUp(c)
  BY <1>1, <1>3 DEF CoreUp, Pulsing
<1> QED BY <1>1, <1>2, <1>3

LEMMA Entered ==
    ASSUME CInv, NEW t \in Threads, Enter(t)
    PROVE  /\ Resting /\ mx = NoHolder /\ mmio
           /\ UNCHANGED <<mmio, call, pc, busy, quiet, gating, gated, reset, clksel>> /\ PmuSame /\ PmuInv'
           /\ \A p : mx' = [t |-> t, prog |-> p, ok |-> TRUE] => /\ CtlInv' /\ FaultInv'
                                                                 /\ \A c \in Clients \ {t} : In(c)' <=> In(c)
           /\ \A c \in Clients : In(c) <=> Counted(c)
           /\ refs = [rk |-> refs.rk, av1 |-> refs.av1, par |-> refs.par]
           /\ refs.rk \in 0 .. 2 /\ refs.av1 \in 0 .. 1
<1>0. PmuInv /\ FaultInv /\ CtlInv /\ CountInv
  BY DEF CInv, BaseInv
<1>1. /\ mx = NoHolder /\ mmio /\ mmio' = mmio /\ call' = call /\ pc' = pc /\ busy' = busy /\ quiet' = quiet /\ gating' = gating
      /\ call[t] \in {"Raise", "Drop", "FullReset"}
      /\ UNCHANGED <<gated, reset, clksel>> /\ PmuSame
  BY DEF Enter, jobVars, hwVars, pmuVars, cruVars, PmuSame
<1>2. mx.t = "none" /\ mx.prog = << >> /\ mx.ok
  BY <1>1 DEF NoHolder
<1>3. Resting
  BY <1>2, Rests
<1>4. PmuInv'
  BY <1>0, <1>1, PmuSteady
<1>5. \A c \in Clients : c # "none"
  BY DEF Clients, Rvds
<1>6. \A c \in Clients : In(c) <=> Counted(c)
  BY <1>2, <1>5 DEF In
<1>7. ASSUME NEW p, mx' = [t |-> t, prog |-> p, ok |-> TRUE]
      PROVE  CtlInv' /\ FaultInv' /\ \A c \in Clients \ {t} : In(c)' <=> In(c)
  <2>1. mx'.t = t /\ mx'.prog = p /\ mx'.ok = TRUE
    BY <1>7
  <2>2. mx' = [t |-> mx'.t, prog |-> mx'.prog, ok |-> mx'.ok]
    BY <1>7, <2>1
  <2>3. CtlInv'
    BY <1>0, <1>1, <2>1, <2>2 DEF CtlInv
  <2>4. FaultInv'
    BY <1>0, <1>1, <2>1 DEF FaultInv, PmuSame
  <2>5. ASSUME NEW c \in Clients \ {t} PROVE In(c)' <=> In(c)
    <3>1. Counted(c)' <=> Counted(c)
      BY <1>1 DEF Counted, Holds
    <3> QED BY <1>6, <2>1, <3>1 DEF In
  <2> QED BY <2>3, <2>4, <2>5
<1>8. refs.rk \in 0 .. 2 /\ refs.av1 \in 0 .. 1
  <2>1. Bit(In("rvd0")) \in {0, 1} /\ Bit(In("rvd1")) \in {0, 1} /\ Bit(In("av1")) \in {0, 1}
    BY DEF Bit
  <2> QED BY <1>0, <2>1 DEF CountInv
<1>9. refs = [rk |-> refs.rk, av1 |-> refs.av1, par |-> refs.par]
  BY <1>0 DEF CountInv
<1> QED BY <1>1, <1>3, <1>4, <1>6, <1>7, <1>8, <1>9

\* The programs from their first operation.
LEMMA FromTheTop ==
    /\ RaiseClusterProg = Suffix(RaiseClusterProg, 1) /\ DropClusterProg = Suffix(DropClusterProg, 1)
    /\ RaiseAv1Prog = Suffix(RaiseAv1Prog, 1) /\ DropAv1Prog = Suffix(DropAv1Prog, 1)
    /\ FullAv1ResetProg = Suffix(FullAv1ResetProg, 1)
    /\ \A c \in Rvds : FullCoreResetProg(c) = Suffix(FullCoreResetProg(c), 1) /\ Len(FullCoreResetProg(c)) \in {5, 6}
<1>1. ASSUME NEW s \in Seq(Ops) PROVE Suffix(s, 1) = s
  <2>1. Len(s) + 1 \in Nat
    OBVIOUS
  <2> QED BY <2>1, SuffixEnds
<1>2. /\ RaiseClusterProg \in Seq(Ops) /\ DropClusterProg \in Seq(Ops) /\ RaiseAv1Prog \in Seq(Ops)
      /\ DropAv1Prog \in Seq(Ops) /\ FullAv1ResetProg \in Seq(Ops)
  BY RaiseClusterOps, DropClusterOps, RaiseAv1Ops, DropAv1Ops, FullAv1ResetOps
<1>3. \A c \in Rvds : FullCoreResetProg(c) \in Seq(Ops) /\ Len(FullCoreResetProg(c)) \in {5, 6}
  BY FullCoreReset0Ops, FullCoreReset1Ops DEF Rvds
<1> QED BY <1>1, <1>2, <1>3

LEMMA EnterRaiseKeeps ==
    ASSUME CInv, NEW t \in Threads, Enter(t), call[t] = "Raise"
    PROVE  CInv'
<1>0. PmuInv /\ FaultInv /\ CtlInv /\ CountInv
  BY DEF CInv, BaseInv
<1>1. /\ Resting /\ mx = NoHolder /\ mmio
      /\ UNCHANGED <<mmio, call, pc, busy, quiet, gating, gated, reset, clksel>> /\ PmuSame /\ PmuInv'
      /\ \A p : mx' = [t |-> t, prog |-> p, ok |-> TRUE] => /\ CtlInv' /\ FaultInv'
                                                            /\ \A c \in Clients \ {t} : In(c)' <=> In(c)
      /\ \A c \in Clients : In(c) <=> Counted(c)
      /\ refs = [rk |-> refs.rk, av1 |-> refs.av1, par |-> refs.par]
      /\ refs.rk \in 0 .. 2 /\ refs.av1 \in 0 .. 1
  BY Entered
<1>2. EnterRaise(t)
  BY DEF Enter, jobVars
<1>3. t \in Clients
  BY <1>0 DEF CtlInv, Threads
<1>4. ~In(t) /\ ~Counted(t) /\ ~Counted(t)'
  <2>1. pc[t] = "calling"
    BY <1>0, <1>3 DEF CtlInv
  <2>2. ~Counted(t)
    BY <2>1 DEF Counted, Holds
  <2>3. ~Counted(t)'
    BY <1>1, <2>1 DEF Counted, Holds
  <2> QED BY <1>1, <1>3, <2>2, <2>3
<1>5. /\ ParentsUp' = ParentsUp /\ ParentsCold' = ParentsCold /\ RkCold' = RkCold /\ Av1On' = Av1On
      /\ \A d : Up(d)' = Up(d)
      /\ \A c \in Rvds : CoreUp(c)' = CoreUp(c)
  BY <1>1, HwSame
<1>6. /\ refs.par = Bit(refs.rk > 0) + Bit(refs.av1 > 0) /\ ParentsOk /\ RkOk /\ Av1Ok
  BY <1>1 DEF Resting
<1>7. refs.rk = Bit(In("rvd0")) + Bit(In("rvd1")) /\ refs.av1 = Bit(In("av1"))
  BY <1>0 DEF CountInv
<1>8. CASE t \in Rvds /\ refs.rk > 0
  <2>1. RefOf(t) = "rk"
    BY <1>8 DEF RefOf
  <2>2. /\ refs' = [refs EXCEPT !["rk"] = @ + 1]
        /\ mx' = [t |-> t, prog |-> << >>, ok |-> TRUE]
    BY <1>2, <1>8, <2>1 DEF EnterRaise
  <2>3. CtlInv' /\ FaultInv' /\ \A c \in Clients \ {t} : In(c)' <=> In(c)
    BY <1>1, <2>2
  <2>4. refs' = [rk |-> refs.rk + 1, av1 |-> refs.av1, par |-> refs.par]
    BY <1>1, <2>2
  <2>5. refs'.rk = refs.rk + 1 /\ refs'.av1 = refs.av1 /\ refs'.par = refs.par
        /\ refs' = [rk |-> refs'.rk, av1 |-> refs'.av1, par |-> refs'.par]
    BY <2>4
  <2>6. mx'.t = t /\ mx'.prog = << >> /\ mx'.ok = TRUE
    BY <2>2
  <2>7. In(t)'
    BY <1>1, <2>6 DEF In
  <2>8. refs'.rk = Bit(In("rvd0")') + Bit(In("rvd1")') /\ refs'.av1 = Bit(In("av1")')
    <3>1. CASE t = "rvd0"
      BY <1>4, <1>7, <2>3, <2>5, <2>7, <3>1 DEF Bit, Clients, Rvds
    <3>2. CASE t = "rvd1"
      BY <1>4, <1>7, <2>3, <2>5, <2>7, <3>2 DEF Bit, Clients, Rvds
    <3> QED BY <1>8, <3>1, <3>2 DEF Rvds
  <2>9. CountInv'
    BY <2>5, <2>8 DEF CountInv, Bit
  <2>10. refs.rk + 1 > 0 /\ refs.rk + 1 # 0
    BY <1>1
  <2>11. refs'.par = Bit(refs'.rk > 0) + Bit(refs'.av1 > 0)
    BY <1>6, <1>8, <2>5, <2>10 DEF Bit
  <2>12. RkOk' /\ ParentsOk' /\ Av1Ok'
    BY <1>1, <1>5, <1>6, <1>8, <2>5, <2>10 DEF RkOk, ParentsOk, Av1Ok, Rvds
  <2>13. Resting'
    BY <2>6, <2>11, <2>12 DEF Resting
  <2> QED BY <1>1, <2>3, <2>9, <2>13 DEF CInv, BaseInv, Place
<1>9. CASE ~(t \in Rvds /\ refs.rk > 0)
  <2>1. refs[RefOf(t)] = 0
    <3>1. CASE t \in Rvds
      BY <1>1, <1>9, <3>1 DEF RefOf
    <3>2. CASE t = "av1"
      BY <1>4, <1>7, <3>2, Wiring DEF Bit
    <3> QED BY <1>3, <3>1, <3>2 DEF Clients
  <2>2. /\ refs' = refs
        /\ mx' = [t |-> t, prog |-> IF t \in Rvds THEN RaiseClusterProg ELSE RaiseAv1Prog, ok |-> TRUE]
    <3>1. (RefOf(t) = "rk") <=> t \in Rvds
      BY <1>3, Wiring DEF Clients, Rvds
    <3> QED BY <1>2, <2>1, <3>1 DEF EnterRaise
  <2>3. CtlInv' /\ FaultInv' /\ \A c \in Clients \ {t} : In(c)' <=> In(c)
    BY <1>1, <2>2
  <2>4. mx'.t = t /\ mx'.ok = TRUE /\ mx'.prog = IF t \in Rvds THEN RaiseClusterProg ELSE RaiseAv1Prog
    BY <2>2
  <2>5. mx'.prog # << >>
    <3>1. 1 \in 1 .. 9 /\ 1 \in 1 .. 6
      OBVIOUS
    <3>2. RaiseClusterProg # << >> /\ RaiseAv1Prog # << >>
      BY <3>1, RaiseClusterAt, RaiseAv1At, FromTheTop
    <3> QED BY <2>4, <3>2
  <2>6. ~In(t)'
    BY <1>4, <2>5 DEF In
  <2>7. CountInv'
    <3>1. \A c \in Clients : In(c)' <=> In(c)
      BY <1>4, <2>3, <2>6
    <3> QED BY <1>0, <2>2, <3>1, CountSame
  <2>8. CASE t \in Rvds
    <3>1. refs.rk = 0
      BY <2>1, <2>8, Wiring DEF Rvds
    <3>2. refs.par = Bit(refs.av1 > 0)
      <4>1. Bit(refs.rk > 0) = 0
        BY <3>1 DEF Bit
      <4>2. Bit(refs.av1 > 0) \in {0, 1}
        BY DEF Bit
      <4> QED BY <1>6, <4>1, <4>2
    <3>3. mx'.prog = Suffix(RaiseClusterProg, 1)
      BY <2>4, <2>8, FromTheTop
    <3>4. Inside(Rvds, "Raise", TRUE)'
      BY <1>1, <2>4, <2>8 DEF Inside
    <3>5. Av1Ok' /\ ParentsOk'
      BY <1>1, <1>5, <1>6, <2>2 DEF Av1Ok, ParentsOk
    <3>6. /\ Con40 \subseteq gated' /\ Con41 \subseteq gated' /\ Con40 \subseteq reset' /\ Con41 \subseteq reset'
          /\ Released("RKVDEC0")' /\ Released("RKVDEC1")'
      BY <1>5, <1>6, <3>1 DEF RkOk, RkCold
    <3>9. refs'.rk = 0 /\ refs'.par = Bit(refs'.av1 > 0)
      BY <2>2, <3>1, <3>2, Zenon
    <3>10. ~(1 > 1) /\ ~(1 > 2) /\ 1 <= 3 /\ 1 <= 4 /\ 1 <= 5 /\ 1 <= 6 /\ 1 <= 7 /\ 1 <= 8
      OBVIOUS
    <3>7. RaisingRk(1)'
      BY <3>3, <3>4, <3>5, <3>6, <3>9, <3>10, Zenon DEF RaisingRk
    <3>8. 1 \in 1 .. 9
      OBVIOUS
    <3> QED BY <1>1, <2>3, <2>7, <3>7, <3>8 DEF CInv, BaseInv, Place
  <2>9. CASE t = "av1"
    <3>0. t \notin Rvds
      BY <2>9 DEF Rvds
    <3>1. refs.av1 = 0
      BY <2>1, <2>9, Wiring
    <3>2. refs.par = Bit(refs.rk > 0)
      <4>1. Bit(refs.av1 > 0) = 0
        BY <3>1 DEF Bit
      <4>2. Bit(refs.rk > 0) \in {0, 1}
        BY DEF Bit
      <4> QED BY <1>6, <4>1, <4>2
    <3>3. mx'.prog = Suffix(RaiseAv1Prog, 1)
      BY <2>4, <3>0, FromTheTop
    <3>4. Inside({"av1"}, "Raise", TRUE)'
      BY <1>1, <2>4, <2>9 DEF Inside
    <3>5. RkOk' /\ ParentsOk'
      BY <1>1, <1>5, <1>6, <2>2 DEF RkOk, ParentsOk, Rvds
    <3>8. refs'.av1 = 0 /\ refs'.par = Bit(refs'.rk > 0)
      BY <2>2, <3>1, <3>2, Zenon
    <3>9. ~(1 > 1) /\ ~(1 > 2) /\ ~(1 > 3) /\ ~(1 > 4) /\ ~(1 > 5)
      OBVIOUS
    <3>6. RaisingAv1(1)'
      BY <3>3, <3>4, <3>5, <3>8, <3>9, Zenon DEF RaisingAv1
    <3>7. 1 \in 1 .. 6
      OBVIOUS
    <3> QED BY <1>1, <2>3, <2>7, <3>6, <3>7 DEF CInv, BaseInv, Place
  <2> QED BY <1>3, <2>8, <2>9 DEF Clients
<1> QED BY <1>8, <1>9

LEMMA EnterDropKeeps ==
    ASSUME CInv, NEW t \in Threads, Enter(t), call[t] = "Drop"
    PROVE  CInv'
<1>0. PmuInv /\ FaultInv /\ CtlInv /\ CountInv
  BY DEF CInv, BaseInv
<1>1. /\ Resting /\ mx = NoHolder /\ mmio
      /\ UNCHANGED <<mmio, call, pc, busy, quiet, gating, gated, reset, clksel>> /\ PmuSame /\ PmuInv'
      /\ \A p : mx' = [t |-> t, prog |-> p, ok |-> TRUE] => /\ CtlInv' /\ FaultInv'
                                                            /\ \A c \in Clients \ {t} : In(c)' <=> In(c)
      /\ \A c \in Clients : In(c) <=> Counted(c)
      /\ refs = [rk |-> refs.rk, av1 |-> refs.av1, par |-> refs.par]
      /\ refs.rk \in 0 .. 2 /\ refs.av1 \in 0 .. 1
  BY Entered
<1>2. EnterDrop(t)
  BY DEF Enter, jobVars
<1>3. t \in Clients
  BY <1>0 DEF CtlInv, Threads
<1>4. In(t) /\ Counted(t) /\ Counted(t)'
  BY <1>1, <1>3 DEF Counted
<1>5. /\ ParentsUp' = ParentsUp /\ ParentsCold' = ParentsCold /\ RkCold' = RkCold /\ Av1On' = Av1On
      /\ \A d : Up(d)' = Up(d)
      /\ \A c \in Rvds : CoreUp(c)' = CoreUp(c)
  BY <1>1, HwSame
<1>6. /\ refs.par = Bit(refs.rk > 0) + Bit(refs.av1 > 0) /\ ParentsOk /\ RkOk /\ Av1Ok
  BY <1>1 DEF Resting
<1>7. refs.rk = Bit(In("rvd0")) + Bit(In("rvd1")) /\ refs.av1 = Bit(In("av1"))
  BY <1>0 DEF CountInv
<1>8. CASE t \in Rvds /\ refs.rk # 1
  <2>1. RefOf(t) = "rk"
    BY <1>8 DEF RefOf
  <2>14. refs.rk = 2
    <3>1. Bit(In("rvd0")) \in {0, 1} /\ Bit(In("rvd1")) \in {0, 1}
      BY DEF Bit
    <3>2. Bit(In("rvd0")) = 1 \/ Bit(In("rvd1")) = 1
      BY <1>4, <1>8 DEF Bit, Rvds
    <3> QED BY <1>7, <1>8, <3>1, <3>2
  <2>2. /\ refs' = [refs EXCEPT !["rk"] = IF @ > 1 THEN @ - 1 ELSE 0]
        /\ mx' = [t |-> t, prog |-> << >>, ok |-> TRUE]
    BY <1>2, <1>8, <2>1 DEF EnterDrop
  <2>3. CtlInv' /\ FaultInv' /\ \A c \in Clients \ {t} : In(c)' <=> In(c)
    BY <1>1, <2>2
  <2>4. refs' = [rk |-> 1, av1 |-> refs.av1, par |-> refs.par]
    <3>1. (IF refs["rk"] > 1 THEN refs["rk"] - 1 ELSE 0) = 1
      BY <2>14
    <3>2. refs' = [refs EXCEPT !["rk"] = 1]
      BY <2>2, <3>1, Zenon
    <3> QED BY <1>1, <3>2
  <2>5. refs'.rk = 1 /\ refs'.av1 = refs.av1 /\ refs'.par = refs.par
        /\ refs' = [rk |-> refs'.rk, av1 |-> refs'.av1, par |-> refs'.par]
    BY <2>4
  <2>6. mx'.t = t /\ mx'.prog = << >> /\ mx'.ok = TRUE
    BY <2>2
  <2>7. ~In(t)'
    BY <1>1, <2>6 DEF In
  <2>8. refs'.rk = Bit(In("rvd0")') + Bit(In("rvd1")') /\ refs'.av1 = Bit(In("av1")')
    <3>1. CASE t = "rvd0"
      BY <1>4, <1>7, <2>3, <2>5, <2>7, <2>14, <3>1 DEF Bit, Clients, Rvds
    <3>2. CASE t = "rvd1"
      BY <1>4, <1>7, <2>3, <2>5, <2>7, <2>14, <3>2 DEF Bit, Clients, Rvds
    <3> QED BY <1>8, <3>1, <3>2 DEF Rvds
  <2>9. CountInv'
    BY <2>5, <2>8 DEF CountInv, Bit
  <2>11. refs'.par = Bit(refs'.rk > 0) + Bit(refs'.av1 > 0)
    BY <1>6, <2>5, <2>14 DEF Bit
  <2>12. RkOk' /\ ParentsOk' /\ Av1Ok'
    BY <1>1, <1>5, <1>6, <2>5, <2>14 DEF RkOk, ParentsOk, Av1Ok, Rvds
  <2>13. Resting'
    BY <2>6, <2>11, <2>12 DEF Resting
  <2> QED BY <1>1, <2>3, <2>9, <2>13 DEF CInv, BaseInv, Place
<1>9. CASE ~(t \in Rvds /\ refs.rk # 1)
  <2>1. refs[RefOf(t)] = 1
    <3>1. CASE t \in Rvds
      BY <1>1, <1>9, <3>1 DEF RefOf
    <3>2. CASE t = "av1"
      BY <1>4, <1>7, <3>2, Wiring DEF Bit
    <3> QED BY <1>3, <3>1, <3>2 DEF Clients
  <2>2. /\ refs' = refs
        /\ mx' = [t |-> t, prog |-> IF t \in Rvds THEN DropClusterProg ELSE DropAv1Prog, ok |-> TRUE]
    <3>1. (RefOf(t) = "rk") <=> t \in Rvds
      BY <1>3, Wiring DEF Clients, Rvds
    <3> QED BY <1>2, <2>1, <3>1 DEF EnterDrop
  <2>3. CtlInv' /\ FaultInv' /\ \A c \in Clients \ {t} : In(c)' <=> In(c)
    BY <1>1, <2>2
  <2>4. mx'.t = t /\ mx'.ok = TRUE /\ mx'.prog = IF t \in Rvds THEN DropClusterProg ELSE DropAv1Prog
    BY <2>2
  <2>5. mx'.prog # << >>
    <3>1. 1 \in 1 .. 8 /\ 1 \in 1 .. 5
      OBVIOUS
    <3>2. DropClusterProg # << >> /\ DropAv1Prog # << >>
      BY <3>1, DropClusterAt, DropAv1At, FromTheTop
    <3> QED BY <2>4, <3>2
  <2>6. In(t)'
    BY <1>4, <2>5 DEF In
  <2>7. CountInv'
    <3>1. \A c \in Clients : In(c)' <=> In(c)
      BY <1>4, <2>3, <2>6
    <3> QED BY <1>0, <2>2, <3>1, CountSame
  <2>8. CASE t \in Rvds
    <3>1. refs.rk = 1
      BY <2>1, <2>8, Wiring DEF Rvds
    <3>2. refs.par = 1 + Bit(refs.av1 > 0) /\ refs.par > 0
      <4>1. Bit(refs.rk > 0) = 1
        BY <3>1 DEF Bit
      <4>2. Bit(refs.av1 > 0) \in {0, 1}
        BY DEF Bit
      <4> QED BY <1>6, <4>1, <4>2
    <3>3. mx'.prog = Suffix(DropClusterProg, 1)
      BY <2>4, <2>8, FromTheTop
    <3>4. Inside(Rvds, "Drop", TRUE)'
      BY <1>1, <2>4, <2>8 DEF Inside
    <3>5. Av1Ok' /\ ParentsUp'
      BY <1>1, <1>5, <1>6, <2>2, <3>2 DEF Av1Ok, ParentsOk
    <3>6. CoreUp("rvd0")' /\ CoreUp("rvd1")'
      BY <1>5, <1>6, <3>1 DEF RkOk, Rvds
    <3>7. /\ {"41bus"} \cap (gated' \cup reset') = {} /\ Up("RKVDEC1")'
          /\ {"40bus"} \cap (gated' \cup reset') = {} /\ Up("RKVDEC0")'
      BY <3>6, Wiring DEF CoreUp
    <3>9. refs'.rk = 1 /\ refs'.par = 1 + Bit(refs'.av1 > 0)
      BY <2>2, <3>1, <3>2, Zenon
    <3>10. 1 <= 7 /\ ~(1 = 8) /\ 1 = 1 /\ 1 <= 2 /\ ~(1 > 3) /\ ~(1 > 4) /\ ~(1 > 5) /\ ~(1 > 6)
      OBVIOUS
    <3>11. DroppingRk(1)'
      BY <3>3, <3>4, <3>5, <3>7, <3>9, <3>10, Zenon DEF DroppingRk
    <3>8. 1 \in 1 .. 8
      OBVIOUS
    <3> QED BY <1>1, <2>3, <2>7, <3>11, <3>8 DEF CInv, BaseInv, Place
  <2>9. CASE t = "av1"
    <3>0. t \notin Rvds
      BY <2>9 DEF Rvds
    <3>1. refs.av1 = 1
      BY <2>1, <2>9, Wiring
    <3>2. refs.par = 1 + Bit(refs.rk > 0) /\ refs.par > 0
      <4>1. Bit(refs.av1 > 0) = 1
        BY <3>1 DEF Bit
      <4>2. Bit(refs.rk > 0) \in {0, 1}
        BY DEF Bit
      <4> QED BY <1>6, <4>1, <4>2
    <3>3. mx'.prog = Suffix(DropAv1Prog, 1)
      BY <2>4, <3>0, FromTheTop
    <3>4. Inside({"av1"}, "Drop", TRUE)'
      BY <1>1, <2>4, <2>9 DEF Inside
    <3>5. RkOk' /\ ParentsUp'
      BY <1>1, <1>5, <1>6, <2>2, <3>2 DEF RkOk, ParentsOk, Rvds
    <3>8. refs'.av1 = 1 /\ refs'.par = 1 + Bit(refs'.rk > 0)
      BY <2>2, <3>1, <3>2, Zenon
    <3>9. 1 <= 4 /\ ~(1 = 5)
      OBVIOUS
    <3>6. DroppingAv1(1)'
      BY <3>3, <3>4, <3>5, <3>8, <3>9, Zenon DEF DroppingAv1
    <3>7. 1 \in 1 .. 5
      OBVIOUS
    <3> QED BY <1>1, <2>3, <2>7, <3>6, <3>7 DEF CInv, BaseInv, Place
  <2> QED BY <1>3, <2>8, <2>9 DEF Clients
<1> QED BY <1>8, <1>9

LEMMA EnterResetKeeps ==
    ASSUME CInv, NEW t \in Threads, Enter(t), call[t] = "FullReset"
    PROVE  CInv'
<1>0. PmuInv /\ FaultInv /\ CtlInv /\ CountInv
  BY DEF CInv, BaseInv
<1>1. /\ Resting /\ mx = NoHolder /\ mmio
      /\ UNCHANGED <<mmio, call, pc, busy, quiet, gating, gated, reset, clksel>> /\ PmuSame /\ PmuInv'
      /\ \A p : mx' = [t |-> t, prog |-> p, ok |-> TRUE] => /\ CtlInv' /\ FaultInv'
                                                            /\ \A c \in Clients \ {t} : In(c)' <=> In(c)
      /\ \A c \in Clients : In(c) <=> Counted(c)
      /\ refs = [rk |-> refs.rk, av1 |-> refs.av1, par |-> refs.par]
      /\ refs.rk \in 0 .. 2 /\ refs.av1 \in 0 .. 1
  BY Entered
<1>2. /\ refs' = refs
      /\ mx' = [t |-> t, prog |-> IF OwnerOf(t) = "av1" THEN FullAv1ResetProg ELSE FullCoreResetProg(OwnerOf(t)), ok |-> TRUE]
  BY DEF Enter, EnterFullReset, jobVars
<1>3. CtlInv' /\ FaultInv' /\ \A c \in Clients \ {t} : In(c)' <=> In(c)
  BY <1>1, <1>2
<1>4. /\ mx'.t = t /\ mx'.ok = TRUE
      /\ mx'.prog = IF OwnerOf(t) = "av1" THEN FullAv1ResetProg ELSE FullCoreResetProg(OwnerOf(t))
  BY <1>2
<1>5. PICK c \in Clients : c = OwnerOf(t) /\ Holds(c)
  <2>1. OwnerOf(t) \in Clients
    BY Wiring DEF Threads, Files, Clients, Rvds
  <2>2. CASE t \in Clients
    <3>1. OwnerOf(t) = t
      BY <2>2, Wiring DEF Clients, Rvds
    <3> QED BY <1>0, <2>2, <3>1 DEF CtlInv, Holds
  <2>3. CASE t \in Files
    BY <1>0, <2>1, <2>3 DEF CtlInv, Holds
  <2> QED BY <2>1, <2>2, <2>3 DEF Threads
<1>6. CountInv'
  <2>1. t \in Clients => (In(t)' <=> In(t))
    <3>1. Counted(t)' <=> Counted(t)
      BY <1>1 DEF Counted, Holds
    <3> QED BY <1>1, <1>4, <3>1 DEF In
  <2> QED BY <1>0, <1>2, <1>3, <2>1, CountSame
<1>7. /\ ParentsUp' = ParentsUp /\ ParentsCold' = ParentsCold /\ RkCold' = RkCold /\ Av1On' = Av1On
      /\ \A d : Up(d)' = Up(d)
      /\ \A d \in Rvds : CoreUp(d)' = CoreUp(d)
  BY <1>1, HwSame
<1>8. /\ refs.par = Bit(refs.rk > 0) + Bit(refs.av1 > 0) /\ ParentsOk /\ RkOk /\ Av1Ok
  BY <1>1 DEF Resting
<1>9. refs[RefOf(c)] > 0 /\ (c \in Rvds => refs.rk > 0) /\ (c = "av1" => refs.av1 > 0)
  BY <1>5, Holding, Wiring DEF Clients, Rvds
<1>10. refs.par > 0
  <2>1. refs.rk > 0 \/ refs.av1 > 0
    BY <1>9 DEF Clients
  <2> QED BY <1>8, <2>1 DEF Bit
<1>11. Reset(c)'
  <2>1. ParentsUp'
    BY <1>7, <1>8, <1>10 DEF ParentsOk
  <2>2. refs'.par = Bit(refs'.rk > 0) + Bit(refs'.av1 > 0)
    BY <1>2, <1>8, Zenon
  <2>3. refs'[RefOf(c)] > 0 /\ mx'.t \in Threads /\ OwnerOf(mx'.t) = c /\ call'[mx'.t] = "FullReset" /\ mx'.ok
    BY <1>1, <1>2, <1>4, <1>5, <1>9
  <2> QED BY <2>1, <2>2, <2>3 DEF Reset
<1>12. RkOk' /\ Av1Ok'
  BY <1>2, <1>1, <1>7, <1>8 DEF RkOk, Av1Ok, Rvds
<1>13. CASE c = "av1"
  <2>1. mx'.prog = Suffix(FullAv1ResetProg, 1)
    BY <1>4, <1>5, <1>13, FromTheTop
  <2>2. Av1On' /\ "68" \notin reset'
    BY <1>2, <1>9, <1>12, <1>13 DEF Av1Ok
  <2>3. ResettingAv1(1)'
    BY <1>11, <1>12, <1>13, <2>1, <2>2 DEF ResettingAv1
  <2>4. 1 \in 1 .. 4
    OBVIOUS
  <2> QED BY <1>1, <1>3, <1>6, <2>3, <2>4 DEF CInv, BaseInv, Place
<1>14. CASE c \in Rvds
  <2>1. c # "av1"
    BY <1>14 DEF Rvds
  <2>2. mx'.prog = Suffix(FullCoreResetProg(c), 1)
    BY <1>4, <1>5, <1>14, <2>1, FromTheTop
  <2>3. "rk" \in clksel' /\ \A d \in Rvds : CoreUp(d)'
    BY <1>2, <1>9, <1>12, <1>14 DEF RkOk, Rvds
  <2>4. ~Pulsing(c)'
    <3>1. ASSUME NEW u \in Threads, OwnerOf(u) = c, call[u] = "Pulsed" PROVE FALSE
      BY <1>5, <3>1, OneCaller
    <3> QED BY <1>1, <3>1 DEF Pulsing
  <2>5. /\ BusOf(DomainOf(c)) \cap (gated' \cup reset') = {} /\ Up(DomainOf(c))'
        /\ LeafOf(c) \cap reset' = {} /\ (c \in quiet' => LeafOf(c) \cap gated' = {})
    BY <1>14, <2>3, <2>4 DEF CoreUp
  <2>6. ConOf(c) \cap reset' = {}
    BY <1>14, <2>5, Wiring DEF Rvds
  <2>7. ResettingRk(c, 1)'
    BY <1>11, <1>12, <2>2, <2>3, <2>5, <2>6 DEF ResettingRk
  <2>8. 1 \in 1 .. 6 /\ 1 <= Len(FullCoreResetProg(c))
    BY <1>14, FromTheTop
  <2> QED BY <1>1, <1>3, <1>6, <1>14, <2>7, <2>8 DEF CInv, BaseInv, Place
<1> QED BY <1>13, <1>14 DEF Clients

-----------------------------------------------------------------------------
\* Releasing the mutex: nothing moves but the caller.

\* What a return leaves of the mutex: nobody is inside, or nobody could be.
LEMMA Returned ==
    ASSUME CInv, NEW t \in Threads, Return(t)
    PROVE  /\ call[t] \in {"Raise", "Drop", "FullReset"} /\ mx' = NoHolder
           /\ \/ mx.t = t /\ mx.prog = << >> /\ mmio
              \/ ~mmio /\ mx = NoHolder /\ call[t] = "Raise"
           /\ UNCHANGED <<mmio, refs, busy, quiet, gating, gated, reset, clksel>> /\ PmuSame
           /\ \E e \in Following(t, call[t]) : call' = [call EXCEPT ![t] = e]
           /\ pc' = IF t \in Clients THEN [pc EXCEPT ![t] = After(t, call[t], mmio /\ mx.ok)] ELSE pc
           /\ Resting
<1>0. CtlInv
  BY DEF CInv, BaseInv
<1>1. /\ call[t] \in {"Raise", "Drop", "FullReset"}
      /\ \/ mx.t = t /\ mx.prog = << >> /\ mx' = NoHolder
         \/ ~mmio /\ mx' = mx
      /\ UNCHANGED <<mmio, refs, busy, quiet, gating, gated, reset, clksel>> /\ PmuSame
      /\ \E e \in Following(t, call[t]) : call' = [call EXCEPT ![t] = e]
      /\ pc' = IF t \in Clients THEN [pc EXCEPT ![t] = After(t, call[t], mmio /\ mx.ok)] ELSE pc
  BY DEF Return, Call, Move, jobVars, hwVars, pmuVars, cruVars, PmuSame
<1>2. CASE mx.t = t /\ mx.prog = << >> /\ mx' = NoHolder
  <2>1. mx # NoHolder
    BY <1>2 DEF NoHolder, Threads, Clients, Rvds, Files
  <2>2. mmio
    BY <1>0, <2>1 DEF CtlInv
  <2>3. Resting
    BY <1>2, Rests
  <2> QED BY <1>1, <1>2, <2>2, <2>3
<1>3. CASE ~mmio /\ mx' = mx
  <2>1. mx = NoHolder /\ call[t] = "Raise"
    BY <1>0, <1>1, <1>3 DEF CtlInv
  <2>2. Resting
    BY <2>1, Rests DEF NoHolder
  <2> QED BY <1>1, <1>3, <2>1, <2>2
<1> QED BY <1>1, <1>2, <1>3

\* The caller goes where After and Following say.
LEMMA ReturnMoves ==
    ASSUME CInv, NEW t \in Threads, Return(t)
    PROVE  /\ \A u \in Threads \ {t} : call'[u] = call[u]
           /\ \A c \in Clients \ {t} : pc'[c] = pc[c]
           /\ \/ /\ t \in Clients /\ call[t] = "Raise" /\ call'[t] = "none"
                 /\ \/ pc'[t] = "raised" /\ mmio /\ mx.t = t /\ mx.prog = << >> /\ mx.ok
                    \/ pc'[t] = "down" /\ (mmio => ~mx.ok)
              \/ t \in Clients /\ call[t] = "Drop" /\ call'[t] = "none" /\ pc'[t] = "down"
              \/ t \in Rvds /\ call[t] = "FullReset" /\ call'[t] = "Pulse" /\ pc'[t] = "calling"
              \/ t = "av1" /\ call[t] = "FullReset" /\ call'[t] = "none" /\ pc'[t] = "d3"
              \/ /\ t \in Files /\ call[t] = "FullReset" /\ pc' = pc
                 /\ call'[t] = "none" \/ (t = "f1" /\ call'[t] = "Pulse")
           /\ call' \in [Threads -> Entries] /\ pc' \in [Clients -> States]
<1>0. CtlInv
  BY DEF CInv, BaseInv
<1>1. /\ call[t] \in {"Raise", "Drop", "FullReset"}
      /\ \/ mx.t = t /\ mx.prog = << >> /\ mmio
         \/ ~mmio /\ mx = NoHolder /\ call[t] = "Raise"
      /\ \E e \in Following(t, call[t]) : call' = [call EXCEPT ![t] = e]
      /\ pc' = IF t \in Clients THEN [pc EXCEPT ![t] = After(t, call[t], mmio /\ mx.ok)] ELSE pc
  BY Returned
<1>2. call \in [Threads -> Entries] /\ pc \in [Clients -> States]
  BY <1>0 DEF CtlInv
<1>3. PICK e \in Following(t, call[t]) : call' = [call EXCEPT ![t] = e]
  BY <1>1
<1>4. call'[t] = e /\ \A u \in Threads \ {t} : call'[u] = call[u]
  BY <1>2, <1>3
<1>5. \A c \in Clients \ {t} : pc'[c] = pc[c]
  BY <1>1, <1>2
<1>6. t \in Clients => pc'[t] = After(t, call[t], mmio /\ mx.ok)
  BY <1>1, <1>2
<1>7. t \notin Clients => t \in Files /\ call[t] = "FullReset" /\ pc' = pc
  BY <1>0, <1>1 DEF CtlInv, Threads
<1>8. CASE t \in Clients /\ call[t] = "Raise"
  <2>1. e = "none"
    BY <1>3, <1>8 DEF Following
  <2>2. pc'[t] = IF mmio /\ mx.ok THEN "raised" ELSE "down"
    BY <1>6, <1>8 DEF After
  <2>5. \/ pc'[t] = "raised" /\ mmio /\ mx.t = t /\ mx.prog = << >> /\ mx.ok
        \/ pc'[t] = "down" /\ (mmio => ~mx.ok)
    <3>1. CASE mmio /\ mx.ok
      BY <1>1, <2>2, <3>1
    <3>2. CASE ~(mmio /\ mx.ok)
      BY <2>2, <3>2
    <3> QED BY <3>1, <3>2
  <2>6. call'[t] = "none"
    BY <1>4, <2>1
  <2>7. call' \in [Threads -> Entries]
    BY <1>2, <1>3, <2>1 DEF Entries
  <2>8. pc' \in [Clients -> States]
    <3>1. After(t, call[t], mmio /\ mx.ok) \in States
      BY <1>6, <1>8, <2>5 DEF States
    <3> QED BY <1>1, <1>2, <3>1
  <2> QED BY <1>4, <1>5, <1>8, <2>5, <2>6, <2>7, <2>8
<1>9. CASE t \in Clients /\ call[t] = "Drop"
  <2>1. e = "none" /\ pc'[t] = "down"
    BY <1>3, <1>6, <1>9 DEF Following, After
  <2>2. call' \in [Threads -> Entries]
    BY <1>2, <1>3, <2>1 DEF Entries
  <2>3. pc' \in [Clients -> States]
    BY <1>1, <1>2, <1>6, <1>9, <2>1 DEF States
  <2> QED BY <1>4, <1>5, <1>9, <2>1, <2>2, <2>3
<1>10. CASE t \in Clients /\ call[t] = "FullReset"
  <2>1. CASE t \in Rvds
    <3>1. e = "Pulse" /\ pc'[t] = "calling"
      BY <1>3, <1>6, <1>10, <2>1, Wiring DEF Following, After, Rvds
    <3>2. call' \in [Threads -> Entries]
      BY <1>2, <1>3, <3>1 DEF Entries
    <3>3. pc' \in [Clients -> States]
      BY <1>1, <1>2, <1>6, <1>10, <3>1 DEF States
    <3> QED BY <1>4, <1>5, <1>10, <2>1, <3>1, <3>2, <3>3
  <2>2. CASE t = "av1"
    <3>1. e = "none" /\ pc'[t] = "d3"
      BY <1>3, <1>6, <1>10, <2>2, Wiring DEF Following, After, Rvds
    <3>2. call' \in [Threads -> Entries]
      BY <1>2, <1>3, <3>1 DEF Entries
    <3>3. pc' \in [Clients -> States]
      BY <1>1, <1>2, <1>6, <1>10, <3>1 DEF States
    <3> QED BY <1>4, <1>5, <1>10, <2>2, <3>1, <3>2, <3>3
  <2> QED BY <1>10, <2>1, <2>2 DEF Clients
<1>11. CASE t \notin Clients
  <2>1. e = "none" \/ (t = "f1" /\ e = "Pulse")
    BY <1>3, <1>7, <1>11, Wiring DEF Following, Files, Clients, Rvds
  <2>2. call' \in [Threads -> Entries]
    BY <1>2, <1>3, <2>1 DEF Entries
  <2> QED BY <1>2, <1>4, <1>5, <1>7, <1>11, <2>1, <2>2
<1> QED BY <1>1, <1>8, <1>9, <1>10, <1>11

LEMMA ReturnKeeps ==
    ASSUME CInv, NEW t \in Threads, Return(t)
    PROVE  CInv'
<1>0. PmuInv /\ FaultInv /\ CtlInv /\ CountInv
  BY DEF CInv, BaseInv
<1>1. /\ call[t] \in {"Raise", "Drop", "FullReset"} /\ mx' = NoHolder
      /\ \/ mx.t = t /\ mx.prog = << >> /\ mmio
         \/ ~mmio /\ mx = NoHolder /\ call[t] = "Raise"
      /\ UNCHANGED <<mmio, refs, busy, quiet, gating, gated, reset, clksel>> /\ PmuSame
      /\ Resting
  BY Returned
<1>2. /\ \A u \in Threads \ {t} : call'[u] = call[u]
      /\ \A c \in Clients \ {t} : pc'[c] = pc[c]
      /\ \/ /\ t \in Clients /\ call[t] = "Raise" /\ call'[t] = "none"
            /\ \/ pc'[t] = "raised" /\ mmio /\ mx.t = t /\ mx.prog = << >> /\ mx.ok
               \/ pc'[t] = "down" /\ (mmio => ~mx.ok)
         \/ t \in Clients /\ call[t] = "Drop" /\ call'[t] = "none" /\ pc'[t] = "down"
         \/ t \in Rvds /\ call[t] = "FullReset" /\ call'[t] = "Pulse" /\ pc'[t] = "calling"
         \/ t = "av1" /\ call[t] = "FullReset" /\ call'[t] = "none" /\ pc'[t] = "d3"
         \/ /\ t \in Files /\ call[t] = "FullReset" /\ pc' = pc
            /\ call'[t] = "none" \/ (t = "f1" /\ call'[t] = "Pulse")
      /\ call' \in [Threads -> Entries] /\ pc' \in [Clients -> States]
  BY ReturnMoves
<1>3. t \in Clients => pc[t] = "calling" /\ pc'[t] # "up"
  BY <1>0, <1>1, <1>2 DEF CtlInv, Files, Clients, Rvds
<1>4. /\ Rvds \subseteq Clients /\ Clients \subseteq Threads /\ Files \subseteq Threads /\ Clients \cap Files = {}
      /\ "av1" \in Clients \ Rvds /\ "fav1" \in Files
  BY DEF Threads, Clients, Rvds, Files
<1>5. CtlInv'
  <2>1. \A d \in busy' : pc'[d] = "up"
    BY <1>0, <1>1, <1>2, <1>3, <1>4 DEF CtlInv
  <2>2. \A d \in Clients : pc'[d] = "calling" <=> call'[d] # "none"
    BY <1>0, <1>2, <1>4 DEF CtlInv
  <2>3. \A d \in Rvds : pc'[d] # "d3"
    BY <1>0, <1>2, <1>4 DEF CtlInv
  <2>4. \A u \in Files : /\ call'[u] \in {"none", "FullReset", "Pulse", "Pulsed"}
                         /\ call'[u] # "none" => pc'[OwnerOf(u)] \in {"up", "d3"}
    <3>1. ASSUME NEW u \in Files PROVE /\ call'[u] \in {"none", "FullReset", "Pulse", "Pulsed"}
                                       /\ call'[u] # "none" => pc'[OwnerOf(u)] \in {"up", "d3"}
      <4>1. OwnerOf(u) \in Clients
        BY Wiring DEF Files, Clients, Rvds
      <4>2. CASE u = t
        BY <1>0, <1>2, <1>4, <4>2 DEF CtlInv
      <4>3. CASE u # t
        <5>1. call'[u] = call[u]
          BY <1>2, <1>4, <4>3
        <5>2. call[u] # "none" => OwnerOf(u) # t
          BY <1>0, <1>3, <4>1 DEF CtlInv
        <5> QED BY <1>0, <1>2, <4>1, <5>1, <5>2 DEF CtlInv
      <4> QED BY <4>2, <4>3
    <3> QED BY <3>1
  <2>5. call'["av1"] \notin {"Pulse", "Pulsed"} /\ call'["fav1"] \in {"none", "FullReset"}
    BY <1>0, <1>2, <1>4 DEF CtlInv
  <2>6. ~mmio' => \A u \in Threads : call'[u] \in {"none", "Raise"}
    BY <1>0, <1>1, <1>2 DEF CtlInv
  <2>7. ~mmio' => \A d \in Clients : pc'[d] \in {"down", "calling"}
    BY <1>0, <1>1, <1>2 DEF CtlInv
  <2> QED BY <1>0, <1>1, <1>2, <2>1, <2>2, <2>3, <2>4, <2>5, <2>6, <2>7 DEF CtlInv
<1>6. mx'.t = "none" /\ mx'.prog = << >> /\ mx'.ok
  BY <1>1 DEF NoHolder
<1>7. \A c \in Clients : In(c)' <=> Counted(c)'
  BY <1>6 DEF In, Clients, Rvds
<1>8. \A c \in Clients \ {t} : In(c)' <=> In(c)
  <2>1. \A c \in Clients \ {t} : Counted(c)' <=> Counted(c)
    BY <1>2, <1>4 DEF Counted, Holds
  <2>2. \A c \in Clients \ {t} : mx.t # c
    BY <1>1 DEF NoHolder, Clients, Rvds
  <2> QED BY <1>7, <2>1, <2>2 DEF In
<1>9. t \in Clients => (In(t)' <=> In(t))
  <2>1. CASE t \in Clients /\ call[t] = "Raise" /\ call'[t] = "none" /\ pc'[t] = "raised" /\ mx.t = t /\ mx.prog = << >> /\ mx.ok
    BY <1>7, <2>1 DEF In, Counted, Holds
  <2>2. CASE t \in Clients /\ call[t] = "Raise" /\ call'[t] = "none" /\ pc'[t] = "down" /\ (mmio => ~mx.ok)
    <3>1. ~Counted(t)' /\ ~Counted(t)
      BY <1>3, <2>2 DEF Counted, Holds
    <3>2. ~(mx.t = t /\ mx.ok)
      BY <1>1, <2>2 DEF NoHolder, Clients, Rvds
    <3> QED BY <1>7, <2>2, <3>1, <3>2 DEF In
  <2>3. CASE t \in Clients /\ call[t] = "Drop" /\ call'[t] = "none" /\ pc'[t] = "down"
    <3>1. ~Counted(t)'
      BY <2>3 DEF Counted, Holds
    <3>2. mx.t = t /\ mx.prog = << >>
      BY <1>1, <2>3
    <3> QED BY <1>7, <2>3, <3>1, <3>2 DEF In
  <2>4. CASE t \in Clients /\ call[t] = "FullReset" /\ pc'[t] \in {"calling", "d3"} /\ call'[t] \in {"none", "Pulse"}
             /\ (pc'[t] = "calling" => call'[t] = "Pulse")
    <3>1. Counted(t)' /\ Counted(t)
      BY <1>3, <2>4 DEF Counted, Holds
    <3> QED BY <1>7, <2>4, <3>1 DEF In
  <2> QED BY <1>2, <1>4, <2>1, <2>2, <2>3, <2>4
<1>10. CountInv'
  BY <1>0, <1>1, <1>8, <1>9, CountSame
<1>11. PmuInv' /\ \A e \in Domains : /\ Up(e) => Up(e)'
                                     /\ Released(e) => Released(e)'
                                     /\ e \in on /\ e \in pwr => e \in on' /\ e \in pwr'
  BY <1>0, <1>1, PmuSteady
<1>12. FaultInv'
  BY <1>0, <1>1, <1>6 DEF FaultInv, PmuSame
<1>13. Resting'
  <2>1. refs'.par = Bit(refs'.rk > 0) + Bit(refs'.av1 > 0)
    BY <1>1 DEF Resting
  <2>2. \A c \in Rvds : Pulsing(c) => Pulsing(c)'
    BY <1>1, <1>2 DEF Pulsing
  <2>3. \A c \in Rvds : DomainOf(c) \in Domains
    BY Wiring DEF Rvds, Domains
  <2>4. \A c \in Rvds : CoreUp(c) => CoreUp(c)'
    BY <1>1, <1>11, <2>2, <2>3 DEF CoreUp
  <2>5. ParentsOk'
    BY <1>1, <1>11 DEF Resting, ParentsOk, ParentsUp, ParentsCold, Domains
  <2>6. RkCold => RkCold'
    BY <1>1, <1>11 DEF RkCold, Domains
  <2>7. RkOk'
    BY <1>1, <2>4, <2>6 DEF Resting, RkOk, Rvds
  <2>8. pc'["av1"] = "up" => pc["av1"] = "up"
    BY <1>2, <1>3, <1>4
  <2>9. Av1Ok'
    BY <1>1, <1>11, <2>8 DEF Resting, Av1Ok, Av1On, Domains
  <2> QED BY <1>6, <2>1, <2>5, <2>7, <2>9 DEF Resting
<1> QED BY <1>5, <1>10, <1>11, <1>12, <1>13 DEF CInv, BaseInv, Place

-----------------------------------------------------------------------------
\* The invariant holds throughout.

LEMMA CInvInit == Init => CInv
<1> SUFFICES ASSUME Init PROVE CInv
  OBVIOUS
<1>1. /\ mmio = FALSE /\ refs = [rk |-> 0, av1 |-> 0, par |-> 0] /\ mx = NoHolder /\ call = [t \in Threads |-> "none"]
      /\ pc = [c \in Clients |-> "down"] /\ busy = {} /\ quiet = {} /\ gating = [c \in Rvds |-> 0]
      /\ gated = Con40 \cup Con41 \cup Con44 \cup Con68 /\ reset = Con40 \cup Con41 \cup Con44 \cup Con68
      /\ pwr = {} /\ on = {} /\ req = Domains \ {"VCODEC"} /\ idle = Domains \ {"VCODEC"} /\ faults = 0 /\ tainted = {}
  BY DEF Init
<1>2. mx.t = "none" /\ mx.prog = << >> /\ mx.ok /\ refs.rk = 0 /\ refs.av1 = 0 /\ refs.par = 0
  BY <1>1 DEF NoHolder
<1>3. (\A t \in Threads : call[t] = "none") /\ (\A c \in Clients : pc[c] = "down")
  BY <1>1
<1>4. PmuInv
  BY <1>1 DEF PmuInv
<1>5. FaultInv
  BY <1>1, <1>2 DEF FaultInv
<1>6. CtlInv
  <2>1. mmio \in BOOLEAN
    BY <1>1, Zenon
  <2>2. call \in [Threads -> Entries] /\ pc \in [Clients -> States]
    BY <1>1 DEF Entries, States
  <2>3. "av1" \in Clients /\ "av1" \in Threads /\ "fav1" \in Threads /\ Rvds \subseteq Clients /\ Clients \subseteq Threads /\ Files \subseteq Threads
    BY DEF Threads, Clients, Rvds, Files
  <2> QED BY <1>1, <1>3, <2>1, <2>2, <2>3 DEF CtlInv
<1>7. CountInv
  <2>1. \A c \in Clients : ~In(c)
    BY <1>2, <1>3 DEF In, Counted, Holds, Threads, Clients, Rvds
  <2>2. Bit(In("rvd0")) = 0 /\ Bit(In("rvd1")) = 0 /\ Bit(In("av1")) = 0
    BY <2>1 DEF Bit, Clients, Rvds
  <2> QED BY <1>1, <1>2, <2>2 DEF CountInv
<1>8. Resting
  <2>1. ParentsOk /\ RkOk /\ Av1Ok
    BY <1>1, <1>2, Wiring DEF ParentsOk, ParentsCold, RkOk, RkCold, Av1Ok, Released
  <2>2. Bit(refs.rk > 0) = 0 /\ Bit(refs.av1 > 0) = 0
    BY <1>2 DEF Bit
  <2> QED BY <1>2, <2>1, <2>2 DEF Resting
<1> QED BY <1>4, <1>5, <1>6, <1>7, <1>8 DEF CInv, BaseInv, Place

LEMMA CInvNext ==
    ASSUME CInv, [Next]_vars
    PROVE  CInv'
<1>1. CASE UNCHANGED vars
  <2>1. PmuSame /\ UNCHANGED <<mmio, refs, mx, call, pc, busy, quiet, gating, gated, reset, clksel>>
    BY <1>1 DEF vars, PmuSame
  <2>2. CtlInv'
    BY <2>1 DEF CInv, BaseInv, CtlInv
  <2>3. \A c \in Clients : In(c)' <=> In(c)
    BY <2>1 DEF In, Counted, Holds
  <2> QED BY <2>1, <2>2, <2>3, MoveKeeps
<1>2. ASSUME NEW t \in Threads, Enter(t) PROVE CInv'
  <2>1. call[t] \in {"Raise", "Drop", "FullReset"}
    BY <1>2 DEF Enter, jobVars
  <2> QED BY <1>2, <2>1, EnterRaiseKeeps, EnterDropKeeps, EnterResetKeeps
<1>3. ASSUME NEW t \in Threads, Return(t) PROVE CInv'
  BY <1>3, ReturnKeeps
<1>4. ASSUME NEW t \in Threads, AssertCoreReset(t) \/ DeassertCoreReset(t) PROVE CInv'
  BY <1>4, AssertCoreResetKeeps, DeassertCoreResetKeeps
<1>5. CASE Step
  BY <1>5, StepKeeps
<1>6. ASSUME NEW c \in Clients, PrepareHardware(c) \/ PrepareReset(c) \/ ReleaseHardware(c) PROVE CInv'
  BY <1>6, PrepareKeeps
<1>7. ASSUME NEW c \in Rvds, Kick(c) \/ Complete(c) \/ GateLeafClocks(c) PROVE CInv'
  BY <1>7, KickKeeps, GateKeeps
<1>8. CASE D0Entry \/ D0Exit
  BY <1>8, D0Keeps
<1>9. ASSUME NEW t \in Files, SessionReset(t) PROVE CInv'
  BY <1>9, SessionResetKeeps
<1>10. CASE CcuPrepareHardware \/ CcuReleaseHardware
  BY <1>10, CcuHardwareKeeps
<1>11. CASE PmuSettle
  BY <1>11, PmuSettleKeeps
<1> QED BY <1>1, <1>2, <1>3, <1>4, <1>5, <1>6, <1>7, <1>8, <1>9, <1>10, <1>11 DEF Next

-----------------------------------------------------------------------------
\* What the invariant says of a client that holds its cluster.

LEMMA HeldUp ==
    ASSUME CInv, NEW c \in Clients, Holds(c), ~UnderReset(c)
    PROVE  /\ ParentsUp
           /\ c \in Rvds => CoreUp(c) /\ "rk" \in clksel
           /\ c = "av1" => Av1On /\ Up("AV1") /\ "68" \notin reset
<1>1. (c \in Rvds => refs.rk > 0) /\ (c = "av1" => refs.av1 = 1)
  BY Holding
<1>2. CountInv /\ CtlInv
  BY DEF CInv, BaseInv
<1>3. refs.rk \in 0 .. 2 /\ refs.av1 \in 0 .. 1
  <2>1. Bit(In("rvd0")) \in {0, 1} /\ Bit(In("rvd1")) \in {0, 1} /\ Bit(In("av1")) \in {0, 1}
    BY DEF Bit
  <2> QED BY <1>2, <2>1 DEF CountInv
<1>4. c \in Rvds \/ c = "av1"
  BY DEF Clients
<1>5. "av1" \notin Rvds
  BY DEF Rvds
<1>6. Bit(refs.rk > 0) \in {0, 1} /\ Bit(refs.av1 > 0) \in {0, 1}
  BY DEF Bit
<1>7. (refs.rk > 0 => Bit(refs.rk > 0) = 1) /\ (refs.av1 = 1 => Bit(refs.av1 > 0) = 1)
  BY DEF Bit
<1>8. (RkOk => (c \in Rvds => CoreUp(c) /\ "rk" \in clksel)) /\ (Av1Ok => (c = "av1" => Av1On /\ Up("AV1") /\ "68" \notin reset))
  <2>1. RkOk => (c \in Rvds => CoreUp(c) /\ "rk" \in clksel)
    BY <1>1 DEF RkOk, Rvds
  <2>2. Av1Ok => (c = "av1" => Av1On /\ Up("AV1") /\ "68" \notin reset)
    BY <1>1 DEF Av1Ok
  <2> QED BY <2>1, <2>2
<1>9. CASE mx.prog = << >>
  <2>1. Resting
    BY <1>9, Rests
  <2>2. refs.par > 0
    BY <1>1, <1>4, <1>6, <1>7, <2>1 DEF Resting
  <2> QED BY <1>8, <2>1, <2>2 DEF Resting, ParentsOk
<1>10. CASE mx.prog # << >>
  <2>0. ~Resting
    BY <1>10 DEF Resting
  <2>1. ASSUME NEW n \in 1 .. 9, RaisingRk(n) PROVE ParentsUp /\ Av1Ok /\ c \notin Rvds
    <3>1. refs.rk = 0 /\ Av1Ok
      BY <2>1 DEF RaisingRk
    <3>2. c \notin Rvds /\ c = "av1"
      BY <1>1, <1>4, <3>1
    <3>3. CASE n = 1
      <4>1. refs.par = Bit(refs.av1 > 0) /\ ParentsOk
        BY <2>1, <3>3 DEF RaisingRk
      <4> QED BY <1>1, <1>7, <3>1, <3>2, <4>1 DEF ParentsOk
    <3>4. CASE n > 1
      BY <2>1, <3>1, <3>2, <3>4 DEF RaisingRk
    <3> QED BY <3>3, <3>4
  <2>2. ASSUME NEW n \in 1 .. 6, UndoingRk(n) PROVE ParentsUp /\ Av1Ok /\ c \notin Rvds
    BY <1>1, <2>2 DEF UndoingRk
  <2>3. ASSUME NEW n \in 1 .. 8, DroppingRk(n) PROVE ParentsUp /\ Av1Ok /\ c \notin Rvds
    <3>1. refs.rk = 1 /\ Av1Ok /\ mx.t \in Rvds /\ call[mx.t] = "Drop"
      BY <2>3 DEF DroppingRk, Inside
    <3>2. c \notin Rvds /\ c = "av1"
      BY <1>4, <1>10, <3>1, NobodyDrops DEF Clients
    <3>3. CASE n = 8
      <4>1. refs.par = Bit(refs.av1 > 0) /\ ParentsOk
        BY <2>3, <3>3 DEF DroppingRk
      <4> QED BY <1>1, <1>7, <3>1, <3>2, <4>1 DEF ParentsOk
    <3>4. CASE n <= 7
      BY <2>3, <3>1, <3>2, <3>4 DEF DroppingRk
    <3> QED BY <3>3, <3>4
  <2>4. ASSUME NEW n \in 1 .. 6, RaisingAv1(n) PROVE ParentsUp /\ RkOk /\ c \in Rvds
    <3>1. refs.av1 = 0 /\ RkOk
      BY <2>4 DEF RaisingAv1
    <3>2. c \in Rvds
      BY <1>1, <1>4, <3>1
    <3>3. CASE n = 1
      <4>1. refs.par = Bit(refs.rk > 0) /\ ParentsOk
        BY <2>4, <3>3 DEF RaisingAv1
      <4> QED BY <1>1, <1>7, <3>1, <3>2, <4>1 DEF ParentsOk
    <3>4. CASE n > 1
      BY <2>4, <3>1, <3>2, <3>4 DEF RaisingAv1
    <3> QED BY <3>3, <3>4
  <2>5. ASSUME NEW n \in 1 .. 2, UndoingAv1(n) PROVE ParentsUp /\ RkOk /\ c \in Rvds
    BY <1>1, <1>4, <2>5 DEF UndoingAv1
  <2>6. ASSUME NEW n \in 1 .. 5, DroppingAv1(n) PROVE ParentsUp /\ RkOk /\ c \in Rvds
    <3>1. RkOk /\ mx.t = "av1" /\ call[mx.t] = "Drop"
      BY <2>6 DEF DroppingAv1, Inside
    <3>2. c \in Rvds
      BY <1>4, <1>10, <3>1, NobodyDrops DEF Clients
    <3>3. CASE n = 5
      <4>1. refs.par = Bit(refs.rk > 0) /\ ParentsOk
        BY <2>6, <3>3 DEF DroppingAv1
      <4> QED BY <1>1, <1>7, <3>1, <3>2, <4>1 DEF ParentsOk
    <3>4. CASE n <= 4
      BY <2>6, <3>1, <3>2, <3>4 DEF DroppingAv1
    <3> QED BY <3>3, <3>4
  <2>7. ASSUME NEW n \in 1 .. 4 PROVE ~RaisingParents(n) /\ ~UndoingParents(n) /\ ~DroppingParents(n)
    <3>1. refs.rk # 0 \/ refs.av1 # 0
      BY <1>1, <1>4
    <3>7. refs # [rk |-> 0, av1 |-> 0, par |-> 1]
      BY <3>1
    <3>2. ~RaisingParents(n)
      BY <3>7, Zenon DEF RaisingParents, ParentsRaising
    <3>3. ~UndoingParents(n)
      BY <3>7, Zenon DEF UndoingParents
    <3>4. ~(Inside(Rvds, "Drop", TRUE) /\ refs.rk = 1 /\ refs.av1 = 0)
      <4>1. ASSUME Inside(Rvds, "Drop", TRUE), refs.rk = 1, refs.av1 = 0 PROVE FALSE
        <5>1. c \in Rvds /\ mx.t \in Rvds /\ call[mx.t] = "Drop" /\ mx.t \in Clients
          BY <1>1, <1>4, <4>1 DEF Inside, Clients
        <5>2. refs.rk = 2
          BY <1>10, <5>1, NobodyDrops
        <5> QED BY <4>1, <5>2
      <4> QED BY <4>1
    <3>5. ~(Inside({"av1"}, "Drop", TRUE) /\ refs.rk = 0 /\ refs.av1 = 1)
      <4>1. ASSUME Inside({"av1"}, "Drop", TRUE), refs.rk = 0, refs.av1 = 1 PROVE FALSE
        <5>1. c = "av1" /\ mx.t = "av1" /\ call[mx.t] = "Drop" /\ mx.t \in Clients
          BY <1>1, <1>4, <4>1 DEF Inside, Clients
        <5> QED BY <1>10, <5>1, NobodyDrops
      <4> QED BY <4>1
    <3>6. ~DroppingParents(n)
      BY <3>1, <3>4, <3>5 DEF DroppingParents
    <3> QED BY <3>2, <3>3, <3>6
  <2>8. ASSUME NEW d \in Rvds, NEW n \in 1 .. 6, ResettingRk(d, n) PROVE ParentsUp /\ Av1Ok /\ (c \in Rvds => CoreUp(c) /\ "rk" \in clksel)
    <3>1. Reset(d) /\ Av1Ok /\ "rk" \in clksel /\ \A u \in Rvds \ {d} : CoreUp(u)
      BY <2>8 DEF ResettingRk
    <3>2. c # d
      BY <3>1 DEF Reset, UnderReset
    <3> QED BY <3>1, <3>2 DEF Reset
  <2>9. ASSUME NEW n \in 1 .. 4, ResettingAv1(n) PROVE ParentsUp /\ RkOk /\ c \in Rvds
    <3>1. Reset("av1") /\ RkOk
      BY <2>9 DEF ResettingAv1
    <3>2. c # "av1"
      BY <3>1 DEF Reset, UnderReset
    <3> QED BY <1>4, <3>1, <3>2 DEF Reset
  <2>10. Place
    BY DEF CInv
  <2> QED BY <1>5, <1>8, <2>0, <2>1, <2>2, <2>3, <2>4, <2>5, <2>6, <2>7, <2>8, <2>9, <2>10 DEF Place
<1> QED BY <1>9, <1>10

LEMMA CInvPowered == CInv => PoweredWhileHeld
<1> SUFFICES ASSUME CInv, NEW c \in Clients, Holds(c), ~UnderReset(c), tainted \cap Needs(c) = {}
             PROVE  /\ Needs(c) \subseteq on \cap pwr
                    /\ idle \cap Needs(c) = {}
                    /\ Con44 \cap (gated \cup reset) = {}
                    /\ BusOf(DomainOf(c)) \cap reset = {}
                    /\ (c \in Rvds \/ pc[c] = "up") => BusOf(DomainOf(c)) \cap gated = {}
                    /\ RefOf(c) \in clksel
  BY DEF PoweredWhileHeld
<1>1. /\ ParentsUp
      /\ c \in Rvds => CoreUp(c) /\ "rk" \in clksel
      /\ c = "av1" => Av1On /\ Up("AV1") /\ "68" \notin reset
  BY HeldUp
<1>2. c \in Rvds \/ c = "av1"
  BY DEF Clients
<1>3. Up(DomainOf(c)) /\ Up("VDPU") /\ Up("VCODEC")
  BY <1>1, <1>2, Wiring DEF ParentsUp, CoreUp
<1>4. Needs(c) \subseteq on \cap pwr /\ idle \cap Needs(c) = {}
  BY <1>3 DEF Needs, Up
<1>5. Con44 \cap (gated \cup reset) = {}
  BY <1>1 DEF ParentsUp, Con44
<1>6. CASE c \in Rvds
  <2>1. RefOf(c) = "rk"
    BY <1>6 DEF RefOf
  <2> QED BY <1>1, <1>4, <1>5, <1>6, <2>1 DEF CoreUp
<1>7. CASE c = "av1"
  <2>1. BusOf(DomainOf(c)) = {"68"} /\ RefOf(c) = "av1" /\ c \notin Rvds
    BY <1>7, Wiring DEF Rvds
  <2> QED BY <1>1, <1>4, <1>5, <1>7, <2>1 DEF Av1On
<1> QED BY <1>2, <1>6, <1>7

LEMMA CInvJob == CInv => JobUndisturbed
<1> SUFFICES ASSUME CInv, NEW c \in busy, ~UnderReset(c), ~Pulsing(c)
             PROVE  LeafOf(c) \cap reset = {} /\ (c \in quiet => LeafOf(c) \cap gated = {})
  BY DEF JobUndisturbed
<1>1. c \in Rvds /\ c \in Clients /\ Holds(c)
  BY DEF CInv, BaseInv, CtlInv, Holds, Clients
<1>2. CoreUp(c)
  BY <1>1, HeldUp
<1> QED BY <1>2 DEF CoreUp

LEMMA CInvCold == CInv => ColdWhenDropped
<1> SUFFICES ASSUME CInv, mx = NoHolder
             PROVE  /\ refs.rk = 0 => /\ Con40 \cup Con41 \subseteq gated \cap reset
                                      /\ faults = 0 => {"RKVDEC0", "RKVDEC1"} \cap pwr = {}
                    /\ refs.par = 0 => /\ Con44 \subseteq gated \cap reset
                                       /\ faults = 0 => {"VDPU", "VCODEC"} \cap pwr = {}
  BY DEF ColdWhenDropped
<1>1. Resting
  BY Rests DEF NoHolder
<1> QED BY <1>1 DEF Resting, RkOk, RkCold, ParentsOk, ParentsCold, Released, Con44

LEMMA CInvRefs == CInv => RefsExact
<1> SUFFICES ASSUME CInv, mx = NoHolder
             PROVE  /\ refs.rk = Count("rk") /\ refs.av1 = Count("av1")
                    /\ refs.par = Bit(refs.rk > 0) + Bit(refs.av1 > 0)
  BY DEF RefsExact
<1>1. mx.t = "none" /\ mx.prog = << >>
  BY DEF NoHolder
<1>2. \A c \in Clients : In(c) <=> Counted(c)
  BY <1>1 DEF In, Clients, Rvds
<1>3. refs.rk = Bit(In("rvd0")) + Bit(In("rvd1")) /\ refs.av1 = Bit(In("av1"))
  BY DEF CInv, BaseInv, CountInv
<1>4. Clients = {"rvd0", "rvd1", "av1"}
  BY DEF Clients, Rvds
<1>5. Count("rk") = Bit(In("rvd0")) + Bit(In("rvd1"))
  <2> DEFINE S == {c \in Clients : RefOf(c) = "rk" /\ Counted(c)}
  <2>1. S \subseteq {"rvd0", "rvd1"} /\ ("rvd0" \in S <=> In("rvd0")) /\ ("rvd1" \in S <=> In("rvd1"))
    BY <1>2, <1>4, Wiring
  <2>2. CASE In("rvd0") /\ In("rvd1")
    <3>1. S = {"rvd0"} \cup {"rvd1"}
      BY <2>1, <2>2
    <3>2. IsFiniteSet({"rvd0"}) /\ Cardinality({"rvd0"}) = 1 /\ "rvd1" \notin {"rvd0"}
      BY FS_Singleton
    <3>3. Cardinality(S) = 1 + 1
      BY <3>1, <3>2, FS_AddElement
    <3> QED BY <2>2, <3>3 DEF Count, Bit
  <2>3. CASE In("rvd0") /\ ~In("rvd1")
    <3>1. S = {"rvd0"}
      BY <2>1, <2>3
    <3> QED BY <2>3, <3>1, FS_Singleton DEF Count, Bit
  <2>4. CASE ~In("rvd0") /\ In("rvd1")
    <3>1. S = {"rvd1"}
      BY <2>1, <2>4
    <3> QED BY <2>4, <3>1, FS_Singleton DEF Count, Bit
  <2>5. CASE ~In("rvd0") /\ ~In("rvd1")
    <3>1. S = {}
      BY <2>1, <2>5
    <3> QED BY <2>5, <3>1, FS_EmptySet DEF Count, Bit
  <2> QED BY <2>2, <2>3, <2>4, <2>5
<1>6. Count("av1") = Bit(In("av1"))
  <2> DEFINE S == {c \in Clients : RefOf(c) = "av1" /\ Counted(c)}
  <2>1. S \subseteq {"av1"} /\ ("av1" \in S <=> In("av1"))
    BY <1>2, <1>4, Wiring
  <2>2. CASE In("av1")
    <3>1. S = {"av1"}
      BY <2>1, <2>2
    <3> QED BY <2>2, <3>1, FS_Singleton DEF Count, Bit
  <2>3. CASE ~In("av1")
    <3>1. S = {}
      BY <2>1, <2>3
    <3> QED BY <2>3, <3>1, FS_EmptySet DEF Count, Bit
  <2> QED BY <2>2, <2>3
<1> QED BY <1>1, <1>3, <1>5, <1>6, Rests DEF Resting

-----------------------------------------------------------------------------

\* The inductive invariant of the sequencer, for any number of handshakes that time out by
\* themselves: at every operation of every raise, drop, undo and reset of ccu.c the hardware is where
\* that operation of the program assumes it, whatever the other threads do meanwhile.
THEOREM SequencerInvariant == Spec => []CInv
BY CInvInit, CInvNext, PTL DEF Spec

\* A client that was told its cluster is up finds it powered, clocked, out of reset and its bus awake,
\* whatever the other clients raise, drop or reset; only its own reset or a PMU time-out of one of its
\* domains may take that away.  RkMppCcuRaiseCluster and RkMppCcuRaiseAv1Cluster promise their callers this.
THEOREM HeldStaysPowered == Spec => []PoweredWhileHeld
BY SequencerInvariant, CInvPowered, PTL

\* A kicked core stays out of reset unless one of its own callers resets it, and keeps its codec
\* clocks unless, besides, it was kicked while an earlier completion of its own core was still on the way to
\* its gate: a core's leaf-clock and core-reset writes touch only that core's bits, at whatever point
\* of the other threads' sequences, raises, drops and late gates they come.
THEOREM JobsUndisturbed == Spec => []JobUndisturbed
BY SequencerInvariant, CInvJob, PTL

\* With nobody inside, the rkvdec cluster and the parents nobody holds are gated and in reset, and off
\* unless a handshake timed out: RkMppCcuDropCluster and every failed raise undo all they did.
THEOREM DroppedIsCold == Spec => []ColdWhenDropped
BY SequencerInvariant, CInvCold, PTL

\* With nobody inside, g_raise_refcount and g_av1_refcount count exactly the clients whose raise
\* succeeded and whose drop has not begun, and the parents are counted once for each raised cluster.
THEOREM CountsExact == Spec => []RefsExact
BY SequencerInvariant, CInvRefs, PTL

=============================================================================
