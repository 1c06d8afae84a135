-------------------------- MODULE DecoderMftProofs --------------------------
(***************************************************************************)
(* Proofs about DecoderMft.                                                *)
(***************************************************************************)
EXTENDS DecoderMft, FiniteSetTheorems, TLAPS

-----------------------------------------------------------------------------
\* Least and greatest numbers.

LEMMA LeastNat ==
    ASSUME NEW S \in SUBSET Nat, S # {}
    PROVE  \E x \in S : \A y \in S : x <= y
<1>1. PICK x \in S : \A y \in S : ~ (<<y, x>> \in OpToRel(<, Nat))
  BY NatLessThanWellFounded, WFMin
<1>2. \A y \in S : ~ (y < x)
  BY <1>1 DEF OpToRel
<1> QED BY <1>2

LEMMA MinIn ==
    ASSUME NEW S \in SUBSET Nat, S # {}
    PROVE  Min(S) \in S
BY LeastNat DEF Min

LEMMA MaxIn ==
    ASSUME NEW n \in Nat, NEW s \in SUBSET (1 .. n), s # {}
    PROVE  Max(s) \in s /\ \A y \in s : y <= Max(s)
<1> DEFINE T == {n - x : x \in s}
<1>1. T \in SUBSET Nat /\ T # {}
  <2>1. \A x \in s : n - x \in Nat
    OBVIOUS
  <2> QED BY <2>1
<1>2. PICK t \in T : \A u \in T : t <= u
  BY <1>1, LeastNat
<1>3. PICK x \in s : t = n - x
  BY <1>2
<1>4. \A y \in s : x >= y
  <2> TAKE y \in s
  <2>1. n - y \in T
    OBVIOUS
  <2> QED BY <1>2, <1>3, <2>1
<1>5. \E m \in s : \A y \in s : m >= y
  BY <1>4
<1>6. Max(s) \in s /\ \A y \in s : Max(s) >= y
  BY <1>5 DEF Max
<1> QED BY <1>6

\* The greatest number of 1 .. n is n.
LEMMA MaxUpto ==
    ASSUME NEW n \in Nat \ {0}
    PROVE  Max(1 .. n) = n /\ (1 .. n) \ {n} = 1 .. n - 1
<1>1. (1 .. n) \in SUBSET (1 .. n) /\ 1 .. n # {} /\ n \in Nat
  OBVIOUS
<1>2. Max(1 .. n) \in 1 .. n /\ \A y \in 1 .. n : y <= Max(1 .. n)
  BY ONLY <1>1, MaxIn
<1> QED BY <1>2

-----------------------------------------------------------------------------
\* Removing an entry of a queue.

LEMMA RemoveFacts ==
    ASSUME NEW F, NEW s \in Seq(F), NEW i \in 1 .. Len(s)
    PROVE  RemoveAt(s, i) \in Seq(F) /\ Len(RemoveAt(s, i)) = Len(s) - 1
<1> DEFINE a == SubSeq(s, 1, i - 1)
           b == SubSeq(s, i + 1, Len(s))
<1>1. a \in Seq(F) /\ Len(a) = i - 1
  OBVIOUS
<1>2. b \in Seq(F) /\ Len(b) = Len(s) - i
  OBVIOUS
<1>3. \A u, v \in Seq(F) : u \o v \in Seq(F) /\ Len(u \o v) = Len(u) + Len(v)
  OBVIOUS
<1>4. RemoveAt(s, i) = a \o b
  BY DEF RemoveAt
<1> HIDE DEF a, b
<1>5. RemoveAt(s, i) \in Seq(F) /\ Len(RemoveAt(s, i)) = Len(a) + Len(b)
  BY ONLY <1>1, <1>2, <1>3, <1>4, Zenon
<1>6. \A x, y \in Nat : x - 1 + (y - x) = y - 1
  OBVIOUS
<1>7. Len(s) \in Nat /\ i \in Nat
  OBVIOUS
<1>8. Len(a) + Len(b) = i - 1 + (Len(s) - i)
  BY ONLY <1>1, <1>2
<1> QED BY ONLY <1>5, <1>6, <1>7, <1>8

Timed(F) == \A f \in F : f.pts \in Nat

LEMMA LowestIn ==
    ASSUME NEW F, Timed(F), NEW s \in Seq(F), s # <<>>
    PROVE  Lowest(s) \in 1 .. Len(s)
<1> DEFINE T == {s[j].pts : j \in DOMAIN s}
           L == {i \in DOMAIN s : \A j \in DOMAIN s : s[i].pts <= s[j].pts}
<1>1. DOMAIN s = 1 .. Len(s) /\ Len(s) \in Nat /\ 1 \in DOMAIN s
  OBVIOUS
<1>2. \A j \in DOMAIN s : s[j].pts \in Nat
  BY DEF Timed
<1>3. T \in SUBSET Nat /\ T # {}
  BY <1>1, <1>2
<1>4. PICK t \in T : \A u \in T : t <= u
  BY <1>3, LeastNat
<1>5. PICK i \in DOMAIN s : t = s[i].pts
  BY <1>4
<1>6. L # {} /\ L \in SUBSET Nat
  BY <1>1, <1>4, <1>5
<1>7. Min(L) \in L
  BY <1>6, MinIn
<1> QED BY <1>1, <1>7 DEF Lowest

-----------------------------------------------------------------------------
\* Bump is the fold of one step, n times.

BumpOne(x) ==
    [x EXCEPT !.ready = Append(@, x.reorder[Lowest(x.reorder)]),
              !.reorder = RemoveAt(@, Lowest(x.reorder))]

BumpStep(e, g, s) == IF s = {} THEN e ELSE BumpOne(g[s \ {Max(s)}])
IsBump(e, g, D)   == g = [s \in D |-> BumpStep(e, g, s)]
Upto(n, k)        == {s \in SUBSET (1 .. n) : Cardinality(s) <= k}

LEMMA UptoFacts ==
    ASSUME NEW n \in Nat
    PROVE  /\ Upto(n, 0) = {{}} /\ Upto(n, n) = SUBSET (1 .. n)
           /\ \A k \in Nat : \A s \in Upto(n, k) : s = {} \/ (k # 0 /\ s \ {Max(s)} \in Upto(n, k - 1))
           /\ \A k \in Nat : \A s \in Upto(n, k + 1) : s \in Upto(n, k) \/ Cardinality(s) = k + 1
           /\ \A k \in Nat : \A s \in Upto(n, k) : s \in Upto(n, k + 1) /\ Cardinality(s) # k + 1
<1>1. IsFiniteSet(1 .. n) /\ Cardinality(1 .. n) = n
  BY FS_Interval
<1>2. ASSUME NEW s \in SUBSET (1 .. n)
      PROVE  IsFiniteSet(s) /\ Cardinality(s) \in Nat /\ Cardinality(s) <= n /\ (Cardinality(s) = 0 => s = {})
  <2>1. IsFiniteSet(s) /\ Cardinality(s) <= n
    BY <1>1, FS_Subset
  <2> QED BY <2>1, FS_CardinalityType, FS_EmptySet
<1>3. \A s \in SUBSET (1 .. n) : s # {} => Cardinality(s \ {Max(s)}) = Cardinality(s) - 1
  BY <1>2, MaxIn, FS_RemoveElement
<1>4. Cardinality({}) = 0
  BY FS_EmptySet
<1>5. Upto(n, 0) = {{}}
  BY <1>2, <1>4 DEF Upto
<1>6. Upto(n, n) = SUBSET (1 .. n)
  BY <1>2 DEF Upto
<1>7. ASSUME NEW k \in Nat, NEW s \in Upto(n, k), s # {}
      PROVE  k # 0 /\ s \ {Max(s)} \in Upto(n, k - 1)
  <2>1. s \in SUBSET (1 .. n) /\ Cardinality(s) <= k
    BY DEF Upto
  <2>2. Cardinality(s) \in Nat \ {0} /\ Cardinality(s \ {Max(s)}) = Cardinality(s) - 1
    BY <1>2, <1>3, <1>7, <2>1
  <2>3. s \ {Max(s)} \in SUBSET (1 .. n)
    BY <2>1
  <2>4. Cardinality(s \ {Max(s)}) <= k - 1 /\ k # 0
    BY <2>1, <2>2
  <2> QED BY <2>3, <2>4 DEF Upto
<1>8. \A k \in Nat : \A s \in Upto(n, k + 1) : s \in Upto(n, k) \/ Cardinality(s) = k + 1
  BY <1>2 DEF Upto
<1>9. \A k \in Nat : \A s \in Upto(n, k) : s \in Upto(n, k + 1) /\ Cardinality(s) # k + 1
  BY <1>2 DEF Upto
<1> QED BY <1>5, <1>6, <1>7, <1>8, <1>9

LEMMA BumpExists ==
    ASSUME NEW e, NEW n \in Nat
    PROVE  \E g : IsBump(e, g, SUBSET (1 .. n))
<1> DEFINE P(k) == \E g : IsBump(e, g, Upto(n, k))
           Bad  == {k \in Nat : ~ P(k)}
<1>1. P(0)
  <2> DEFINE g == [s \in Upto(n, 0) |-> e]
  <2>1. IsBump(e, g, Upto(n, 0))
    BY UptoFacts DEF IsBump, BumpStep
  <2> QED BY <2>1
<1>2. ASSUME NEW k \in Nat, P(k) PROVE P(k + 1)
  <2>1. PICK h : IsBump(e, h, Upto(n, k))
    BY <1>2
  <2> DEFINE g == [s \in Upto(n, k + 1) |-> IF Cardinality(s) = k + 1 THEN BumpStep(e, h, s) ELSE h[s]]
  <2>2. \A s \in Upto(n, k) : s \in Upto(n, k + 1) /\ g[s] = h[s]
    BY UptoFacts
  <2>3. ASSUME NEW s \in Upto(n, k + 1) PROVE g[s] = BumpStep(e, g, s)
    <3>1. s = {} \/ s \ {Max(s)} \in Upto(n, k)
      <4>1. k + 1 \in Nat /\ k + 1 - 1 = k
        OBVIOUS
      <4>2. \A j \in Nat : \A r \in Upto(n, j) : r = {} \/ (j # 0 /\ r \ {Max(r)} \in Upto(n, j - 1))
        BY UptoFacts
      <4>3. s = {} \/ s \ {Max(s)} \in Upto(n, k + 1 - 1)
        BY <4>1, <4>2
      <4> QED BY <4>1, <4>3
    <3>2. BumpStep(e, g, s) = BumpStep(e, h, s)
      BY <2>2, <3>1 DEF BumpStep
    <3>3. s \in Upto(n, k) => h[s] = BumpStep(e, h, s)
      BY <2>1 DEF IsBump
    <3> QED BY <3>2, <3>3, UptoFacts
  <2>4. IsBump(e, g, Upto(n, k + 1))
    BY <2>3 DEF IsBump
  <2> QED BY <2>4
<1> HIDE DEF P
<1>3. \A k \in Nat : P(k)
  <2> SUFFICES ASSUME Bad # {} PROVE FALSE
    OBVIOUS
  <2>1. PICK k \in Bad : \A m \in Bad : k <= m
    BY LeastNat
  <2>2. k # 0 /\ k - 1 \in Nat /\ k - 1 \notin Bad /\ k = (k - 1) + 1
    BY <1>1, <2>1
  <2> QED BY <1>2, <2>1, <2>2
<1>4. P(n)
  BY <1>3
<1>5. \E g : IsBump(e, g, Upto(n, n))
  BY <1>4 DEF P
<1>6. Upto(n, n) = SUBSET (1 .. n)
  BY UptoFacts
<1> QED BY <1>5, <1>6

LEMMA BumpFolds ==
    ASSUME NEW e, NEW n \in Nat
    PROVE  \E g : IsBump(e, g, SUBSET (1 .. n)) /\ Bump(e, n) = g[1 .. n]
<1> DEFINE G == CHOOSE g : g = [s \in SUBSET (1 .. n) |-> BumpStep(e, g, s)]
<1>1. G = [s \in SUBSET (1 .. n) |-> BumpStep(e, G, s)]
  <2>1. \E g : g = [s \in SUBSET (1 .. n) |-> BumpStep(e, g, s)]
    BY BumpExists DEF IsBump
  <2> QED BY <2>1
<1>2. Bump(e, n) = G[1 .. n]
  <2>1. DOMAIN [i \in 1 .. n |-> i] = 1 .. n
    OBVIOUS
  <2> QED BY <2>1 DEF Bump, FoldLeft, MapThenFoldSet, BumpStep, BumpOne
<1> QED BY <1>1, <1>2 DEF IsBump

\* The queues of engine e, replaced.
Requeued(e, r, y) == [e EXCEPT !.reorder = r, !.ready = y]

\* b is e with k frames moved from reorder to ready.
Moved(F, e, k, b) ==
    /\ b = Requeued(e, b.reorder, b.ready)
    /\ b.reorder \in Seq(F) /\ Len(b.reorder) = Len(e.reorder) - k
    /\ b.ready \in Seq(F) /\ Len(b.ready) = Len(e.ready) + k

Queues(F, e) ==
    /\ e = Requeued(e, e.reorder, e.ready) /\ {"reorder", "ready"} \subseteq DOMAIN e
    /\ e.reorder \in Seq(F) /\ e.ready \in Seq(F)

LEMMA MovedOne ==
    ASSUME NEW F, Timed(F), NEW e, Queues(F, e), NEW k \in Nat, k < Len(e.reorder),
           NEW b, Moved(F, e, k, b)
    PROVE  Moved(F, e, k + 1, BumpOne(b))
<1>1. Len(e.reorder) \in Nat /\ Len(e.ready) \in Nat
  BY DEF Queues
<1>2. b.reorder \in Seq(F) /\ b.reorder # <<>> /\ Len(b.reorder) = Len(e.reorder) - k
      /\ b.ready \in Seq(F) /\ Len(b.ready) = Len(e.ready) + k
  BY <1>1 DEF Moved
<1>3. PICK i : i = Lowest(b.reorder)
  OBVIOUS
<1>4. i \in 1 .. Len(b.reorder)
  BY <1>2, <1>3, LowestIn
<1>5. PICK r : r = RemoveAt(b.reorder, i)
  OBVIOUS
<1>6. r \in Seq(F) /\ Len(r) = Len(e.reorder) - (k + 1)
  BY <1>1, <1>2, <1>4, <1>5, RemoveFacts
<1>7. PICK y : y = Append(b.ready, b.reorder[i])
  OBVIOUS
<1>8. y \in Seq(F) /\ Len(y) = Len(e.ready) + (k + 1)
  <2>1. b.reorder[i] \in F
    BY <1>2, <1>4
  <2>2. \A u \in Seq(F), f \in F : Append(u, f) \in Seq(F) /\ Len(Append(u, f)) = Len(u) + 1
    OBVIOUS
  <2>3. y \in Seq(F) /\ Len(y) = Len(b.ready) + 1
    BY ONLY <1>2, <1>7, <2>1, <2>2, Zenon
  <2>4. PICK p \in Nat : p = Len(e.ready)
    BY <1>1
  <2>5. Len(b.ready) = p + k
    BY <1>2, <2>4
  <2>6. Len(y) = (p + k) + 1
    BY <2>3, <2>5
  <2>7. (p + k) + 1 = p + (k + 1)
    OBVIOUS
  <2> QED BY <2>3, <2>4, <2>6, <2>7, Zenon
<1>9. PICK c : c = BumpOne(b)
  OBVIOUS
<1>10. c = Requeued(e, r, y) /\ c.reorder = r /\ c.ready = y
  BY <1>3, <1>5, <1>7, <1>9 DEF BumpOne, Moved, Requeued, Queues
<1> QED BY <1>6, <1>8, <1>9, <1>10 DEF Moved

\* Bump moves n frames from one queue to the other and changes nothing else.
LEMMA BumpFacts ==
    ASSUME NEW F, Timed(F), NEW e, Queues(F, e), NEW n \in Nat, n <= Len(e.reorder)
    PROVE  Moved(F, e, n, Bump(e, n))
<1>1. PICK g : IsBump(e, g, SUBSET (1 .. n)) /\ Bump(e, n) = g[1 .. n]
  BY BumpFolds
<1> DEFINE Bad == {k \in 0 .. n : ~ Moved(F, e, k, g[1 .. k])}
<1>2. \A s \in SUBSET (1 .. n) : g[s] = BumpStep(e, g, s)
  BY <1>1 DEF IsBump
<1>3. SUFFICES ASSUME Bad # {} PROVE FALSE
  BY <1>1
<1>4. PICK k \in Bad : \A m \in Bad : k <= m
  <2>1. Bad \in SUBSET Nat
    OBVIOUS
  <2> QED BY <1>3, <2>1, LeastNat
<1>5. k # 0
  <2>1. 1 .. 0 = {} /\ {} \in SUBSET (1 .. n)
    OBVIOUS
  <2>2. g[1 .. 0] = e
    BY <1>2, <2>1 DEF BumpStep
  <2>3. Moved(F, e, 0, e)
    BY DEF Moved, Queues
  <2> QED BY <1>4, <2>2, <2>3
<1>6. k - 1 \in 0 .. n /\ Moved(F, e, k - 1, g[1 .. k - 1])
  BY <1>4, <1>5
<1>7. g[1 .. k] = BumpOne(g[1 .. k - 1])
  <2>1. k \in Nat \ {0} /\ 1 .. k \in SUBSET (1 .. n) /\ 1 .. k # {}
    BY <1>4, <1>5
  <2>2. Max(1 .. k) = k /\ (1 .. k) \ {k} = 1 .. k - 1
    BY <2>1, MaxUpto
  <2> QED BY <1>2, <2>1, <2>2 DEF BumpStep
<1>8. k - 1 \in Nat /\ k - 1 < Len(e.reorder) /\ k - 1 + 1 = k
  BY <1>4, <1>5 DEF Queues
<1>9. Moved(F, e, k - 1 + 1, BumpOne(g[1 .. k - 1]))
  BY <1>6, <1>8, MovedOne
<1> QED BY <1>4, <1>7, <1>8, <1>9

-----------------------------------------------------------------------------
\* The VP9 engine.

\* Every slot with a picture has the one the stream last stored there.
Current(e) == \A r \in Vp9Refs : e.slots[r].pool # 0 => r \in e.fresh

\* What the last kick read was right, and what the next one may read is.
Vp9Safe(e) ==
    /\ e \in Vp9EngineType
    /\ e.gap \/ (e.refOk /\ (e.wait \/ Current(e)))
    /\ e.ctxOk /\ e.valid \cap e.dirty = {}

\* What DecodeOne leaves: the buffer of the frame it returns is the only one in use.
Vp9Left(d) ==
    /\ Vp9Safe(d.e) /\ d.rc \in Nat
    /\ d.e.inUse \subseteq {d.o.pool} /\ (d.rc # 0 => d.e.inUse = {})
    /\ d.o.dim \in Nat /\ d.o.depth \in {8, 10}

LEMMA Vp9MissedSafe ==
    ASSUME NEW e, Vp9Safe(e), NEW f \in Vp9StreamFrame
    PROVE  /\ Missed(e, f) \in Vp9EngineType
           /\ Missed(e, f) = [e EXCEPT !.fresh = e.fresh \ f.mask]
BY DEF Missed, Vp9Safe, Vp9EngineType, Vp9StreamFrame

LEMMA Vp9PoolFree ==
    ASSUME NEW e, Vp9Safe(e), FreePoolSlot(e) # 0
    PROVE  /\ FreePoolSlot(e) \in Vp9Pool
           /\ \A r \in Vp9Refs : e.slots[r].pool # FreePoolSlot(e)
<1>1. FreePoolSlots(e) # {} /\ FreePoolSlots(e) \in SUBSET Nat
  BY Vp9Assumption DEF FreePoolSlot, FreePoolSlots
<1>2. FreePoolSlot(e) \in FreePoolSlots(e)
  BY <1>1, MinIn DEF FreePoolSlot
<1> QED BY <1>2 DEF FreePoolSlots

LEMMA Vp9FrameDepth ==
    ASSUME NEW e \in Vp9EngineType, NEW f \in Vp9StreamFrame
    PROVE  FrameDepth(e, f) \in {8, 10}
BY DEF FrameDepth, Vp9EngineType, Vp9StreamFrame

LEMMA Vp9Shows ==
    ASSUME NEW e, Vp9Safe(e), e.inUse = {}, NEW f \in Vp9StreamFrame
    PROVE  Vp9Left(ShowExisting(e, f))
<1>1. e.slots[f.ref] \in [pool : Vp9Pool \cup {0}, dim : Nat, depth : {8, 10}] /\ f.ref \in Vp9Refs
  BY DEF Vp9Safe, Vp9EngineType, Vp9StreamFrame
<1>2. CASE e.slots[f.ref].pool = 0
  BY <1>2 DEF ShowExisting, Outcome, NotShown, Vp9Left
<1>3. CASE e.slots[f.ref].pool # 0
  <2>1. PICK p \in Vp9Pool : p = e.slots[f.ref].pool
    BY <1>1, <1>3
  <2>2. PICK x : x = [e EXCEPT !.inUse = {p}, !.armedShow = e.wait]
    OBVIOUS
  <2>3. x \in Vp9EngineType /\ x.inUse = {p} /\ x.gap = e.gap /\ x.refOk = e.refOk /\ x.wait = e.wait
        /\ x.slots = e.slots /\ x.fresh = e.fresh /\ x.ctxOk = e.ctxOk /\ x.valid = e.valid /\ x.dirty = e.dirty
    BY <2>2 DEF Vp9Safe, Vp9EngineType
  <2>4. Vp9Safe(x)
    BY <2>3 DEF Vp9Safe, Current
  <2>5. ShowExisting(e, f) = Outcome(x, 0, [show |-> TRUE, pool |-> p, dim |-> e.slots[f.ref].dim,
                                            depth |-> e.slots[f.ref].depth])
    BY <1>3, <2>1, <2>2 DEF ShowExisting
  <2> QED BY <1>1, <2>3, <2>4, <2>5 DEF Vp9Left, Outcome
<1> QED BY <1>2, <1>3

\* A kick that is not held back by the firebreak reads what it should.
LEMMA Vp9KickReads ==
    ASSUME NEW e, Vp9Safe(e), NEW f \in Vp9StreamFrame, ~ (e.wait /\ ~IsRefresh(f))
    PROVE  /\ e.gap \/ ReadsFresh(e, f)
           /\ f.k # "inter" => ReadsFresh(e, f)
           /\ LoadsContext(e, f) => f.ctx \notin e.dirty
           /\ f.ref \in Vp9Refs /\ f.ctx \in Vp9Ctxs /\ f.mask \in SUBSET Vp9Refs
BY DEF Vp9Safe, Current, IsRefresh, ReadsFresh, LoadsContext, Vp9StreamFrame

LEMMA Vp9KickFailedSafe ==
    ASSUME NEW e, Vp9Safe(e), e.inUse = {}, NEW f \in Vp9StreamFrame, ~ (e.wait /\ ~IsRefresh(f))
    PROVE  Vp9Safe(KickFailed(e, f)) /\ KickFailed(e, f).inUse = {}
<1>1. PICK x : x = KickFailed(e, f)
  OBVIOUS
<1>2. e \in Vp9EngineType
  BY DEF Vp9Safe
<1>3. /\ x = [e EXCEPT !.refOk = ReadsFresh(e, f), !.ctxOk = (LoadsContext(e, f) => f.ctx \notin e.dirty),
                       !.fresh = e.fresh \ f.mask, !.wait = TRUE,
                       !.valid = IF f.save THEN e.valid \ {f.ctx} ELSE e.valid,
                       !.dirty = IF f.save THEN e.dirty \cup {f.ctx} ELSE e.dirty]
  BY <1>1, <1>2 DEF KickFailed, Missed, Kicked, Vp9EngineType
<1>4. /\ x.refOk = ReadsFresh(e, f) /\ x.ctxOk = (LoadsContext(e, f) => f.ctx \notin e.dirty)
      /\ x.wait = TRUE /\ x.gap = e.gap /\ x.inUse = e.inUse
      /\ x.valid = (IF f.save THEN e.valid \ {f.ctx} ELSE e.valid)
      /\ x.dirty = (IF f.save THEN e.dirty \cup {f.ctx} ELSE e.dirty)
  BY <1>2, <1>3 DEF Vp9EngineType
<1>5. ReadsFresh(e, f) \in BOOLEAN /\ (LoadsContext(e, f) => f.ctx \notin e.dirty) \in BOOLEAN
  BY DEF ReadsFresh, LoadsContext
<1>6. x \in Vp9EngineType
  <2>1. PICK b \in BOOLEAN, c \in BOOLEAN : b = ReadsFresh(e, f) /\ c = (LoadsContext(e, f) => f.ctx \notin e.dirty)
    BY <1>5
  <2>2. PICK v \in SUBSET Vp9Ctxs, w \in SUBSET Vp9Ctxs, u \in SUBSET Vp9Refs :
          /\ v = (IF f.save THEN e.valid \ {f.ctx} ELSE e.valid)
          /\ w = (IF f.save THEN e.dirty \cup {f.ctx} ELSE e.dirty)
          /\ u = e.fresh \ f.mask
    BY <1>2, Vp9KickReads DEF Vp9EngineType
  <2>3. x = [e EXCEPT !.refOk = b, !.ctxOk = c, !.fresh = u, !.wait = TRUE, !.valid = v, !.dirty = w]
    BY <1>3, <2>1, <2>2
  <2> QED BY <1>2, <2>3 DEF Vp9EngineType
<1>7. x.valid \cap x.dirty = {}
  BY <1>4 DEF Vp9Safe
<1>8. x.gap \/ x.refOk
  BY <1>4, Vp9KickReads
<1>9. x.ctxOk
  BY <1>4, Vp9KickReads
<1> QED BY <1>1, <1>4, <1>6, <1>7, <1>8, <1>9 DEF Vp9Safe

LEMMA Vp9KickDoneSafe ==
    ASSUME NEW e, Vp9Safe(e), e.inUse = {}, NEW f \in Vp9StreamFrame, ~ (e.wait /\ ~IsRefresh(f)),
           f.k # "show", NEW p \in Vp9Pool, \A r \in Vp9Refs : e.slots[r].pool # p
    PROVE  Vp9Safe(KickDone(e, f, p)) /\ KickDone(e, f, p).inUse = {p}
<1>1. PICK x : x = KickDone(e, f, p)
  OBVIOUS
<1>2. e \in Vp9EngineType /\ f.mask \in SUBSET Vp9Refs /\ f.ctx \in Vp9Ctxs /\ f.dim \in Nat
  BY DEF Vp9Safe, Vp9StreamFrame
<1>3. PICK b \in BOOLEAN, c \in BOOLEAN : b = ReadsFresh(e, f) /\ c = (LoadsContext(e, f) => f.ctx \notin e.dirty)
  BY DEF ReadsFresh, LoadsContext
<1>4. PICK v \in SUBSET Vp9Ctxs, w \in SUBSET Vp9Ctxs, u \in SUBSET Vp9Refs :
        /\ v = (IF f.save THEN e.valid \cup {f.ctx} ELSE e.valid)
        /\ w = (IF f.save THEN e.dirty \ {f.ctx} ELSE e.dirty)
        /\ u = e.fresh \cup f.mask
  BY <1>2 DEF Vp9EngineType
<1>5. PICK q \in {8, 10} : q = FrameDepth(e, f)
  BY <1>2, Vp9FrameDepth
<1>6. PICK sl \in [Vp9Refs -> [pool : Vp9Pool \cup {0}, dim : Nat, depth : {8, 10}]] :
        sl = Vp9Dpb_Update(e, f, p)
  BY <1>2, <1>5 DEF Vp9Dpb_Update, Vp9EngineType
<1>7. PICK y \in BOOLEAN, z \in BOOLEAN :
        /\ y = (IF IsRefresh(f) THEN FALSE ELSE e.wait)
        /\ z = (IF f.k = "key" THEN FALSE ELSE e.gap \/ (f.k = "intra" /\ e.wait))
  BY <1>2 DEF Vp9EngineType
<1>8. {r \in e.fresh : e.slots[r].pool # p} = e.fresh
  BY <1>2 DEF Vp9EngineType
<1>9. x = [e EXCEPT !.refOk = b, !.ctxOk = c, !.wait = y, !.slots = sl, !.inUse = {p}, !.depth = q,
                    !.valid = v, !.dirty = w, !.fresh = u, !.gap = z]
  <2>1. PICK h : h = Kicked(e, f)
    OBVIOUS
  <2>2. h = [e EXCEPT !.refOk = b, !.ctxOk = c]
    BY <1>3, <2>1 DEF Kicked
  <2>3. h.wait = e.wait /\ h.inUse = {} /\ h.valid = e.valid /\ h.dirty = e.dirty /\ h.gap = e.gap
    BY <1>2, <2>2 DEF Vp9EngineType
  <2>4. x = [h EXCEPT !.wait = y, !.slots = sl, !.inUse = {p}, !.depth = q, !.valid = v, !.dirty = w,
                      !.fresh = u, !.gap = z]
    BY <1>1, <1>4, <1>5, <1>6, <1>7, <1>8, <2>1, <2>3 DEF KickDone
  <2> QED BY <1>2, <2>2, <2>4 DEF Vp9EngineType
<1>10. /\ x \in Vp9EngineType /\ x.refOk = b /\ x.ctxOk = c /\ x.wait = y /\ x.slots = sl /\ x.inUse = {p}
       /\ x.valid = v /\ x.dirty = w /\ x.fresh = u /\ x.gap = z
  BY <1>2, <1>9 DEF Vp9EngineType
<1>11. v \cap w = {} /\ c
  BY <1>3, <1>4, Vp9KickReads DEF Vp9Safe
<1>12. z \/ (b /\ (y \/ Current(x)))
  <2>1. CASE f.k = "key"
    <3>1. b
      BY <1>3, <2>1, Vp9KickReads
    <3>2. u = Vp9Refs
      BY <1>2, <1>4, <2>1 DEF Vp9StreamFrame, Vp9EngineType
    <3> QED BY <1>10, <3>1, <3>2 DEF Current
  <2>2. CASE f.k # "key" /\ ~z
    <3>1. ~e.gap /\ (f.k = "intra" => ~e.wait) /\ (f.k = "inter" => ~e.wait)
      BY <1>7, <2>2 DEF IsRefresh
    <3>2. f.k \in {"intra", "inter"}
      BY <2>2 DEF Vp9StreamFrame
    <3>3. b /\ Current(e)
      BY <1>3, <3>1, <3>2, Vp9KickReads DEF Vp9Safe
    <3>4. ASSUME NEW r \in Vp9Refs, r \notin f.mask PROVE sl[r] = e.slots[r]
      BY <1>6, <3>4 DEF Vp9Dpb_Update
    <3>5. Current(x)
      BY <1>4, <1>10, <3>3, <3>4 DEF Current
    <3> QED BY <3>3, <3>5
  <2> QED BY <2>1, <2>2
<1> QED BY <1>1, <1>10, <1>11, <1>12 DEF Vp9Safe

LEMMA Vp9DecodesSafe ==
    ASSUME NEW e0, Vp9Safe(e0), e0.inUse = {}, NEW f \in Vp9StreamFrame
    PROVE  Vp9Left(DecodeOne(e0, f))
<1>1. PICK e : e = [e0 EXCEPT !.armedShow = FALSE]
  OBVIOUS
<1>2. Vp9Safe(e) /\ e.inUse = {} /\ e \in Vp9EngineType /\ f.mask \in SUBSET Vp9Refs /\ f.dim \in Nat
  BY <1>1 DEF Vp9Safe, Vp9EngineType, Current, Vp9StreamFrame
<1>3. PICK p : p = FreePoolSlot(e)
  OBVIOUS
<1>4. PICK d : d = DecodeOne(e0, f)
  OBVIOUS
<1>5. NotShown.dim \in Nat /\ NotShown.depth \in {8, 10}
  BY DEF NotShown
<1>6. PICK u \in SUBSET Vp9Refs : u = e.fresh \ f.mask
  BY <1>2 DEF Vp9EngineType
<1>7. Missed(e, f) = [e EXCEPT !.fresh = u]
  BY <1>6 DEF Missed
<1>8. CASE f.res = "reject"
  <2>1. PICK z \in BOOLEAN : z = (e.gap \/ f.mask # {})
    BY <1>2 DEF Vp9EngineType
  <2>2. PICK x : x = [e EXCEPT !.fresh = u, !.gap = z]
    OBVIOUS
  <2>3. d = Outcome(x, 1, NotShown)
    BY <1>1, <1>2, <1>4, <1>7, <1>8, <2>1, <2>2 DEF DecodeOne, Vp9EngineType
  <2>4. /\ x \in Vp9EngineType /\ x.gap = z /\ x.refOk = e.refOk /\ x.wait = e.wait /\ x.slots = e.slots
        /\ x.fresh = u /\ x.ctxOk = e.ctxOk /\ x.valid = e.valid /\ x.dirty = e.dirty /\ x.inUse = {}
    BY <1>2, <2>2 DEF Vp9EngineType
  <2>5. Vp9Safe(x)
    BY <1>2, <1>6, <2>1, <2>4 DEF Vp9Safe, Current
  <2> QED BY <1>4, <1>5, <2>3, <2>4, <2>5 DEF Vp9Left, Outcome
<1>9. CASE f.res # "reject" /\ e.wait /\ ~IsRefresh(f)
  <2>1. PICK x : x = [e EXCEPT !.fresh = u]
    OBVIOUS
  <2>2. d = Outcome(x, 0, NotShown)
    BY <1>1, <1>4, <1>7, <1>9, <2>1 DEF DecodeOne
  <2>3. /\ x \in Vp9EngineType /\ x.gap = e.gap /\ x.refOk = e.refOk /\ x.wait = e.wait
        /\ x.ctxOk = e.ctxOk /\ x.valid = e.valid /\ x.dirty = e.dirty /\ x.inUse = {}
    BY <1>2, <2>1 DEF Vp9EngineType
  <2>4. Vp9Safe(x)
    BY <1>2, <1>9, <2>3 DEF Vp9Safe
  <2> QED BY <1>4, <1>5, <2>2, <2>3, <2>4 DEF Vp9Left, Outcome
<1>10. CASE f.res # "reject" /\ ~ (e.wait /\ ~IsRefresh(f)) /\ f.k = "show"
  <2>1. d = ShowExisting(e, f)
    BY <1>1, <1>4, <1>10 DEF DecodeOne
  <2> QED BY <1>2, <1>4, <2>1, Vp9Shows
<1>11. CASE f.res # "reject" /\ ~ (e.wait /\ ~IsRefresh(f)) /\ f.k # "show"
  <2>1. CASE p = 0 \/ f.res = "long"
    <3>1. PICK x : x = [e EXCEPT !.fresh = u, !.gap = TRUE]
      OBVIOUS
    <3>2. d = Outcome(x, IF p = 0 THEN 2 ELSE 1, NotShown)
      BY <1>1, <1>2, <1>3, <1>4, <1>7, <1>11, <2>1, <3>1 DEF DecodeOne, Vp9EngineType
    <3>3. /\ x \in Vp9EngineType /\ x.gap = TRUE
          /\ x.ctxOk = e.ctxOk /\ x.valid = e.valid /\ x.dirty = e.dirty /\ x.inUse = {}
      BY <1>2, <3>1 DEF Vp9EngineType
    <3>4. Vp9Safe(x)
      BY <1>2, <3>3 DEF Vp9Safe
    <3> QED BY <1>4, <1>5, <3>2, <3>3, <3>4 DEF Vp9Left, Outcome
  <2>2. CASE p # 0 /\ f.res = "build"
    <3>1. PICK x : x = [e EXCEPT !.fresh = u, !.wait = TRUE]
      OBVIOUS
    <3>2. d = Outcome(x, 3, NotShown)
      BY <1>1, <1>2, <1>3, <1>4, <1>7, <1>11, <2>2, <3>1 DEF DecodeOne, Vp9EngineType
    <3>3. /\ x \in Vp9EngineType /\ x.wait = TRUE /\ x.gap = e.gap /\ x.refOk = e.refOk
          /\ x.ctxOk = e.ctxOk /\ x.valid = e.valid /\ x.dirty = e.dirty /\ x.inUse = {}
      BY <1>2, <3>1 DEF Vp9EngineType
    <3>4. Vp9Safe(x)
      BY <1>2, <3>3 DEF Vp9Safe
    <3> QED BY <1>4, <1>5, <3>2, <3>3, <3>4 DEF Vp9Left, Outcome
  <2>3. CASE p # 0 /\ f.res = "fail"
    <3>1. d = Outcome(KickFailed(e, f), 3, NotShown)
      BY <1>1, <1>3, <1>4, <1>11, <2>3 DEF DecodeOne
    <3>2. Vp9Safe(KickFailed(e, f)) /\ KickFailed(e, f).inUse = {}
      BY <1>2, <1>11, Vp9KickFailedSafe
    <3> QED BY <1>4, <1>5, <3>1, <3>2 DEF Vp9Left, Outcome
  <2>4. CASE p # 0 /\ f.res \notin {"long", "build", "fail"}
    <3>1. d = Outcome(KickDone(e, f, p), 0,
                      [show |-> f.shown, pool |-> p, dim |-> f.dim, depth |-> FrameDepth(e, f)])
      BY <1>1, <1>3, <1>4, <1>11, <2>4 DEF DecodeOne
    <3>2. p \in Vp9Pool /\ \A r \in Vp9Refs : e.slots[r].pool # p
      BY <1>2, <1>3, <2>4, Vp9PoolFree
    <3>3. Vp9Safe(KickDone(e, f, p)) /\ KickDone(e, f, p).inUse = {p}
      BY <1>2, <1>11, <3>2, Vp9KickDoneSafe
    <3>4. FrameDepth(e, f) \in {8, 10}
      BY <1>2, Vp9FrameDepth
    <3> QED BY <1>2, <1>4, <3>1, <3>3, <3>4 DEF Vp9Left, Outcome
  <2> QED BY <2>1, <2>2, <2>3, <2>4
<1> QED BY <1>8, <1>9, <1>10, <1>11


\* Vp9DecodeFrames is the fold of one frame over the superframe.
Vp9FoldOne(tu, pts, x, i) ==
    LET d == DecodeOne(x.eng, tu[i])
    IN IF d.rc # 0 THEN [x EXCEPT !.eng = d.e]
       ELSE [eng   |-> Vp9ReleaseFrame(d.e, d.o),
             depth |-> IF d.o.depth = 10 THEN 10 ELSE x.depth,
             outq  |-> IF ~d.o.show THEN x.outq
                       ELSE Append(x.outq, [pts |-> pts, dim |-> d.o.dim,
                                            depth |-> d.o.depth, born |-> count.flushes])]

Vp9FoldStep(x0, tu, pts, g, s) == IF s = {} THEN x0 ELSE Vp9FoldOne(tu, pts, g[s \ {Max(s)}], Max(s))
IsVp9Fold(x0, tu, pts, g, D) == g = [s \in D |-> Vp9FoldStep(x0, tu, pts, g, s)]

LEMMA Vp9FoldExists ==
    ASSUME NEW x0, NEW tu, NEW pts, NEW n \in Nat
    PROVE  \E g : IsVp9Fold(x0, tu, pts, g, SUBSET (1 .. n))
<1> DEFINE P(k) == \E g : IsVp9Fold(x0, tu, pts, g, Upto(n, k))
           Bad  == {k \in Nat : ~ P(k)}
<1>1. P(0)
  <2> DEFINE g == [s \in Upto(n, 0) |-> x0]
  <2>1. IsVp9Fold(x0, tu, pts, g, Upto(n, 0))
    BY UptoFacts DEF IsVp9Fold, Vp9FoldStep
  <2> QED BY <2>1
<1>2. ASSUME NEW k \in Nat, P(k) PROVE P(k + 1)
  <2>1. PICK h : IsVp9Fold(x0, tu, pts, h, Upto(n, k))
    BY <1>2
  <2> DEFINE g == [s \in Upto(n, k + 1) |->
                      IF Cardinality(s) = k + 1 THEN Vp9FoldStep(x0, tu, pts, h, s) ELSE h[s]]
  <2>2. \A s \in Upto(n, k) : s \in Upto(n, k + 1) /\ g[s] = h[s]
    BY UptoFacts
  <2>3. ASSUME NEW s \in Upto(n, k + 1) PROVE g[s] = Vp9FoldStep(x0, tu, pts, g, s)
    <3>1. s = {} \/ s \ {Max(s)} \in Upto(n, k)
      <4>1. k + 1 \in Nat /\ k + 1 - 1 = k
        OBVIOUS
      <4>2. \A j \in Nat : \A r \in Upto(n, j) : r = {} \/ (j # 0 /\ r \ {Max(r)} \in Upto(n, j - 1))
        BY UptoFacts
      <4>3. s = {} \/ s \ {Max(s)} \in Upto(n, k + 1 - 1)
        BY <4>1, <4>2
      <4> QED BY <4>1, <4>3
    <3>2. Vp9FoldStep(x0, tu, pts, g, s) = Vp9FoldStep(x0, tu, pts, h, s)
      BY <2>2, <3>1 DEF Vp9FoldStep
    <3>3. s \in Upto(n, k) => h[s] = Vp9FoldStep(x0, tu, pts, h, s)
      BY <2>1 DEF IsVp9Fold
    <3> QED BY <3>2, <3>3, UptoFacts
  <2>4. IsVp9Fold(x0, tu, pts, g, Upto(n, k + 1))
    BY <2>3 DEF IsVp9Fold
  <2> QED BY <2>4
<1> HIDE DEF P
<1>3. \A k \in Nat : P(k)
  <2> SUFFICES ASSUME Bad # {} PROVE FALSE
    OBVIOUS
  <2>1. PICK k \in Bad : \A m \in Bad : k <= m
    BY LeastNat
  <2>2. k # 0 /\ k - 1 \in Nat /\ k - 1 \notin Bad /\ k = (k - 1) + 1
    BY <1>1, <2>1
  <2> QED BY <1>2, <2>1, <2>2
<1>4. P(n)
  BY <1>3
<1>5. \E g : IsVp9Fold(x0, tu, pts, g, Upto(n, n))
  BY <1>4 DEF P
<1>6. Upto(n, n) = SUBSET (1 .. n)
  BY UptoFacts
<1> QED BY <1>5, <1>6

Vp9FoldBase(tu) == [eng |-> eng, outq |-> outq, depth |-> IF tu[1].depth = 10 THEN 10 ELSE depth]

LEMMA Vp9Folds ==
    ASSUME NEW T, NEW tu \in Seq(T), NEW pts
    PROVE  \E g : /\ IsVp9Fold(Vp9FoldBase(tu), tu, pts, g, SUBSET (1 .. Len(tu)))
                  /\ Vp9DecodeFrames(tu, pts) = g[1 .. Len(tu)]
<1>1. Len(tu) \in Nat /\ DOMAIN tu = 1 .. Len(tu)
  OBVIOUS
<1>2. PICK n \in Nat : n = Len(tu)
  BY <1>1
<1>3. PICK x0 : x0 = Vp9FoldBase(tu)
  OBVIOUS
<1> DEFINE G == CHOOSE g : g = [s \in SUBSET (DOMAIN tu) |-> Vp9FoldStep(x0, tu, pts, g, s)]
<1>4. G = [s \in SUBSET (DOMAIN tu) |-> Vp9FoldStep(x0, tu, pts, G, s)]
  <2>1. \E g : g = [s \in SUBSET (1 .. n) |-> Vp9FoldStep(x0, tu, pts, g, s)]
    <3>1. \E g : IsVp9Fold(x0, tu, pts, g, SUBSET (1 .. n))
      BY Vp9FoldExists
    <3> QED BY <3>1 DEF IsVp9Fold
  <2>2. \E g : g = [s \in SUBSET (DOMAIN tu) |-> Vp9FoldStep(x0, tu, pts, g, s)]
    BY <1>1, <1>2, <2>1
  <2> QED BY <2>2
<1>5. Vp9DecodeFrames(tu, pts) = G[DOMAIN tu]
  BY <1>3 DEF Vp9DecodeFrames, FoldLeft, MapThenFoldSet, Vp9FoldStep, Vp9FoldOne, Vp9FoldBase
<1> QED BY <1>1, <1>3, <1>4, <1>5 DEF IsVp9Fold

\* What Vp9ProcessInput has in hand between two frames.
Vp9InHand(F, x) ==
    /\ x = [eng |-> x.eng, outq |-> x.outq, depth |-> x.depth]
    /\ Vp9Safe(x.eng) /\ x.eng.inUse = {} /\ x.outq \in Seq(F) /\ x.depth \in {8, 10}

FreshOut == {f \in Vp9Frame : f.born = count.flushes}

LEMMA Vp9FoldOneSafe ==
    ASSUME count.flushes \in Nat, NEW pts \in Ptss[kind], NEW tu \in Seq(Vp9StreamFrame),
           NEW i \in 1 .. Len(tu), NEW x, Vp9InHand(FreshOut, x)
    PROVE  Vp9InHand(FreshOut, Vp9FoldOne(tu, pts, x, i))
<1>1. tu[i] \in Vp9StreamFrame
  OBVIOUS
<1>2. PICK d : d = DecodeOne(x.eng, tu[i])
  OBVIOUS
<1>3. Vp9Left(d)
  BY <1>1, <1>2, Vp9DecodesSafe DEF Vp9InHand
<1>4. PICK y : y = Vp9FoldOne(tu, pts, x, i)
  OBVIOUS
<1>5. CASE d.rc # 0
  <2>1. y = [eng |-> d.e, outq |-> x.outq, depth |-> x.depth]
    BY <1>2, <1>4, <1>5 DEF Vp9FoldOne, Vp9InHand
  <2> QED BY <1>3, <1>4, <1>5, <2>1 DEF Vp9InHand, Vp9Left
<1>6. CASE d.rc = 0
  <2>1. PICK e : e = Vp9ReleaseFrame(d.e, d.o)
    OBVIOUS
  <2>2. e = [d.e EXCEPT !.inUse = {}]
    BY <1>3, <2>1 DEF Vp9ReleaseFrame, Vp9Left
  <2>3. /\ e \in Vp9EngineType /\ e.inUse = {} /\ e.gap = d.e.gap /\ e.refOk = d.e.refOk /\ e.wait = d.e.wait
        /\ e.slots = d.e.slots /\ e.fresh = d.e.fresh /\ e.ctxOk = d.e.ctxOk /\ e.valid = d.e.valid
        /\ e.dirty = d.e.dirty
    BY <1>3, <2>2 DEF Vp9Left, Vp9Safe, Vp9EngineType
  <2>4. Vp9Safe(e)
    BY <1>3, <2>3 DEF Vp9Left, Vp9Safe, Current
  <2>5. PICK f : f = [pts |-> pts, dim |-> d.o.dim, depth |-> d.o.depth, born |-> count.flushes]
    OBVIOUS
  <2>6. f \in FreshOut
    BY <1>3, <2>5 DEF FreshOut, Vp9Frame, Vp9Left, Depths
  <2>7. PICK q : q = IF ~d.o.show THEN x.outq ELSE Append(x.outq, f)
    OBVIOUS
  <2>8. q \in Seq(FreshOut)
    BY <2>6, <2>7 DEF Vp9InHand
  <2>9. y = [eng |-> e, outq |-> q, depth |-> IF d.o.depth = 10 THEN 10 ELSE x.depth]
    BY <1>2, <1>4, <1>6, <2>1, <2>5, <2>7 DEF Vp9FoldOne
  <2> QED BY <1>4, <2>3, <2>4, <2>8, <2>9 DEF Vp9InHand
<1> QED BY <1>3, <1>5, <1>6 DEF Vp9Left

LEMMA Vp9DecodesAll ==
    ASSUME count.flushes \in Nat, NEW pts \in Ptss[kind], NEW tu \in Seq(Vp9StreamFrame),
           Vp9InHand(FreshOut, Vp9FoldBase(tu))
    PROVE  Vp9InHand(FreshOut, Vp9DecodeFrames(tu, pts))
<1>1. PICK x0 : x0 = Vp9FoldBase(tu)
  OBVIOUS
<1>2. PICK n \in Nat : n = Len(tu)
  OBVIOUS
<1>3. PICK g : IsVp9Fold(x0, tu, pts, g, SUBSET (1 .. n)) /\ Vp9DecodeFrames(tu, pts) = g[1 .. n]
  BY <1>1, <1>2, Vp9Folds
<1> DEFINE Bad == {k \in 0 .. n : ~ Vp9InHand(FreshOut, g[1 .. k])}
<1>4. \A s \in SUBSET (1 .. n) : g[s] = Vp9FoldStep(x0, tu, pts, g, s)
  BY <1>3 DEF IsVp9Fold
<1>5. SUFFICES ASSUME Bad # {} PROVE FALSE
  BY <1>3
<1>6. PICK k \in Bad : \A m \in Bad : k <= m
  <2>1. Bad \in SUBSET Nat
    OBVIOUS
  <2> QED BY <1>5, <2>1, LeastNat
<1>7. k # 0
  <2>1. 1 .. 0 = {} /\ {} \in SUBSET (1 .. n)
    OBVIOUS
  <2>2. g[1 .. 0] = x0
    BY <1>4, <2>1 DEF Vp9FoldStep
  <2> QED BY <1>1, <1>6, <2>2
<1>8. k - 1 \in 0 .. n /\ Vp9InHand(FreshOut, g[1 .. k - 1])
  BY <1>6, <1>7
<1>9. g[1 .. k] = Vp9FoldOne(tu, pts, g[1 .. k - 1], k)
  <2>1. k \in Nat \ {0} /\ 1 .. k \in SUBSET (1 .. n) /\ 1 .. k # {}
    BY <1>6, <1>7
  <2>2. Max(1 .. k) = k /\ (1 .. k) \ {k} = 1 .. k - 1
    BY <2>1, MaxUpto
  <2> QED BY <1>4, <2>1, <2>2 DEF Vp9FoldStep
<1>10. k \in 1 .. Len(tu)
  BY <1>2, <1>6, <1>7
<1>11. Vp9InHand(FreshOut, g[1 .. k])
  BY <1>8, <1>9, <1>10, Vp9FoldOneSafe
<1> QED BY <1>6, <1>11

-----------------------------------------------------------------------------
\* The AV1 engine.

LEMMA ModWrap ==
    ASSUME NEW n \in Nat \ {0}, NEW a \in 0 .. n - 1, NEW i \in 0 .. n - 1
    PROVE  (a + i) % n = (IF a + i < n THEN a + i ELSE a + i - n)
OBVIOUS

\* There are more pool buffers than reference slots: AllocSlot always finds a free one.
LEMMA AllocFree ==
    ASSUME NEW e, e.toPool \in [Av1Refs -> 0 .. Av1PoolSize], e.kicks \in 0 .. Av1PoolSize - 1
    PROVE  AllocSlot(e) \in 1 .. Av1PoolSize /\ \A r \in Av1Refs : e.toPool[r] # AllocSlot(e)
<1> DEFINE slot(i) == ((e.kicks + i) % Av1PoolSize) + 1
           free == {i \in 0 .. Av1PoolSize - 1 : \A r \in Av1Refs : e.toPool[r] # slot(i)}
<1>1. IsFiniteSet(Av1Refs) /\ Cardinality(Av1Refs) \in Nat /\ Av1PoolSize \in Nat
      /\ Cardinality(Av1Refs) < Av1PoolSize /\ Av1PoolSize # 0
  BY Av1OpsAssumption, FS_CardinalityType
<1>2. \A i \in 0 .. Av1PoolSize - 1 :
          slot(i) = (IF e.kicks + i < Av1PoolSize THEN e.kicks + i ELSE e.kicks + i - Av1PoolSize) + 1
  BY <1>1, ModWrap
<1>3. \A i \in 0 .. Av1PoolSize - 1 : slot(i) \in 1 .. Av1PoolSize
  BY <1>1, <1>2
<1>4. free # {}
  <2> SUFFICES ASSUME free = {} PROVE FALSE
    OBVIOUS
  <2> DEFINE T == {e.toPool[r] : r \in Av1Refs}
  <2>1. ASSUME NEW p \in 1 .. Av1PoolSize PROVE p \in T
    <3>1. PICK i \in 0 .. Av1PoolSize - 1 : p = slot(i)
      <4>1. CASE p - 1 >= e.kicks
        <5>1. p - 1 - e.kicks \in 0 .. Av1PoolSize - 1
          BY <1>1, <4>1
        <5>2. slot(p - 1 - e.kicks) = p
          BY <1>1, <1>2, <5>1
        <5> QED BY <5>1, <5>2
      <4>2. CASE p - 1 < e.kicks
        <5>1. p - 1 - e.kicks + Av1PoolSize \in 0 .. Av1PoolSize - 1
          BY <1>1, <4>2
        <5>2. slot(p - 1 - e.kicks + Av1PoolSize) = p
          BY <1>1, <1>2, <4>2, <5>1
        <5> QED BY <5>1, <5>2
      <4> QED BY <1>1, <4>1, <4>2
    <3>2. \E r \in Av1Refs : e.toPool[r] = slot(i)
      BY <3>1
    <3> QED BY <3>1, <3>2
  <2>2. e.toPool \in Surjection(Av1Refs, T)
    BY DEF Surjection
  <2>3. IsFiniteSet(T) /\ Cardinality(T) <= Cardinality(Av1Refs)
    BY <1>1, <2>2, FS_Surjection
  <2>4. 1 .. Av1PoolSize \subseteq T
    BY <2>1
  <2>5. Cardinality(1 .. Av1PoolSize) <= Cardinality(T)
    BY <2>3, <2>4, FS_Subset
  <2>6. Cardinality(1 .. Av1PoolSize) = Av1PoolSize
    <3>1. \A n \in Nat : Cardinality(1 .. n) = n
      BY FS_Interval
    <3> QED BY <1>1, <3>1
  <2>7. Cardinality(T) \in Nat
    BY <2>3, FS_CardinalityType
  <2> QED BY <1>1, <2>3, <2>5, <2>6, <2>7
<1>5. Min(free) \in free
  <2>1. free \in SUBSET Nat
    OBVIOUS
  <2> HIDE DEF free
  <2> QED BY <1>4, <2>1, MinIn
<1>6. AllocSlot(e) = slot(Min(free))
  BY <1>4 DEF AllocSlot
<1> QED BY <1>3, <1>5, <1>6

Av1StreamFrame ==
    [k : {"key", "inter", "show"}, ref : Av1Refs, prim : SUBSET Av1Refs,
     mask : SUBSET Av1Refs, dim : Nat, shown : BOOLEAN, res : {"parse", "fail", "ok"}]

\* Every slot with a picture has the one the stream last stored there.
Av1Current(e) == \A r \in Av1Refs : e.toPool[r] # 0 => r \in e.fresh

Av1Safe(F, e) ==
    /\ e \in Av1EngineType(F) /\ Len(e.reorder) <= Av1Reorder
    /\ e.gap \/ (e.refOk /\ Av1Current(e))

LEMMA Av1MissedSafe ==
    ASSUME NEW F, NEW e, Av1Safe(F, e), NEW f \in Av1StreamFrame
    PROVE  Av1Safe(F, Av1Missed(e, f))
<1>1. e \in Av1EngineType(F)
  BY DEF Av1Safe
<1>2. PICK u \in SUBSET Av1Refs, z \in BOOLEAN : u = e.fresh \ f.mask /\ z = (e.gap \/ f.mask # {})
  BY <1>1 DEF Av1EngineType
<1>3. PICK x : x = [e EXCEPT !.fresh = u, !.gap = z]
  OBVIOUS
<1>4. x = Av1Missed(e, f)
  BY <1>2, <1>3 DEF Av1Missed
<1>5. x \in Av1EngineType(F) /\ x.reorder = e.reorder /\ x.fresh = u /\ x.gap = z /\ x.refOk = e.refOk /\ x.toPool = e.toPool
  BY <1>1, <1>3 DEF Av1EngineType
<1> QED BY <1>2, <1>4, <1>5 DEF Av1Safe, Av1Current

LEMMA Av1Reads ==
    ASSUME NEW F, NEW e, Av1Safe(F, e), NEW f \in Av1StreamFrame
    PROVE  /\ Av1Safe(F, ReadsSlots(e, f)) /\ (f.k = "key" => ReadsSlots(e, f).refOk)
           /\ \E b \in BOOLEAN : ReadsSlots(e, f) = [e EXCEPT !.refOk = b]
<1>1. e \in Av1EngineType(F)
  BY DEF Av1Safe
<1>2. PICK b \in BOOLEAN : b = (RefSlots(e, f) \cup SeedSlots(e, f) \subseteq e.fresh)
  OBVIOUS
<1>3. PICK x : x = [e EXCEPT !.refOk = b]
  OBVIOUS
<1>4. x = ReadsSlots(e, f)
  BY <1>2, <1>3 DEF ReadsSlots
<1>5. x \in Av1EngineType(F) /\ x.reorder = e.reorder /\ x.fresh = e.fresh /\ x.gap = e.gap /\ x.refOk = b /\ x.toPool = e.toPool
  BY <1>1, <1>3 DEF Av1EngineType
<1>6. e.gap \/ b
  BY <1>2 DEF Av1Safe, Av1Current, RefSlots, SeedSlots, Av1StreamFrame
<1>7. f.k = "key" => b
  BY <1>2 DEF RefSlots, SeedSlots
<1> QED BY <1>3, <1>4, <1>5, <1>6, <1>7 DEF Av1Safe, Av1Current

\* What a kick leaves alone.
SameQueues(e, x) == /\ x.reorder = e.reorder /\ x.ready = e.ready /\ x.sw = e.sw /\ x.depth = e.depth
                    /\ x.maxReorder = e.maxReorder

LEMMA Av1HeadersSafe ==
    ASSUME NEW F, NEW e, Av1Safe(F, e), NEW f \in Av1StreamFrame
    PROVE  Av1Safe(F, UpdateHeaders(e, f)) /\ SameQueues(e, UpdateHeaders(e, f))
<1>1. e \in Av1EngineType(F) /\ f.dim \in Nat
  BY DEF Av1Safe, Av1StreamFrame
<1>2. PICK h \in [Av1Refs -> Nat] : h = [r \in Av1Refs |-> IF r \in f.mask THEN f.dim ELSE e.head[r]]
  BY <1>1 DEF Av1EngineType
<1>3. PICK x : x = [e EXCEPT !.head = h]
  OBVIOUS
<1>4. x = UpdateHeaders(e, f)
  BY <1>2, <1>3 DEF UpdateHeaders
<1>5. /\ x \in Av1EngineType(F) /\ x.reorder = e.reorder /\ x.fresh = e.fresh /\ x.gap = e.gap
      /\ x.refOk = e.refOk /\ x.toPool = e.toPool
  BY <1>1, <1>3 DEF Av1EngineType
<1>6. SameQueues(e, x)
  BY <1>1, <1>3 DEF Av1EngineType, SameQueues
<1> QED BY <1>4, <1>5, <1>6 DEF Av1Safe, Av1Current

LEMMA Av1LostSafe ==
    ASSUME NEW F, NEW e, Av1Safe(F, e), NEW f \in Av1StreamFrame
    PROVE  Av1Safe(F, KickLost(e, f)) /\ SameQueues(e, KickLost(e, f))
<1>1. e \in Av1EngineType(F) /\ f.mask \in SUBSET Av1Refs
  BY DEF Av1Safe, Av1StreamFrame
<1>2. PICK u \in SUBSET Av1Refs, z \in BOOLEAN, w \in SUBSET Av1Refs :
        u = e.fresh \ f.mask /\ z = (e.gap \/ f.mask # {}) /\ w = e.split \cup f.mask
  BY <1>1 DEF Av1EngineType
<1>3. PICK x : x = [e EXCEPT !.fresh = u, !.gap = z, !.split = w]
  OBVIOUS
<1>4. x = KickLost(e, f)
  BY <1>1, <1>2, <1>3 DEF KickLost, Av1Missed, Av1EngineType
<1>5. /\ x \in Av1EngineType(F) /\ x.reorder = e.reorder /\ x.fresh = u /\ x.gap = z
      /\ x.refOk = e.refOk /\ x.toPool = e.toPool
  BY <1>1, <1>3 DEF Av1EngineType
<1>6. SameQueues(e, x)
  BY <1>1, <1>3 DEF Av1EngineType, SameQueues
<1> QED BY <1>2, <1>4, <1>5, <1>6 DEF Av1Safe, Av1Current

LEMMA Av1StoredSafe ==
    ASSUME NEW F, NEW e, Av1Safe(F, e), NEW f \in Av1StreamFrame, f.k = "key" => e.refOk,
           NEW p \in 1 .. Av1PoolSize, \A r \in Av1Refs : e.toPool[r] # p
    PROVE  Av1Safe(F, KickStored(e, f, p)) /\ SameQueues(e, KickStored(e, f, p))
<1>1. e \in Av1EngineType(F) /\ f.mask \in SUBSET Av1Refs
  BY DEF Av1Safe, Av1StreamFrame
<1>2. PICK st \in SUBSET Av1Refs : st = IF f.k = "key" THEN Av1Refs ELSE f.mask
  BY <1>1
<1>3. PICK t \in [Av1Refs -> 0 .. Av1PoolSize] : t = [r \in Av1Refs |-> IF r \in st THEN p ELSE e.toPool[r]]
  <2>1. p \in 0 .. Av1PoolSize
    BY Av1OpsAssumption
  <2>2. e.toPool \in [Av1Refs -> 0 .. Av1PoolSize]
    BY <1>1 DEF Av1EngineType
  <2> QED BY <2>1, <2>2
<1>4. {r \in e.fresh : e.toPool[r] # p} = e.fresh
  BY <1>1 DEF Av1EngineType
<1>5. PICK u \in SUBSET Av1Refs, w \in SUBSET Av1Refs, z \in BOOLEAN :
        /\ u = (e.fresh \ st) \cup f.mask /\ w = (e.split \ f.mask) \cup (st \ f.mask)
        /\ z = IF f.k = "key" THEN f.mask # Av1Refs ELSE e.gap
  BY <1>1, <1>2 DEF Av1EngineType
<1>6. PICK x : x = [e EXCEPT !.toPool = t, !.fresh = u, !.split = w, !.gap = z]
  OBVIOUS
<1>7. x = KickStored(e, f, p)
  BY <1>2, <1>3, <1>4, <1>5, <1>6 DEF KickStored
<1>8. /\ x \in Av1EngineType(F) /\ x.reorder = e.reorder /\ x.fresh = u /\ x.gap = z
      /\ x.refOk = e.refOk /\ x.toPool = t
  BY <1>1, <1>6 DEF Av1EngineType
<1>9. SameQueues(e, x)
  BY <1>1, <1>6 DEF Av1EngineType, SameQueues
<1>10. z \/ (e.refOk /\ \A r \in Av1Refs : t[r] # 0 => r \in u)
  <2>1. CASE f.k = "key"
    BY <1>2, <1>5, <2>1
  <2>2. CASE f.k # "key" /\ ~z
    <3>1. e.refOk /\ Av1Current(e)
      BY <1>5, <2>2 DEF Av1Safe
    <3>2. ASSUME NEW r \in Av1Refs, t[r] # 0 PROVE r \in u
      BY <1>2, <1>3, <1>5, <2>2, <3>1, <3>2 DEF Av1Current
    <3> QED BY <3>1, <3>2
  <2> QED BY <2>1, <2>2
<1> QED BY <1>7, <1>8, <1>9, <1>10 DEF Av1Safe, Av1Current

LEMMA Av1KickSafe ==
    ASSUME NEW F, NEW e, Av1Safe(F, e), NEW f \in Av1StreamFrame
    PROVE  Av1Safe(F, HwKickPicture(e, f)) /\ SameQueues(e, HwKickPicture(e, f))
<1>1. e \in Av1EngineType(F)
  BY DEF Av1Safe
<1>2. PICK b \in BOOLEAN : ReadsSlots(e, f) = [e EXCEPT !.refOk = b]
  BY Av1Reads
<1>3. PICK n \in 0 .. Av1PoolSize - 1 : n = (e.kicks + 1) % Av1PoolSize
  BY <1>1, Av1OpsAssumption DEF Av1EngineType
<1>4. PICK k : k = [ReadsSlots(e, f) EXCEPT !.kicks = (@ + 1) % Av1PoolSize]
  OBVIOUS
<1>5. k = [e EXCEPT !.refOk = b, !.kicks = n]
  BY <1>1, <1>2, <1>3, <1>4 DEF Av1EngineType
<1>6. /\ k \in Av1EngineType(F) /\ k.reorder = e.reorder /\ k.fresh = e.fresh /\ k.gap = e.gap
      /\ k.refOk = b /\ k.toPool = e.toPool /\ SameQueues(e, k)
  BY <1>1, <1>5 DEF Av1EngineType, SameQueues
<1>7. (e.gap \/ b) /\ (f.k = "key" => b)
  <2>1. Av1Safe(F, ReadsSlots(e, f)) /\ (f.k = "key" => ReadsSlots(e, f).refOk)
    BY Av1Reads
  <2>2. ReadsSlots(e, f).refOk = b /\ ReadsSlots(e, f).gap = e.gap
    BY <1>1, <1>2 DEF Av1EngineType
  <2> QED BY <2>1, <2>2 DEF Av1Safe
<1>8. Av1Safe(F, k)
  BY <1>6, <1>7 DEF Av1Safe, Av1Current
<1>9. PICK x : x = IF e.sw THEN k ELSE IF f.res = "fail" THEN KickLost(k, f) ELSE KickStored(k, f, AllocSlot(e))
  OBVIOUS
<1>10. HwKickPicture(e, f) = UpdateHeaders(x, f)
  BY <1>4, <1>9 DEF HwKickPicture
<1>11. AllocSlot(e) \in 1 .. Av1PoolSize /\ \A r \in Av1Refs : e.toPool[r] # AllocSlot(e)
  <2>1. e.toPool \in [Av1Refs -> 0 .. Av1PoolSize] /\ e.kicks \in 0 .. Av1PoolSize - 1
    BY <1>1 DEF Av1EngineType
  <2> QED BY <2>1, AllocFree
<1>12. Av1Safe(F, x) /\ SameQueues(k, x)
  <2>1. CASE e.sw
    BY <1>8, <1>9, <2>1 DEF SameQueues
  <2>2. CASE ~e.sw /\ f.res = "fail"
    BY <1>8, <1>9, <2>2, Av1LostSafe
  <2>3. CASE ~e.sw /\ f.res # "fail"
    <3>1. x = KickStored(k, f, AllocSlot(e))
      BY <1>9, <2>3
    <3>2. \A r \in Av1Refs : k.toPool[r] # AllocSlot(e)
      BY <1>6, <1>11
    <3>3. f.k = "key" => k.refOk
      BY <1>6, <1>7
    <3> QED BY <1>8, <1>11, <3>1, <3>2, <3>3, Av1StoredSafe
  <2> QED BY <2>1, <2>2, <2>3
<1>13. Av1Safe(F, UpdateHeaders(x, f)) /\ SameQueues(x, UpdateHeaders(x, f))
  BY <1>12, Av1HeadersSafe
<1> QED BY <1>6, <1>10, <1>12, <1>13 DEF SameQueues

LEMMA Av1QueueSafe ==
    ASSUME NEW F, Timed(F), NEW e, Av1Safe(F, e), NEW f \in F
    PROVE  Av1Safe(F, Queue(e, f))
<1>1. e \in Av1EngineType(F) /\ Len(e.reorder) \in Nat /\ e.reorder \in Seq(F)
  BY DEF Av1Safe, Av1EngineType
<1>2. PICK q : q = Append(e.reorder, f)
  OBVIOUS
<1>3. q \in Seq(F) /\ Len(q) \in Nat
  BY <1>1, <1>2
<1>4. PICK x : x = [e EXCEPT !.reorder = q]
  OBVIOUS
<1>5. /\ x \in Av1EngineType(F) /\ x.reorder = q /\ x.fresh = e.fresh /\ x.gap = e.gap
      /\ x.refOk = e.refOk /\ x.toPool = e.toPool /\ x.maxReorder = e.maxReorder
  BY <1>1, <1>3, <1>4 DEF Av1EngineType
<1>6. x.maxReorder \in Nat /\ x.maxReorder <= Av1Reorder
  BY <1>5, Av1OpsAssumption DEF Av1EngineType
<1>7. Queue(e, f) = Av1BumpLowestPts(x)
  BY <1>2, <1>4 DEF Queue
<1>8. CASE Len(q) <= x.maxReorder
  <2>1. Queue(e, f) = x
    BY <1>3, <1>5, <1>6, <1>7, <1>8 DEF Av1BumpLowestPts
  <2>2. Len(q) <= Av1Reorder
    BY <1>3, <1>6, <1>8, Av1OpsAssumption
  <2> QED BY <1>5, <2>1, <2>2 DEF Av1Safe, Av1Current
<1>9. CASE Len(q) > x.maxReorder
  <2>1. PICK n \in Nat : n = Len(q) - x.maxReorder
    BY <1>3, <1>6, <1>9
  <2>2. Queue(e, f) = Bump(x, n)
    BY <1>5, <1>7, <1>9, <2>1 DEF Av1BumpLowestPts
  <2>3. Queues(F, x)
    BY <1>5 DEF Queues, Requeued, Av1EngineType
  <2>4. n <= Len(x.reorder)
    BY <1>3, <1>5, <1>6, <2>1
  <2>5. PICK y : y = Bump(x, n)
    OBVIOUS
  <2>6. Moved(F, x, n, y)
    BY <2>3, <2>4, <2>5, BumpFacts
  <2>7. y = [x EXCEPT !.reorder = y.reorder, !.ready = y.ready] /\ y.reorder \in Seq(F) /\ y.ready \in Seq(F)
        /\ Len(y.reorder) = Len(q) - n
    BY <1>5, <2>6 DEF Moved, Requeued
  <2>8. PICK r \in Seq(F), s \in Seq(F) : r = y.reorder /\ s = y.ready
    BY <2>7
  <2>9. y = [x EXCEPT !.reorder = r, !.ready = s]
    BY <2>7, <2>8
  <2>10. /\ y \in Av1EngineType(F) /\ y.fresh = x.fresh /\ y.gap = x.gap
         /\ y.refOk = x.refOk /\ y.toPool = x.toPool
    BY <1>5, <2>9 DEF Av1EngineType
  <2>11. Len(y.reorder) <= Av1Reorder
    BY <1>3, <1>6, <2>1, <2>7, Av1OpsAssumption
  <2> QED BY <1>5, <2>2, <2>5, <2>10, <2>11 DEF Av1Safe, Av1Current
<1> QED BY <1>3, <1>6, <1>8, <1>9

Shows(F, pts, born) ==
    \A d \in Nat, q \in {8, 10}, b \in BOOLEAN :
        [pts |-> pts, dim |-> d, depth |-> q, born |-> born, blank |-> b] \in F

LEMMA Av1DrainSafe ==
    ASSUME NEW F, Timed(F), NEW pts, NEW born, Shows(F, pts, born),
           NEW e, Av1Safe(F, e), NEW f \in Av1StreamFrame
    PROVE  Av1Safe(F, DrainPicture(e, f, pts, born))
<1>1. e \in Av1EngineType(F) /\ f.dim \in Nat /\ f.ref \in Av1Refs
  BY DEF Av1Safe, Av1StreamFrame
<1>2. \A d \in Nat : [pts |-> pts, dim |-> d, depth |-> e.depth, born |-> born, blank |-> e.sw] \in F
  BY <1>1 DEF Av1EngineType, Shows
<1>3. CASE ~e.known \/ f.res = "parse"
  BY <1>3, Av1MissedSafe DEF DrainPicture
<1>4. CASE e.known /\ f.res # "parse" /\ f.k = "show"
  <2>1. PICK o : o = [pts |-> pts, dim |-> e.head[f.ref], depth |-> e.depth, born |-> born, blank |-> e.sw]
    OBVIOUS
  <2>2. o \in F
    BY <1>1, <1>2, <2>1 DEF Av1EngineType
  <2>3. DrainPicture(e, f, pts, born) = IF e.toPool[f.ref] = 0 THEN Av1Missed(e, f)
                                        ELSE Av1Missed(Queue(ReadsSlots(e, f), o), f)
    BY <1>4, <2>1 DEF DrainPicture
  <2>4. Av1Safe(F, ReadsSlots(e, f))
    BY Av1Reads
  <2>5. Av1Safe(F, Queue(ReadsSlots(e, f), o))
    BY <2>2, <2>4, Av1QueueSafe
  <2>6. Av1Safe(F, Av1Missed(Queue(ReadsSlots(e, f), o), f))
    BY <2>5, Av1MissedSafe
  <2>7. Av1Safe(F, Av1Missed(e, f))
    BY Av1MissedSafe
  <2> QED BY <2>3, <2>6, <2>7
<1>5. CASE e.known /\ f.res # "parse" /\ f.k # "show"
  <2>1. PICK o : o = [pts |-> pts, dim |-> f.dim, depth |-> e.depth, born |-> born, blank |-> e.sw]
    OBVIOUS
  <2>2. o \in F
    BY <1>1, <1>2, <2>1
  <2>3. DrainPicture(e, f, pts, born) = IF f.shown /\ (f.res = "ok" \/ e.sw) THEN Queue(HwKickPicture(e, f), o)
                                        ELSE HwKickPicture(e, f)
    BY <1>5, <2>1 DEF DrainPicture
  <2>4. Av1Safe(F, HwKickPicture(e, f))
    BY Av1KickSafe
  <2>5. Av1Safe(F, Queue(HwKickPicture(e, f), o))
    BY <2>2, <2>4, Av1QueueSafe
  <2> QED BY <2>3, <2>4, <2>5
<1> QED BY <1>1, <1>3, <1>4, <1>5 DEF Av1EngineType

\* Av1Submit is the fold of one frame over the temporal unit.
Av1FoldOne(fs, pts, born, x, i) == DrainPicture(x, fs[i], pts, born)

Av1FoldStep(x0, fs, pts, born, g, s) == IF s = {} THEN x0 ELSE Av1FoldOne(fs, pts, born, g[s \ {Max(s)}], Max(s))
IsAv1Fold(x0, fs, pts, born, g, D) == g = [s \in D |-> Av1FoldStep(x0, fs, pts, born, g, s)]

LEMMA Av1FoldExists ==
    ASSUME NEW x0, NEW fs, NEW pts, NEW born, NEW n \in Nat
    PROVE  \E g : IsAv1Fold(x0, fs, pts, born, g, SUBSET (1 .. n))
<1> DEFINE P(k) == \E g : IsAv1Fold(x0, fs, pts, born, g, Upto(n, k))
           Bad  == {k \in Nat : ~ P(k)}
<1>1. P(0)
  <2> DEFINE g == [s \in Upto(n, 0) |-> x0]
  <2>1. IsAv1Fold(x0, fs, pts, born, g, Upto(n, 0))
    BY UptoFacts DEF IsAv1Fold, Av1FoldStep
  <2> QED BY <2>1
<1>2. ASSUME NEW k \in Nat, P(k) PROVE P(k + 1)
  <2>1. PICK h : IsAv1Fold(x0, fs, pts, born, h, Upto(n, k))
    BY <1>2
  <2> DEFINE g == [s \in Upto(n, k + 1) |->
                      IF Cardinality(s) = k + 1 THEN Av1FoldStep(x0, fs, pts, born, h, s) ELSE h[s]]
  <2>2. \A s \in Upto(n, k) : s \in Upto(n, k + 1) /\ g[s] = h[s]
    BY UptoFacts
  <2>3. ASSUME NEW s \in Upto(n, k + 1) PROVE g[s] = Av1FoldStep(x0, fs, pts, born, g, s)
    <3>1. s = {} \/ s \ {Max(s)} \in Upto(n, k)
      <4>1. k + 1 \in Nat /\ k + 1 - 1 = k
        OBVIOUS
      <4>2. \A j \in Nat : \A r \in Upto(n, j) : r = {} \/ (j # 0 /\ r \ {Max(r)} \in Upto(n, j - 1))
        BY UptoFacts
      <4>3. s = {} \/ s \ {Max(s)} \in Upto(n, k + 1 - 1)
        BY <4>1, <4>2
      <4> QED BY <4>1, <4>3
    <3>2. Av1FoldStep(x0, fs, pts, born, g, s) = Av1FoldStep(x0, fs, pts, born, h, s)
      BY <2>2, <3>1 DEF Av1FoldStep
    <3>3. s \in Upto(n, k) => h[s] = Av1FoldStep(x0, fs, pts, born, h, s)
      BY <2>1 DEF IsAv1Fold
    <3> QED BY <3>2, <3>3, UptoFacts
  <2>4. IsAv1Fold(x0, fs, pts, born, g, Upto(n, k + 1))
    BY <2>3 DEF IsAv1Fold
  <2> QED BY <2>4
<1> HIDE DEF P
<1>3. \A k \in Nat : P(k)
  <2> SUFFICES ASSUME Bad # {} PROVE FALSE
    OBVIOUS
  <2>1. PICK k \in Bad : \A m \in Bad : k <= m
    BY LeastNat
  <2>2. k # 0 /\ k - 1 \in Nat /\ k - 1 \notin Bad /\ k = (k - 1) + 1
    BY <1>1, <2>1
  <2> QED BY <1>2, <2>1, <2>2
<1>4. P(n)
  BY <1>3
<1>5. \E g : IsAv1Fold(x0, fs, pts, born, g, Upto(n, n))
  BY <1>4 DEF P
<1>6. Upto(n, n) = SUBSET (1 .. n)
  BY UptoFacts
<1> QED BY <1>5, <1>6

Av1FoldBase(e, tu) ==
    IF tu.seq = <<>> THEN e
    ELSE [e EXCEPT !.known = TRUE, !.depth = tu.seq[1].depth,
                   !.maxReorder = IF tu.seq[1].hint THEN Av1Reorder ELSE 0]

LEMMA Av1Folds ==
    ASSUME NEW e, NEW tu, NEW T, tu.frames \in Seq(T), NEW pts, NEW born
    PROVE  \E g : /\ IsAv1Fold(Av1FoldBase(e, tu), tu.frames, pts, born, g, SUBSET (1 .. Len(tu.frames)))
                  /\ Av1Submit(e, tu, pts, born) = g[1 .. Len(tu.frames)]
<1>1. PICK fs : fs = tu.frames
  OBVIOUS
<1>2. PICK n \in Nat : n = Len(fs) /\ DOMAIN fs = 1 .. n
  BY <1>1
<1>3. PICK x0 : x0 = Av1FoldBase(e, tu)
  OBVIOUS
<1> DEFINE G == CHOOSE g : g = [s \in SUBSET (DOMAIN fs) |-> Av1FoldStep(x0, fs, pts, born, g, s)]
<1>4. G = [s \in SUBSET (DOMAIN fs) |-> Av1FoldStep(x0, fs, pts, born, G, s)]
  <2>1. \E g : IsAv1Fold(x0, fs, pts, born, g, SUBSET (1 .. n))
    BY Av1FoldExists
  <2>2. \E g : g = [s \in SUBSET (DOMAIN fs) |-> Av1FoldStep(x0, fs, pts, born, g, s)]
    BY <1>2, <2>1 DEF IsAv1Fold
  <2> QED BY <2>2
<1>5. Av1Submit(e, tu, pts, born) = G[DOMAIN fs]
  BY <1>1, <1>3 DEF Av1Submit, FoldLeft, MapThenFoldSet, Av1FoldStep, Av1FoldOne, Av1FoldBase
<1>6. IsAv1Fold(x0, fs, pts, born, G, SUBSET (1 .. n))
  BY <1>2, <1>4 DEF IsAv1Fold
<1> HIDE DEF G
<1> QED BY <1>1, <1>2, <1>3, <1>5, <1>6

LEMMA Av1SubmitSafe ==
    ASSUME NEW F, Timed(F), NEW pts, NEW born, Shows(F, pts, born),
           NEW e, Av1Safe(F, e), NEW tu \in Av1TemporalUnit
    PROVE  Av1Safe(F, Av1Submit(e, tu, pts, born))
<1>1. PICK x0 : x0 = Av1FoldBase(e, tu)
  OBVIOUS
<1>2. Av1Safe(F, x0)
  <2>1. CASE tu.seq = <<>>
    BY <1>1, <2>1 DEF Av1FoldBase
  <2>2. CASE tu.seq # <<>>
    <3>1. tu.seq[1] \in [hint : BOOLEAN, depth : {8, 10}]
      <4>1. PICK s \in Seq([hint : BOOLEAN, depth : {8, 10}]) : s = tu.seq
        BY DEF Av1TemporalUnit
      <4>2. \A S : \A t \in Seq(S) : t # <<>> => t[1] \in S
        OBVIOUS
      <4> QED BY <2>2, <4>1, <4>2
    <3>2. PICK q \in {8, 10}, m \in {0, Av1Reorder} :
            q = tu.seq[1].depth /\ m = IF tu.seq[1].hint THEN Av1Reorder ELSE 0
      BY <3>1
    <3>3. x0 = [e EXCEPT !.known = TRUE, !.depth = q, !.maxReorder = m]
      BY <1>1, <2>2, <3>2 DEF Av1FoldBase
    <3>4. e \in Av1EngineType(F)
      BY DEF Av1Safe
    <3>5. /\ x0 \in Av1EngineType(F) /\ x0.reorder = e.reorder /\ x0.fresh = e.fresh /\ x0.gap = e.gap
          /\ x0.refOk = e.refOk /\ x0.toPool = e.toPool
      BY <3>3, <3>4 DEF Av1EngineType
    <3> QED BY <3>5 DEF Av1Safe, Av1Current
  <2> QED BY <2>1, <2>2
<1>3. PICK fs \in Seq(Av1StreamFrame) : fs = tu.frames
  BY DEF Av1TemporalUnit, Av1StreamFrame
<1>4. PICK n \in Nat : n = Len(fs)
  BY <1>3
<1>5. PICK g : IsAv1Fold(x0, fs, pts, born, g, SUBSET (1 .. n)) /\ Av1Submit(e, tu, pts, born) = g[1 .. n]
  BY <1>1, <1>3, <1>4, Av1Folds
<1> DEFINE Bad == {k \in 0 .. n : ~ Av1Safe(F, g[1 .. k])}
<1>6. \A s \in SUBSET (1 .. n) : g[s] = Av1FoldStep(x0, fs, pts, born, g, s)
  BY <1>5 DEF IsAv1Fold
<1>7. SUFFICES ASSUME Bad # {} PROVE FALSE
  BY <1>5
<1>8. PICK k \in Bad : \A m \in Bad : k <= m
  <2>1. Bad \in SUBSET Nat
    OBVIOUS
  <2> QED BY <1>7, <2>1, LeastNat
<1>9. k # 0
  <2>1. 1 .. 0 = {} /\ {} \in SUBSET (1 .. n)
    OBVIOUS
  <2>2. g[1 .. 0] = x0
    BY <1>6, <2>1 DEF Av1FoldStep
  <2> QED BY <1>2, <1>8, <2>2
<1>10. k - 1 \in 0 .. n /\ Av1Safe(F, g[1 .. k - 1])
  BY <1>8, <1>9
<1>11. g[1 .. k] = DrainPicture(g[1 .. k - 1], fs[k], pts, born)
  <2>1. k \in Nat \ {0} /\ 1 .. k \in SUBSET (1 .. n) /\ 1 .. k # {}
    BY <1>8, <1>9
  <2>2. Max(1 .. k) = k /\ (1 .. k) \ {k} = 1 .. k - 1
    BY <2>1, MaxUpto
  <2> QED BY <1>6, <2>1, <2>2 DEF Av1FoldStep, Av1FoldOne
<1>12. fs[k] \in Av1StreamFrame
  BY <1>3, <1>4, <1>8, <1>9
<1>13. Av1Safe(F, g[1 .. k])
  BY <1>10, <1>11, <1>12, Av1DrainSafe
<1> QED BY <1>8, <1>13

-----------------------------------------------------------------------------
\* The invariant of the transform.

\* Queued H.264 / H.265 frames: only an IRAP picture has a tag that is not the number of the flush
\* its input came after.
GenFrames == {f \in GenFrame : f.tag # f.born => f.irap}
Av1Fresh  == {f \in Av1Frame : f.born = count.flushes}

GenType(F) == [reorder : Seq(F), ready : Seq(F), held : Nat, epoch : Nat, max : {0, GenReorder},
               wait : BOOLEAN, sps : {8, 10}]

\* The queues keep within the reorder window, and all but n of the slots held are those of the
\* queued frames.
GenSafe(F, n, e) == /\ e \in GenType(F) /\ Len(e.reorder) <= e.max
                    /\ e.held = Len(e.reorder) + Len(e.ready) + n

\* No slot is left behind unless a ProcessOutput failed.
GenHolds(F, failed, e) == \E n \in Nat : (~failed => n = 0) /\ GenSafe(F, n, e)

EngineInv ==
    eng # None => /\ Gen => GenHolds(GenFrames, erred, eng)
                  /\ kind = "VP9" => Vp9Safe(eng) /\ eng.inUse = {}
                  /\ kind = "AV1" => Av1Safe(Av1Fresh, eng)

WinType == [at : {"unlocked", "tagged", "admitted", "decoding", "done", "trap", "torn"},
            au : GenInputs, pts : Ptss[kind], born : Nat, tag : Nat, sel : Nat, rc : {0, 1}]

\* A FLUSH between the unlock and the read of the epoch has armed the IRAP gate, and the gate is up
\* until the access unit is through it.
Tagged(w, now, wait) ==
    /\ w.at = "unlocked" /\ now # w.born => wait
    /\ w.at = "tagged" /\ w.tag # w.born => wait
    /\ w.at \in {"admitted", "decoding"} /\ w.tag # w.born => w.au.irap

\* The ProcessInput in the window has its engine, and what its tag says holds.
WinInv ==
    win # None => /\ Gen /\ streaming /\ eng # None /\ win \in WinType
                  /\ Tagged(win, epoch, eng.wait)

\* An output type that was not outrun by a new input type has the size in force.
SizeInv == outType # NoType /\ ~retyped => outType.dim = dim

StateInv ==
    /\ kind \in Kinds /\ depth \in {8, 10} /\ erred \in BOOLEAN /\ retyped \in BOOLEAN
    /\ count \in [inputs : Nat, flushes : Nat, types : Nat] /\ epoch = count.flushes
    /\ ~streaming => eng = None
    /\ outq \in Seq(FreshOut)

SampleInv == EmittedAsNegotiated /\ EmittedFresh

MInv == StateInv /\ EngineInv /\ WinInv /\ SizeInv /\ SampleInv

LEMMA TimedFrames ==
    ASSUME kind \in Kinds
    PROVE  Timed(GenFrames) /\ Timed(Av1Fresh)
<1>1. Ptss[kind] \subseteq Nat
  BY MftAssumption
<1> QED BY <1>1 DEF Timed, GenFrames, GenFrame, Av1Fresh, Av1Frame

LEMMA GenIsNotNone == \A e \in GenType(GenFrames) : e # None
<1>1. DOMAIN None = {"at"}
  BY DEF None
<1>2. \A e \in GenType(GenFrames) : "held" \in DOMAIN e
  BY DEF GenType
<1> QED BY <1>1, <1>2

LEMMA MInit == Init => MInv
<1> SUFFICES ASSUME Init PROVE MInv
  OBVIOUS
<1>1. StateInv
  <2>1. outq \in Seq(FreshOut)
    BY DEF Init
  <2>2. count \in [inputs : Nat, flushes : Nat, types : Nat] /\ count.flushes = 0
    BY DEF Init
  <2> QED BY <2>1, <2>2 DEF Init, StateInv
<1>2. EngineInv /\ WinInv /\ SizeInv
  BY DEF Init, EngineInv, WinInv, SizeInv
<1>3. SampleInv
  BY DEF Init, SampleInv, EmittedAsNegotiated, EmittedFresh
<1> QED BY <1>1, <1>2, <1>3 DEF MInv

\* The flush number and the codec determine the sets of frames.
SameEpoch == kind' = kind /\ count'.flushes = count.flushes

LEMMA FramesSame ==
    ASSUME SameEpoch
    PROVE  GenFrames' = GenFrames /\ Av1Fresh' = Av1Fresh /\ FreshOut' = FreshOut /\ GenFrame' = GenFrame
BY DEF SameEpoch, GenFrames, GenFrame, Av1Fresh, Av1Frame, FreshOut, Vp9Frame

LEMMA EngineKeeps ==
    ASSUME EngineInv, SameEpoch, UNCHANGED <<eng, erred>>
    PROVE  EngineInv'
BY FramesSame DEF EngineInv, SameEpoch, Gen

\* A step that leaves the engine, the output queue and the window alone.
Quiet == /\ UNCHANGED <<kind, eng, erred, outq, win, streaming, epoch>>
         /\ count' \in [inputs : Nat, flushes : Nat, types : Nat] /\ count'.flushes = count.flushes
         /\ depth' \in {8, 10} /\ retyped' \in BOOLEAN

LEMMA QuietKeeps ==
    ASSUME MInv, Quiet
    PROVE  StateInv' /\ EngineInv' /\ WinInv'
<1>1. SameEpoch
  BY DEF Quiet, SameEpoch
<1>2. StateInv'
  BY <1>1, FramesSame DEF MInv, StateInv, Quiet
<1>3. EngineInv'
  BY <1>1, EngineKeeps DEF MInv, Quiet
<1>4. WinType' = WinType
  BY DEF Quiet, WinType
<1>5. WinInv'
  BY <1>1, <1>4 DEF MInv, WinInv, Quiet, Gen
<1> QED BY <1>2, <1>3, <1>5

\* Nothing is handed out.
LEMMA NoSample == ASSUME out' = None PROVE SampleInv'
BY DEF SampleInv, EmittedAsNegotiated, EmittedFresh

LEMMA MNegotiate == MInv /\ Negotiate => MInv'
<1> SUFFICES ASSUME MInv, Negotiate PROVE MInv'
  OBVIOUS
<1>1. StateInv /\ SizeInv /\ count \in [inputs : Nat, flushes : Nat, types : Nat] /\ depth \in {8, 10}
      /\ retyped \in BOOLEAN
  BY DEF MInv, StateInv
<1>2. ASSUME NEW d \in Dims, NEW b \in {8, 10}, SetInputType(d, b) PROVE MInv'
  <2>1. Quiet
    BY <1>1, <1>2 DEF SetInputType, Quiet, msgVars
  <2>2. SizeInv'
    BY <1>2 DEF SetInputType, SizeInv
  <2> QED BY <1>2, <2>1, <2>2, QuietKeeps, NoSample DEF MInv, SetInputType
<1>3. CASE ClearInputType
  <2>1. Quiet
    BY <1>1, <1>3 DEF ClearInputType, Quiet, msgVars
  <2>2. SizeInv'
    BY <1>1, <1>3 DEF ClearInputType, SizeInv
  <2> QED BY <1>3, <2>1, <2>2, QuietKeeps, NoSample DEF MInv, ClearInputType
<1>4. CASE SetOutputType
  <2>1. Quiet
    BY <1>1, <1>4 DEF SetOutputType, Quiet, msgVars
  <2>2. SizeInv'
    BY <1>4 DEF SetOutputType, SizeInv, BuildOutputType
  <2> QED BY <1>4, <2>1, <2>2, QuietKeeps, NoSample DEF MInv, SetOutputType
<1>5. CASE ClearOutputType
  <2>1. Quiet
    BY <1>1, <1>5 DEF ClearOutputType, Quiet, msgVars
  <2>2. SizeInv'
    BY <1>1, <1>5 DEF ClearOutputType, SizeInv
  <2> QED BY <1>5, <2>1, <2>2, QuietKeeps, NoSample DEF MInv, ClearOutputType
<1> QED BY <1>2, <1>3, <1>4, <1>5 DEF Negotiate

\* Engines right after Init.
LEMMA NewEnginesSafe ==
    ASSUME kind \in Kinds, depth \in {8, 10}, NEW e \in NewEngines
    PROVE  /\ Gen => GenHolds(GenFrames, FALSE, e)
           /\ kind = "VP9" => Vp9Safe(e) /\ e.inUse = {}
           /\ kind = "AV1" => Av1Safe(Av1Fresh, e)
<1>1. CASE Gen
  <2>1. PICK q \in {8, 10} : e = GenEngine(q)
    BY <1>1 DEF NewEngines, Gen
  <2>2. \A S : << >> \in Seq(S) /\ Len(<< >>) = 0
    OBVIOUS
  <2>3. e \in GenType(GenFrames) /\ e.reorder = <<>> /\ e.ready = <<>> /\ e.held = 0 /\ e.max = 0
    BY <2>1, <2>2 DEF GenType, GenEngine
  <2>4. GenSafe(GenFrames, 0, e)
    BY <2>2, <2>3 DEF GenSafe
  <2>5. GenHolds(GenFrames, FALSE, e)
    BY <2>4 DEF GenHolds
  <2> QED BY <1>1, <2>5 DEF Gen
<1>2. CASE kind = "VP9"
  <2>1. e = Vp9Engine
    BY <1>2 DEF NewEngines, Gen
  <2>2. e \in Vp9EngineType
    BY <2>1 DEF Vp9Engine, Vp9EngineType, NoSlot
  <2> QED BY <1>2, <2>1, <2>2 DEF Vp9Safe, Vp9Engine, Current, NoSlot, Gen
<1>3. CASE kind = "AV1"
  <2>1. PICK sw \in BOOLEAN : e = Av1Engine(sw)
    BY <1>3 DEF NewEngines, Gen
  <2>2. Av1PoolSize \in Nat \ {0} /\ Av1Reorder \in Nat
    BY Av1OpsAssumption, FS_CardinalityType
  <2>3. \A S : << >> \in Seq(S) /\ Len(<< >>) = 0
    OBVIOUS
  <2>4. e \in Av1EngineType(Av1Fresh)
    BY <2>1, <2>2, <2>3 DEF Av1Engine, Av1EngineType
  <2>5. Len(e.reorder) <= Av1Reorder /\ e.refOk /\ Av1Current(e)
    BY <2>1, <2>2, <2>3 DEF Av1Engine, Av1Current
  <2> QED BY <1>3, <2>4, <2>5 DEF Av1Safe, Gen
<1> QED BY <1>1, <1>2, <1>3, MftAssumption DEF Gen

\* FLUSH empties the queues: no frame of an earlier flush is left in them.
LEMMA GenFlushSafe ==
    ASSUME NEW F, NEW n \in Nat, NEW e, GenSafe(F, n, e)
    PROVE  GenSafe(F, n, GenFlush(e)) /\ GenFlush(e).wait
<1>1. e \in GenType(F)
  BY DEF GenSafe
<1>2. PICK a \in Nat, b \in Nat, m \in Nat : a = Len(e.reorder) /\ b = Len(e.ready) /\ m = e.epoch + 1
  BY <1>1 DEF GenType
<1>3. e.held = a + b + n
  BY <1>2 DEF GenSafe
<1>4. e.held - a - b = n
  BY <1>3
<1>5. << >> \in Seq(F) /\ Len(<< >>) = 0
  OBVIOUS
<1>6. PICK u \in Seq(F) : u = << >>
  BY <1>5
<1>7. PICK x : x = [e EXCEPT !.reorder = u, !.ready = u, !.held = n, !.epoch = m, !.max = 0, !.wait = TRUE]
  OBVIOUS
<1>8. x = GenFlush(e)
  BY <1>1, <1>2, <1>4, <1>6, <1>7 DEF GenFlush, GenType
<1>9. x \in GenType(F) /\ x.reorder = u /\ x.ready = u /\ x.held = n /\ x.max = 0 /\ x.wait = TRUE
  BY <1>1, <1>7 DEF GenType
<1> QED BY <1>5, <1>6, <1>8, <1>9 DEF GenSafe

LEMMA Vp9FlushSafe ==
    ASSUME NEW e, Vp9Safe(e)
    PROVE  Vp9Safe(Vp9Flush(e)) /\ Vp9Flush(e).inUse = e.inUse
<1>1. PICK x : x = Vp9Flush(e)
  OBVIOUS
<1>2. /\ x \in Vp9EngineType /\ x.inUse = e.inUse /\ x.wait = TRUE /\ x.refOk = TRUE /\ x.ctxOk = e.ctxOk
      /\ x.valid = {}
  BY <1>1 DEF Vp9Flush, Vp9Safe, Vp9EngineType
<1> QED BY <1>1, <1>2 DEF Vp9Safe

LEMMA Av1FlushSafe ==
    ASSUME NEW F, NEW G, NEW e, Av1Safe(F, e)
    PROVE  Av1Safe(G, Av1Flush(e))
<1>1. PICK x : x = Av1Flush(e)
  OBVIOUS
<1>2. \A S : << >> \in Seq(S) /\ Len(<< >>) = 0
  OBVIOUS
<1>3. /\ x \in Av1EngineType(G) /\ x.reorder = <<>> /\ x.refOk = TRUE /\ x.toPool = [r \in Av1Refs |-> 0]
  <2>1. PICK u \in Seq(G) : u = << >>
    BY <1>2
  <2>8. 0 \in 0 .. Av1PoolSize
    BY Av1OpsAssumption
  <2>2. PICK a \in [Av1Refs -> 0 .. Av1PoolSize] : a = [r \in Av1Refs |-> 0]
    BY <2>8
  <2>3. PICK b \in [Av1Refs -> Nat] : b = [r \in Av1Refs |-> 0]
    OBVIOUS
  <2>4. PICK z \in SUBSET Av1Refs : z = {}
    OBVIOUS
  <2>5. x = [e EXCEPT !.reorder = u, !.ready = u, !.known = FALSE, !.gap = FALSE, !.toPool = a, !.head = b,
                      !.fresh = z, !.split = z, !.refOk = TRUE]
    BY <1>1, <2>1, <2>2, <2>3, <2>4 DEF Av1Flush
  <2>6. e \in Av1EngineType(F)
    BY DEF Av1Safe
  <2>7. x \in Av1EngineType(G) /\ x.reorder = u /\ x.refOk = TRUE /\ x.toPool = a
    BY <2>5, <2>6 DEF Av1EngineType
  <2> QED BY <2>1, <2>2, <2>7
<1> QED BY <1>1, <1>2, <1>3, Av1OpsAssumption DEF Av1Safe, Av1Current

LEMMA MMessage == MInv /\ ProcessMessage => MInv'
<1> SUFFICES ASSUME MInv, ProcessMessage PROVE MInv'
  OBVIOUS
<1>1. /\ StateInv /\ SizeInv /\ count \in [inputs : Nat, flushes : Nat, types : Nat] /\ depth \in {8, 10}
      /\ retyped \in BOOLEAN /\ kind \in Kinds /\ erred \in BOOLEAN /\ EngineInv /\ WinInv
  BY DEF MInv, StateInv
<1>2. CASE BeginStreaming
  <2>1. SameEpoch
    BY <1>2 DEF BeginStreaming, SameEpoch, typeVars
  <2>2. eng = None /\ win = None /\ win' = None
    BY <1>1, <1>2 DEF BeginStreaming, StateInv, WinInv
  <2>3. StateInv'
    BY <1>1, <1>2, <2>1, FramesSame DEF BeginStreaming, StateInv, typeVars
  <2>4. EngineInv'
    <3>1. eng' = None \/ eng' \in NewEngines
      BY <1>2 DEF BeginStreaming
    <3>3. erred' = FALSE /\ kind' = kind /\ Gen' = Gen
      BY <1>2 DEF BeginStreaming, typeVars, Gen
    <3>4. GenFrames' = GenFrames /\ Av1Fresh' = Av1Fresh
      BY <2>1, FramesSame
    <3>5. CASE eng' = None
      BY <3>5 DEF EngineInv
    <3>6. CASE eng' \in NewEngines
      <4>1. PICK e \in NewEngines : e = eng'
        BY <3>6
      <4>2. /\ Gen => GenHolds(GenFrames, FALSE, e)
            /\ kind = "VP9" => Vp9Safe(e) /\ e.inUse = {}
            /\ kind = "AV1" => Av1Safe(Av1Fresh, e)
        BY <1>1, NewEnginesSafe
      <4> QED BY <3>3, <3>4, <4>1, <4>2 DEF EngineInv
    <3> QED BY <3>1, <3>5, <3>6
  <2>5. WinInv'
    BY <2>2 DEF WinInv
  <2>6. SizeInv'
    BY <1>1, <1>2 DEF SizeInv, BeginStreaming, typeVars
  <2> QED BY <1>2, <2>3, <2>4, <2>5, <2>6, NoSample DEF MInv, BeginStreaming
<1>3. CASE EndStreaming
  <2>1. SameEpoch
    BY <1>3 DEF EndStreaming, SameEpoch, typeVars
  <2>2. StateInv'
    <3>1. outq' = <<>> /\ erred' = FALSE /\ eng' = None
      BY <1>3 DEF EndStreaming
    <3>2. \A S : << >> \in Seq(S)
      OBVIOUS
    <3>3. outq' \in Seq(FreshOut') /\ erred' \in BOOLEAN /\ eng' = None
      BY <3>1, <3>2
    <3>4. UNCHANGED <<kind, depth, retyped, count, epoch>>
      BY <1>3 DEF EndStreaming, typeVars
    <3> QED BY <1>1, <3>3, <3>4 DEF StateInv
  <2>3. EngineInv' /\ WinInv'
    BY <1>3 DEF EndStreaming, EngineInv, WinInv
  <2>4. SizeInv'
    BY <1>1, <1>3 DEF SizeInv, EndStreaming, typeVars
  <2> QED BY <1>3, <2>2, <2>3, <2>4, NoSample DEF MInv, EndStreaming
<1>4. CASE CommandDrain
  <2>1. Quiet
    BY <1>1, <1>4 DEF CommandDrain, Quiet, typeVars
  <2>2. SizeInv'
    BY <1>1, <1>4 DEF SizeInv, CommandDrain, typeVars
  <2> QED BY <1>4, <2>1, <2>2, QuietKeeps, NoSample DEF MInv, CommandDrain
<1>5. CASE CommandFlush
  <2>1. /\ kind' = kind /\ streaming' = streaming /\ erred' = erred /\ win' = win /\ depth' = depth /\ retyped' = retyped
        /\ epoch' = epoch + 1 /\ eng' = EngineFlush(eng) /\ outq' = <<>> /\ out' = None
        /\ UNCHANGED <<outType, dim>>
    BY <1>5 DEF CommandFlush, typeVars
  <2>2. count'.flushes = count.flushes + 1 /\ count' \in [inputs : Nat, flushes : Nat, types : Nat]
    BY <1>1, <1>5 DEF CommandFlush
  <2>3. eng = None => eng' = None
    BY <2>1 DEF EngineFlush
  <2>4. ASSUME eng # None
        PROVE  /\ Gen => GenHolds(GenFrames, erred, eng') /\ eng' # None /\ eng'.wait
               /\ kind = "VP9" => Vp9Safe(eng') /\ eng'.inUse = {}
               /\ kind = "AV1" => \A G : Av1Safe(G, eng')
    <3>1. CASE Gen
      <4>1. eng' = GenFlush(eng) /\ GenHolds(GenFrames, erred, eng)
        BY <1>1, <2>1, <2>4, <3>1 DEF EngineFlush, EngineInv, Gen
      <4>2. PICK n \in Nat : (~erred => n = 0) /\ GenSafe(GenFrames, n, eng)
        BY <4>1 DEF GenHolds
      <4>3. GenSafe(GenFrames, n, eng') /\ eng'.wait
        BY <4>1, <4>2, GenFlushSafe
      <4>4. eng' # None
        BY <4>3, GenIsNotNone DEF GenSafe
      <4>5. GenHolds(GenFrames, erred, eng')
        BY <4>2, <4>3 DEF GenHolds
      <4> QED BY <3>1, <4>3, <4>4, <4>5 DEF Gen
    <3>2. CASE kind = "VP9"
      <4>1. eng' = Vp9Flush(eng) /\ Vp9Safe(eng) /\ eng.inUse = {}
        BY <1>1, <2>1, <2>4, <3>2 DEF EngineFlush, EngineInv, Gen
      <4> QED BY <3>2, <4>1, Vp9FlushSafe DEF Gen
    <3>3. CASE kind = "AV1"
      <4>1. eng' = Av1Flush(eng) /\ Av1Safe(Av1Fresh, eng)
        BY <1>1, <2>1, <2>4, <3>3 DEF EngineFlush, EngineInv, Gen
      <4> QED BY <3>3, <4>1, Av1FlushSafe DEF Gen
    <3> QED BY <1>1, <3>1, <3>2, <3>3, MftAssumption DEF Gen
  <2>5. StateInv'
    <3>1. outq' \in Seq(FreshOut')
      BY <2>1
    <3> QED BY <1>1, <2>1, <2>2, <2>3, <3>1 DEF StateInv
  <2>6. EngineInv'
    <3>1. GenFrames' = GenFrames
      BY <2>1 DEF GenFrames, GenFrame
    <3>2. Gen' = Gen
      BY <2>1 DEF Gen
    <3> QED BY <2>1, <2>3, <2>4, <3>1, <3>2 DEF EngineInv
  <2>7. WinInv'
    <3>1. WinType' = WinType
      BY <2>1 DEF WinType
    <3>2. ASSUME win # None PROVE WinInv'
      <4>1. Gen /\ streaming /\ eng # None /\ win \in WinType /\ Tagged(win, epoch, eng.wait)
        BY <1>1, <3>2 DEF WinInv
      <4>2. eng' # None /\ eng'.wait /\ Gen'
        BY <2>1, <2>4, <4>1 DEF Gen
      <4>3. Tagged(win, epoch', eng'.wait)
        BY <4>1, <4>2 DEF Tagged
      <4> QED BY <2>1, <3>1, <4>1, <4>2, <4>3 DEF WinInv
    <3> QED BY <2>1, <3>2 DEF WinInv
  <2>8. SizeInv'
    BY <1>1, <2>1 DEF SizeInv
  <2> QED BY <2>1, <2>5, <2>6, <2>7, <2>8, NoSample DEF MInv
<1> QED BY <1>2, <1>3, <1>4, <1>5 DEF ProcessMessage

\* Moving frames from one queue of the H.264 / H.265 engine to the other keeps the slots in place.
GenBooked(F, n, e) == e \in GenType(F) /\ e.held = Len(e.reorder) + Len(e.ready) + n

LEMMA GenBumpBooked ==
    ASSUME NEW F, Timed(F), NEW n \in Nat, NEW e, GenBooked(F, n, e),
           NEW k \in Nat, k <= Len(e.reorder)
    PROVE  /\ GenBooked(F, n, Bump(e, k)) /\ Len(Bump(e, k).reorder) = Len(e.reorder) - k
           /\ Bump(e, k).max = e.max /\ Bump(e, k).wait = e.wait
<1>1. e \in GenType(F)
  BY DEF GenBooked
<1>2. PICK a \in Nat, c \in Nat : a = Len(e.reorder) /\ c = Len(e.ready)
  BY <1>1 DEF GenType
<1>3. e.held = a + c + n
  BY <1>2 DEF GenBooked
<1>4. Queues(F, e)
  BY <1>1 DEF Queues, Requeued, GenType
<1>5. PICK y : y = Bump(e, k)
  OBVIOUS
<1>6. Moved(F, e, k, y)
  BY <1>4, <1>5, BumpFacts
<1>7. y = [e EXCEPT !.reorder = y.reorder, !.ready = y.ready] /\ y.reorder \in Seq(F) /\ y.ready \in Seq(F)
      /\ Len(y.reorder) = a - k /\ Len(y.ready) = c + k
  BY <1>2, <1>6 DEF Moved, Requeued
<1>8. PICK r \in Seq(F), s \in Seq(F) : r = y.reorder /\ s = y.ready
  BY <1>7
<1>9. y = [e EXCEPT !.reorder = r, !.ready = s]
  BY <1>7, <1>8
<1>10. y \in GenType(F) /\ y.held = e.held /\ y.max = e.max /\ y.wait = e.wait
  BY <1>1, <1>9 DEF GenType
<1>11. (a - k) + (c + k) + n = a + c + n
  OBVIOUS
<1>12. y.held = Len(y.reorder) + Len(y.ready) + n
  BY <1>3, <1>7, <1>10, <1>11
<1> QED BY <1>2, <1>5, <1>7, <1>10, <1>12 DEF GenBooked

\* DecodeEngine_OnDecodeComplete adds a frame, after the spill of an IDR, and bumps down to the
\* reorder window.
LEMMA GenQueueSafe ==
    ASSUME NEW F, Timed(F), NEW n \in Nat, NEW e, GenSafe(F, n, e), NEW f \in F
    PROVE  GenSafe(F, n, GenQueue(e, f))
<1>1. GenBooked(F, n, e)
  BY DEF GenSafe, GenBooked
<1>2. PICK sp : sp = IF kind = "H264" /\ f.irap THEN Bump(e, Len(e.reorder)) ELSE e
  OBVIOUS
<1>3. GenBooked(F, n, sp)
  <2>1. Len(e.reorder) \in Nat /\ Len(e.reorder) <= Len(e.reorder)
    BY <1>1 DEF GenBooked, GenType
  <2>2. GenBooked(F, n, Bump(e, Len(e.reorder)))
    BY <1>1, <2>1, GenBumpBooked
  <2> QED BY <1>1, <1>2, <2>2
<1>4. sp \in GenType(F) /\ sp.reorder \in Seq(F) /\ sp.ready \in Seq(F) /\ sp.held \in Nat
  BY <1>3 DEF GenBooked, GenType
<1>5. PICK a \in Nat, c \in Nat : a = Len(sp.reorder) /\ c = Len(sp.ready)
  BY <1>4
<1>6. sp.held = a + c + n
  BY <1>3, <1>5 DEF GenBooked
<1>7. PICK q \in Seq(F) : q = Append(sp.reorder, f) /\ Len(q) = a + 1
  <2>1. \A u \in Seq(F), g \in F : Append(u, g) \in Seq(F) /\ Len(Append(u, g)) = Len(u) + 1
    OBVIOUS
  <2> QED BY <1>4, <1>5, <2>1, Zenon
<1>8. PICK h \in Nat, m \in {0, GenReorder} : h = sp.held + 1 /\ m = GenReorder
  BY <1>4
<1>9. PICK x : x = [sp EXCEPT !.reorder = q, !.held = h, !.max = m]
  OBVIOUS
<1>10. x \in GenType(F) /\ x.reorder = q /\ x.ready = sp.ready /\ x.held = h /\ x.max = m
  BY <1>4, <1>9 DEF GenType
<1>11. h = (a + 1) + c + n
  BY <1>6, <1>8
<1>12. GenBooked(F, n, x)
  BY <1>5, <1>7, <1>10, <1>11 DEF GenBooked
<1>13. GenReorder \in Nat
  BY MftAssumption
<1>14. x = [sp EXCEPT !.reorder = Append(@, f), !.held = @ + 1, !.max = GenReorder]
  BY <1>4, <1>7, <1>8, <1>9 DEF GenType
<1>15. GenQueue(e, f) = IF Len(x.reorder) > GenReorder THEN Bump(x, Len(x.reorder) - GenReorder) ELSE x
  BY <1>2, <1>14 DEF GenQueue
<1>16. CASE a + 1 <= GenReorder
  <2>1. GenQueue(e, f) = x
    BY <1>7, <1>10, <1>13, <1>15, <1>16
  <2> QED BY <1>7, <1>8, <1>10, <1>12, <1>16, <2>1 DEF GenSafe, GenBooked
<1>17. CASE a + 1 > GenReorder
  <2>1. PICK k \in Nat : k = (a + 1) - GenReorder
    BY <1>13, <1>17
  <2>2. GenQueue(e, f) = Bump(x, k)
    BY <1>7, <1>10, <1>13, <1>15, <1>17, <2>1
  <2>3. k <= Len(x.reorder)
    BY <1>7, <1>10, <1>13, <2>1
  <2>4. GenBooked(F, n, Bump(x, k)) /\ Len(Bump(x, k).reorder) = Len(x.reorder) - k /\ Bump(x, k).max = x.max
    BY <1>12, <2>3, GenBumpBooked
  <2>5. Len(Bump(x, k).reorder) = GenReorder /\ Bump(x, k).max = GenReorder
    BY <1>7, <1>8, <1>10, <1>13, <2>1, <2>4
  <2> QED BY <1>13, <2>2, <2>4, <2>5 DEF GenSafe, GenBooked
<1> QED BY <1>13, <1>16, <1>17

LEMMA SizeKeeps == ASSUME SizeInv, UNCHANGED typeVars PROVE SizeInv'
BY DEF SizeInv, typeVars

\* The counters after one more input.
LEMMA Taken ==
    ASSUME StateInv, TakeInput
    PROVE  count' \in [inputs : Nat, flushes : Nat, types : Nat] /\ count'.flushes = count.flushes /\ out' = None
BY DEF StateInv, TakeInput

\* A step of the Submit keeps the invariant when the engine and the window come out sound.
LEMMA GenWindowKeeps ==
    ASSUME MInv, win # None, InWindow, win' \in WinType, Tagged(win', epoch, eng'.wait),
           GenHolds(GenFrames, erred, eng')
    PROVE  MInv'
<1>1. /\ StateInv /\ SizeInv /\ Gen /\ streaming
  BY DEF MInv, WinInv, StateInv
<1>2. out' = None /\ UNCHANGED <<typeVars, depth, msgVars, lastPts, outq, erred, count>>
  BY DEF InWindow
<1>3. SameEpoch /\ Gen' /\ kind' = kind /\ streaming' /\ epoch' = epoch /\ erred' = erred
  BY <1>1, <1>2 DEF SameEpoch, typeVars, msgVars, Gen
<1>4. eng' # None
  BY GenIsNotNone DEF GenHolds, GenSafe
<1>5. StateInv'
  BY <1>1, <1>2, <1>3, FramesSame DEF StateInv, typeVars, msgVars
<1>6. EngineInv'
  <2>1. GenFrames' = GenFrames /\ kind' # "VP9" /\ kind' # "AV1"
    BY <1>1, <1>3, FramesSame DEF Gen
  <2> QED BY <1>3, <2>1 DEF EngineInv
<1>7. WinInv'
  <2>1. WinType' = WinType
    BY <1>3 DEF WinType
  <2> QED BY <1>3, <1>4, <2>1 DEF WinInv
<1> QED BY <1>1, <1>2, <1>5, <1>6, <1>7, SizeKeeps, NoSample DEF MInv

\* The epoch, the gate and the parser's SPS are no business of the queues.
LEMMA GenHoldsBesides ==
    ASSUME NEW F, NEW failed, NEW e, GenHolds(F, failed, e), NEW w \in BOOLEAN, NEW q \in {8, 10}
    PROVE  GenHolds(F, failed, [e EXCEPT !.wait = w]) /\ GenHolds(F, failed, [e EXCEPT !.sps = q])
           /\ GenHolds(F, failed, [e EXCEPT !.sps = q, !.wait = w])
           /\ [e EXCEPT !.wait = w].wait = w /\ [e EXCEPT !.sps = q, !.wait = w].wait = w
           /\ [e EXCEPT !.sps = q].wait = e.wait
<1>1. PICK n \in Nat : (~failed => n = 0) /\ GenSafe(F, n, e)
  BY DEF GenHolds
<1>2. e \in GenType(F) /\ Len(e.reorder) <= e.max /\ e.held = Len(e.reorder) + Len(e.ready) + n
  BY <1>1 DEF GenSafe
<1>3. ASSUME NEW x \in GenType(F), x.reorder = e.reorder, x.ready = e.ready, x.held = e.held, x.max = e.max
      PROVE  GenHolds(F, failed, x)
  <2>1. GenSafe(F, n, x)
    BY <1>2, <1>3 DEF GenSafe
  <2> QED BY <1>1, <2>1 DEF GenHolds
<1>4. PICK x : x = [e EXCEPT !.wait = w]
  OBVIOUS
<1>5. x \in GenType(F) /\ x.reorder = e.reorder /\ x.ready = e.ready /\ x.held = e.held /\ x.max = e.max /\ x.wait = w
  BY <1>2, <1>4 DEF GenType
<1>6. PICK y : y = [e EXCEPT !.sps = q]
  OBVIOUS
<1>7. /\ y \in GenType(F) /\ y.reorder = e.reorder /\ y.ready = e.ready /\ y.held = e.held /\ y.max = e.max
      /\ y.wait = e.wait
  BY <1>2, <1>6 DEF GenType
<1>8. PICK z : z = [e EXCEPT !.sps = q, !.wait = w]
  OBVIOUS
<1>9. z \in GenType(F) /\ z.reorder = e.reorder /\ z.ready = e.ready /\ z.held = e.held /\ z.max = e.max /\ z.wait = w
  BY <1>2, <1>8 DEF GenType
<1>10. GenHolds(F, failed, x) /\ GenHolds(F, failed, y) /\ GenHolds(F, failed, z)
  BY <1>3, <1>5, <1>7, <1>9
<1> QED BY <1>4, <1>5, <1>6, <1>7, <1>8, <1>9, <1>10

\* The steps of DecodeEngine_SubmitFramed.
LEMMA MSubmit ==
    MInv /\ (\/ GenMalformed \/ GenGated \/ GenAdmitted \/ GenSelect \/ GenFail
            \/ GenComplete \/ GenTrap \/ GenRace) => MInv'
<1> SUFFICES ASSUME MInv, \/ GenMalformed \/ GenGated \/ GenAdmitted \/ GenSelect \/ GenFail
                          \/ GenComplete \/ GenTrap \/ GenRace
             PROVE  MInv'
  OBVIOUS
<1>1. InWindow /\ win # None
  BY DEF GenMalformed, GenGated, GenAdmitted, GenSelect, GenFail, GenComplete, GenTrap, GenRace, None
<1>2. /\ Gen /\ eng # None /\ win \in WinType /\ Tagged(win, epoch, eng.wait) /\ EngineInv /\ kind \in Kinds
  BY <1>1 DEF MInv, WinInv, StateInv
<1>3. GenHolds(GenFrames, erred, eng)
  BY <1>2 DEF EngineInv
<1>4. win.au \in GenInputs /\ win.au.dim \in Nat /\ win.au.depth \in {8, 10} /\ win.au.irap \in BOOLEAN
  BY <1>2, MftAssumption DEF WinType
<1>5. eng.epoch \in Nat /\ eng.wait \in BOOLEAN
  BY <1>3 DEF GenHolds, GenSafe, GenType
<1>6. CASE GenMalformed \/ GenGated
  <2>1. PICK r \in {0, 1} : win' = [win EXCEPT !.at = "done", !.rc = r]
    <3>1. CASE GenMalformed
      BY <3>1 DEF GenMalformed
    <3>2. CASE GenGated
      <4>1. win' = [win EXCEPT !.at = "done"] /\ win.rc \in {0, 1}
        BY <1>2, <3>2 DEF GenGated, WinType
      <4>2. win' = [win EXCEPT !.at = "done", !.rc = win.rc]
        BY <1>2, <4>1 DEF WinType
      <4> QED BY <4>1, <4>2
    <3> QED BY <1>6, <3>1, <3>2
  <2>2. eng' = eng
    BY <1>6 DEF GenMalformed, GenGated
  <2>3. win' \in WinType /\ win'.at = "done"
    BY <1>2, <2>1 DEF WinType
  <2>4. Tagged(win', epoch, eng'.wait)
    BY <2>3 DEF Tagged
  <2> QED BY <1>1, <1>3, <2>3, <2>4, <2>2, GenWindowKeeps
<1>7. CASE GenAdmitted
  <2>1. /\ win.at = "tagged" /\ (~eng.wait \/ win.au.irap)
        /\ win' = [win EXCEPT !.at = "admitted"] /\ eng' = [eng EXCEPT !.wait = FALSE]
    BY <1>7 DEF GenAdmitted
  <2>2. win' \in WinType /\ win'.at = "admitted" /\ win'.tag = win.tag /\ win'.born = win.born /\ win'.au = win.au
    BY <1>2, <2>1 DEF WinType
  <2>3. win.tag # win.born => win.au.irap
    BY <1>2, <2>1 DEF Tagged
  <2>4. Tagged(win', epoch, eng'.wait)
    BY <2>2, <2>3 DEF Tagged
  <2>5. GenHolds(GenFrames, erred, eng')
    BY <1>3, <2>1, GenHoldsBesides
  <2> QED BY <1>1, <2>2, <2>4, <2>5, GenWindowKeeps
<1>8. CASE GenSelect
  <2>1. PICK v \in Nat : v = IF kind = "H264" THEN eng.epoch ELSE 0
    BY <1>5
  <2>2. /\ win.at = "admitted" /\ win' = [win EXCEPT !.at = "decoding", !.sel = v]
        /\ eng' = [eng EXCEPT !.sps = win.au.depth]
    BY <1>8, <2>1 DEF GenSelect
  <2>3. win' \in WinType /\ win'.at = "decoding" /\ win'.tag = win.tag /\ win'.born = win.born /\ win'.au = win.au
    BY <1>2, <2>2 DEF WinType
  <2>4. Tagged(win', epoch, eng'.wait)
    <3>1. win.tag # win.born => win.au.irap
      BY <1>2, <2>2 DEF Tagged
    <3> QED BY <2>3, <3>1 DEF Tagged
  <2>5. GenHolds(GenFrames, erred, eng')
    BY <1>3, <1>4, <2>2, GenHoldsBesides
  <2> QED BY <1>1, <2>3, <2>4, <2>5, GenWindowKeeps
<1>9. CASE GenFail
  <2>1. win' = [win EXCEPT !.at = "done", !.rc = 1] /\ eng' = [eng EXCEPT !.sps = win.au.depth, !.wait = TRUE]
    BY <1>9 DEF GenFail
  <2>2. win' \in WinType /\ win'.at = "done"
    BY <1>2, <2>1 DEF WinType
  <2>3. Tagged(win', epoch, eng'.wait)
    BY <2>2 DEF Tagged
  <2>4. GenHolds(GenFrames, erred, eng')
    BY <1>3, <1>4, <2>1, GenHoldsBesides
  <2> QED BY <1>1, <2>2, <2>3, <2>4, GenWindowKeeps
<1>10. CASE GenComplete
  <2>1. PICK f : f = [pts |-> win.pts, dim |-> win.au.dim, depth |-> win.au.depth, tag |-> win.tag,
                      born |-> win.born, irap |-> win.au.irap]
    OBVIOUS
  <2>2. win.at = "decoding" /\ eng' = GenQueue(eng, f) /\ win' = [win EXCEPT !.at = "done"]
    BY <1>10, <2>1 DEF GenComplete
  <2>3. win.tag # win.born => win.au.irap
    BY <1>2, <2>2 DEF Tagged
  <2>4. win.pts \in Ptss[kind] /\ win.tag \in Nat /\ win.born \in Nat
    BY <1>2 DEF WinType
  <2>5. f \in GenFrame /\ f.tag = win.tag /\ f.born = win.born /\ f.irap = win.au.irap
    BY <1>4, <2>1, <2>4 DEF GenFrame, Depths
  <2>6. f \in GenFrames
    BY <2>3, <2>5 DEF GenFrames
  <2>7. PICK n \in Nat : (~erred => n = 0) /\ GenSafe(GenFrames, n, eng)
    BY <1>3 DEF GenHolds
  <2>8. GenSafe(GenFrames, n, eng')
    BY <1>2, <2>2, <2>6, <2>7, TimedFrames, GenQueueSafe
  <2>9. GenHolds(GenFrames, erred, eng')
    BY <2>7, <2>8 DEF GenHolds
  <2>10. win' \in WinType /\ win'.at = "done"
    BY <1>2, <2>2 DEF WinType
  <2>11. Tagged(win', epoch, eng'.wait)
    BY <2>10 DEF Tagged
  <2> QED BY <1>1, <2>9, <2>10, <2>11, GenWindowKeeps
<1>11. CASE GenTrap \/ GenRace
  <2>1. PICK a \in {"trap", "torn"} : win' = [win EXCEPT !.at = a]
    BY <1>11 DEF GenTrap, GenRace
  <2>2. eng' = eng
    BY <1>11 DEF GenTrap, GenRace
  <2>3. win' \in WinType /\ win'.at \in {"trap", "torn"}
    BY <1>2, <2>1 DEF WinType
  <2>4. Tagged(win', epoch, eng'.wait)
    BY <2>3 DEF Tagged
  <2> QED BY <1>1, <1>3, <2>2, <2>3, <2>4, GenWindowKeeps
<1> QED BY <1>6, <1>7, <1>8, <1>9, <1>10, <1>11

LEMMA MInput == MInv /\ ProcessInput => MInv'
<1> SUFFICES ASSUME MInv, ProcessInput PROVE MInv'
  OBVIOUS
<1>1. /\ StateInv /\ SizeInv /\ count \in [inputs : Nat, flushes : Nat, types : Nat] /\ depth \in {8, 10}
      /\ retyped \in BOOLEAN /\ kind \in Kinds /\ erred \in BOOLEAN /\ EngineInv /\ WinInv /\ epoch = count.flushes
      /\ outq \in Seq(FreshOut) /\ (~streaming => eng = None)
  BY DEF MInv, StateInv
<1>2. ASSUME NEW au \in GenInputs, NEW t \in Ptss[kind], GenBegin(au, t) PROVE MInv'
  <2>1. /\ Gen /\ streaming /\ eng # None /\ TakeInput /\ UNCHANGED <<typeVars, depth, msgVars, lastPts, eng, outq, erred>>
        /\ win' = [at |-> "unlocked", au |-> au, pts |-> t, born |-> count.flushes, tag |-> 0,
                   sel |-> 0, rc |-> 0]
    BY <1>2 DEF GenBegin, Accepting
  <2>2. count' \in [inputs : Nat, flushes : Nat, types : Nat] /\ count'.flushes = count.flushes /\ out' = None
    BY <1>1, <2>1, Taken
  <2>3. SameEpoch
    BY <2>1, <2>2 DEF SameEpoch, typeVars
  <2>4. StateInv'
    BY <1>1, <2>1, <2>2, <2>3, FramesSame DEF StateInv, typeVars, msgVars
  <2>5. EngineInv'
    BY <1>1, <2>1, <2>3, EngineKeeps
  <2>6. WinInv'
    <3>1. win' \in WinType
      BY <1>1, <2>1 DEF WinType
    <3>2. WinType' = WinType
      BY <2>3 DEF WinType, SameEpoch
    <3>3. win'.at = "unlocked" /\ win'.born = count.flushes
      BY <2>1
    <3>4. Gen' /\ streaming' /\ eng' # None /\ epoch' = count.flushes
      BY <1>1, <2>1 DEF typeVars, msgVars, Gen
    <3>5. Tagged(win', epoch', eng'.wait)
      BY <3>3, <3>4 DEF Tagged
    <3> QED BY <3>1, <3>2, <3>4, <3>5 DEF WinInv
  <2> QED BY <1>1, <2>1, <2>2, <2>4, <2>5, <2>6, SizeKeeps, NoSample DEF MInv
<1>3. CASE GenReadEpoch
  <2>1. /\ win.at = "unlocked" /\ out' = None /\ UNCHANGED <<typeVars, depth, msgVars, lastPts, eng, outq, erred, count>>
        /\ win' = [win EXCEPT !.at = "tagged", !.tag = epoch]
    BY <1>3 DEF GenReadEpoch
  <2>2. SameEpoch
    BY <2>1 DEF SameEpoch, typeVars
  <2>3. StateInv'
    BY <1>1, <2>1, <2>2, FramesSame DEF StateInv, typeVars, msgVars
  <2>4. EngineInv'
    BY <1>1, <2>1, <2>2, EngineKeeps
  <2>5. WinInv'
    <3>1. win # None
      BY <2>1 DEF None
    <3>2. Gen /\ streaming /\ eng # None /\ win \in WinType /\ (epoch # win.born => eng.wait)
      BY <1>1, <2>1, <3>1 DEF WinInv, Tagged
    <3>3. epoch \in Nat
      BY <1>1
    <3>4. win' \in WinType /\ win'.at = "tagged" /\ win'.tag = epoch /\ win'.born = win.born
      BY <2>1, <3>2, <3>3 DEF WinType
    <3>5. WinType' = WinType
      BY <2>2 DEF WinType, SameEpoch
    <3>6. Gen' /\ streaming' /\ eng' # None /\ eng' = eng
      BY <2>1, <3>2 DEF typeVars, msgVars, Gen
    <3>7. Tagged(win', epoch', eng'.wait)
      BY <3>2, <3>4, <3>6 DEF Tagged
    <3> QED BY <3>4, <3>5, <3>6, <3>7 DEF WinInv
  <2> QED BY <1>1, <2>1, <2>3, <2>4, <2>5, SizeKeeps, NoSample DEF MInv
<1>4. CASE \/ GenMalformed \/ GenGated \/ GenAdmitted \/ GenSelect \/ GenFail
           \/ GenComplete \/ GenTrap \/ GenRace
  BY <1>4, MSubmit
<1>5. CASE GenEnd
  <2>1. /\ win' = None /\ out' = None /\ UNCHANGED <<typeVars, msgVars, lastPts, eng, outq, erred, count>>
        /\ depth' \in {8, 10}
    BY <1>1, <1>5 DEF GenEnd
  <2>2. SameEpoch
    BY <2>1 DEF SameEpoch, typeVars
  <2>3. StateInv'
    BY <1>1, <2>1, <2>2, FramesSame DEF StateInv, typeVars, msgVars
  <2>4. EngineInv'
    BY <1>1, <2>1, <2>2, EngineKeeps
  <2>5. WinInv'
    BY <2>1 DEF WinInv
  <2> QED BY <1>1, <2>1, <2>3, <2>4, <2>5, SizeKeeps, NoSample DEF MInv
<1>6. ASSUME NEW tu \in Vp9Inputs, NEW t \in Ptss[kind], Vp9ProcessInput(tu, t) PROVE MInv'
  <2>1. /\ kind = "VP9" /\ streaming /\ eng # None /\ TakeInput /\ UNCHANGED <<typeVars, msgVars, lastPts, win, erred>>
    BY <1>6 DEF Vp9ProcessInput, Accepting
  <2>2. PICK r : r = Vp9DecodeFrames(tu, t) /\ eng' = r.eng /\ outq' = r.outq /\ depth' = r.depth
    BY <1>6 DEF Vp9ProcessInput
  <2>3. count' \in [inputs : Nat, flushes : Nat, types : Nat] /\ count'.flushes = count.flushes /\ out' = None
    BY <1>1, <2>1, Taken
  <2>4. SameEpoch
    BY <2>1, <2>3 DEF SameEpoch, typeVars
  <2>5. tu \in Seq(Vp9StreamFrame)
    BY MftAssumption
  <2>6. Vp9InHand(FreshOut, r)
    <3>1. PICK b : b = Vp9FoldBase(tu)
      OBVIOUS
    <3>2. PICK q \in {8, 10} : q = IF tu[1].depth = 10 THEN 10 ELSE depth
      BY <1>1
    <3>3. b = [eng |-> eng, outq |-> outq, depth |-> q]
      BY <3>1, <3>2 DEF Vp9FoldBase
    <3>4. Vp9Safe(eng) /\ eng.inUse = {}
      BY <1>1, <2>1 DEF EngineInv
    <3>5. Vp9InHand(FreshOut, b)
      BY <1>1, <3>3, <3>4 DEF Vp9InHand
    <3>6. count.flushes \in Nat
      BY <1>1
    <3> QED BY <2>2, <2>5, <3>1, <3>5, <3>6, Vp9DecodesAll
  <2>7. Vp9Safe(eng') /\ eng'.inUse = {} /\ outq' \in Seq(FreshOut) /\ depth' \in {8, 10}
    BY <2>2, <2>6 DEF Vp9InHand
  <2>8. StateInv'
    BY <1>1, <2>1, <2>3, <2>4, <2>7, FramesSame DEF StateInv, typeVars, msgVars
  <2>9. EngineInv'
    BY <2>1, <2>7 DEF EngineInv, typeVars, Gen
  <2>10. WinInv'
    <3>1. win = None
      BY <1>1, <2>1 DEF WinInv, Gen
    <3> QED BY <2>1, <3>1 DEF WinInv
  <2> QED BY <1>1, <2>1, <2>3, <2>8, <2>9, <2>10, SizeKeeps, NoSample DEF MInv
<1>7. ASSUME NEW tu \in Av1Inputs, NEW t \in Ptss[kind], Av1ProcessInput(tu, t) PROVE MInv'
  <2>1. /\ kind = "AV1" /\ streaming /\ eng # None /\ TakeInput /\ UNCHANGED <<typeVars, msgVars, lastPts, outq, win, erred>>
        /\ eng' = Av1Submit(eng, tu, t, count.flushes) /\ depth' \in {8, 10}
    BY <1>1, <1>7 DEF Av1ProcessInput, Accepting
  <2>2. count' \in [inputs : Nat, flushes : Nat, types : Nat] /\ count'.flushes = count.flushes /\ out' = None
    BY <1>1, <2>1, Taken
  <2>3. SameEpoch
    BY <2>1, <2>2 DEF SameEpoch, typeVars
  <2>4. Av1Safe(Av1Fresh, eng')
    <3>1. Av1Safe(Av1Fresh, eng)
      BY <1>1, <2>1 DEF EngineInv
    <3>2. Timed(Av1Fresh)
      BY <1>1, TimedFrames
    <3>3. Shows(Av1Fresh, t, count.flushes)
      BY <1>1 DEF Shows, Av1Fresh, Av1Frame, Depths
    <3>4. tu \in Av1TemporalUnit
      BY MftAssumption
    <3> QED BY <2>1, <3>1, <3>2, <3>3, <3>4, Av1SubmitSafe
  <2>5. StateInv'
    BY <1>1, <2>1, <2>2, <2>3, FramesSame DEF StateInv, typeVars, msgVars
  <2>6. EngineInv'
    <3>1. Av1Fresh' = Av1Fresh /\ kind' = "AV1"
      BY <2>1, <2>3, FramesSame DEF SameEpoch
    <3> QED BY <2>4, <3>1 DEF EngineInv, Gen
  <2>7. WinInv'
    <3>1. win = None
      BY <1>1, <2>1 DEF WinInv, Gen
    <3> QED BY <2>1, <3>1 DEF WinInv
  <2> QED BY <1>1, <2>1, <2>2, <2>5, <2>6, <2>7, SizeKeeps, NoSample DEF MInv
<1> QED BY <1>2, <1>3, <1>4, <1>5, <1>6, <1>7 DEF ProcessInput

\* The drain of draining_ keeps the queues in order; polling takes the head off ready.
LEMMA GenDrained ==
    ASSUME NEW F, Timed(F), NEW n \in Nat, NEW e, GenSafe(F, n, e)
    PROVE  GenSafe(F, n, Drained(e)) /\ Drained(e).wait = e.wait
<1>1. CASE ~draining
  BY <1>1 DEF Drained
<1>2. CASE draining
  <2>1. PICK k \in Nat : k = Len(e.reorder)
    BY DEF GenSafe, GenType
  <2>2. GenBooked(F, n, e) /\ k <= Len(e.reorder) /\ e.max \in Nat
    BY <2>1, MftAssumption DEF GenSafe, GenBooked, GenType
  <2>3. /\ GenBooked(F, n, Bump(e, k)) /\ Len(Bump(e, k).reorder) = Len(e.reorder) - k
        /\ Bump(e, k).max = e.max /\ Bump(e, k).wait = e.wait
    BY <2>2, GenBumpBooked
  <2>4. Drained(e) = Bump(e, k)
    BY <1>2, <2>1 DEF Drained
  <2>5. Len(Bump(e, k).reorder) = 0 /\ 0 <= e.max
    BY <2>1, <2>2, <2>3
  <2> QED BY <2>3, <2>4, <2>5 DEF GenSafe, GenBooked
<1> QED BY <1>1, <1>2

LEMMA HeadTail ==
    ASSUME NEW F, NEW s \in Seq(F), s # <<>>
    PROVE  Head(s) \in F /\ Tail(s) \in Seq(F) /\ Len(s) \in Nat \ {0} /\ Len(Tail(s)) = Len(s) - 1 /\ s[1] \in F
OBVIOUS

LEMMA GenPolled ==
    ASSUME NEW F, NEW n \in Nat, NEW e, GenSafe(F, n, e), e.ready # <<>>
    PROVE  /\ Head(e.ready) \in F
           /\ GenSafe(F, n + 1, Polled(e)) /\ GenSafe(F, n, Released(Polled(e)))
           /\ Polled(e).wait = e.wait /\ Released(Polled(e)).wait = e.wait
<1>1. e \in GenType(F) /\ e.reorder \in Seq(F) /\ e.ready \in Seq(F) /\ e.held \in Nat
  BY DEF GenSafe, GenType
<1>2. Head(e.ready) \in F /\ Tail(e.ready) \in Seq(F) /\ Len(e.ready) \in Nat \ {0} /\ Len(Tail(e.ready)) = Len(e.ready) - 1
  BY <1>1, HeadTail
<1>3. PICK a \in Nat, c \in Nat : a = Len(e.reorder) /\ c + 1 = Len(e.ready)
  <2>1. PICK p \in Nat, m \in Nat \ {0} : p = Len(e.reorder) /\ m = Len(e.ready)
    BY <1>1, <1>2
  <2>2. m - 1 \in Nat /\ (m - 1) + 1 = m
    BY <2>1
  <2> QED BY <2>1, <2>2
<1>4. e.held = a + (c + 1) + n /\ a <= e.max
  BY <1>3 DEF GenSafe
<1>5. PICK t \in Seq(F) : t = Tail(e.ready) /\ Len(t) = c
  <2>1. Len(Tail(e.ready)) = (c + 1) - 1
    BY <1>2, <1>3
  <2>2. (c + 1) - 1 = c
    OBVIOUS
  <2> QED BY <1>2, <2>1, <2>2
<1>6. PICK x : x = Polled(e)
  OBVIOUS
<1>7. x = [e EXCEPT !.ready = t]
  BY <1>1, <1>5, <1>6 DEF Polled, GenType
<1>8. x \in GenType(F) /\ x.reorder = e.reorder /\ x.ready = t /\ x.held = e.held /\ x.max = e.max /\ x.wait = e.wait
  BY <1>1, <1>7 DEF GenType
<1>9. e.held = a + c + (n + 1)
  BY <1>4
<1>10. GenSafe(F, n + 1, x)
  BY <1>3, <1>4, <1>5, <1>8, <1>9 DEF GenSafe
<1>11. PICK h \in Nat : h = a + c + n /\ h = e.held - 1
  BY <1>4
<1>12. PICK y : y = Released(x)
  OBVIOUS
<1>13. y = [x EXCEPT !.held = h]
  BY <1>8, <1>11, <1>12 DEF Released, GenType
<1>14. y \in GenType(F) /\ y.reorder = e.reorder /\ y.ready = t /\ y.held = h /\ y.max = e.max /\ y.wait = e.wait
  BY <1>8, <1>13 DEF GenType
<1>15. GenSafe(F, n, y)
  BY <1>3, <1>4, <1>5, <1>11, <1>14 DEF GenSafe
<1> QED BY <1>2, <1>6, <1>8, <1>10, <1>12, <1>14, <1>15

\* A ProcessOutput of H.264 / H.265 leaves everything but the engine and the depth alone.
GenOutputs == /\ Gen /\ eng # None /\ UNCHANGED <<typeVars, msgVars, outq, win, count>>
              /\ depth' \in {8, 10} /\ erred' \in BOOLEAN

LEMMA GenOutputKeeps ==
    ASSUME MInv, GenOutputs, NEW n \in Nat, ~erred' => n = 0, GenSafe(GenFrames, n, eng'), eng'.wait = eng.wait
    PROVE  StateInv' /\ EngineInv' /\ WinInv' /\ SizeInv'
<1>1. StateInv /\ WinInv /\ SizeInv /\ streaming /\ Gen
  BY DEF MInv, StateInv, GenOutputs
<1>2. SameEpoch
  BY DEF SameEpoch, GenOutputs, typeVars
<1>3. GenFrames' = GenFrames /\ FreshOut' = FreshOut /\ Gen' /\ kind' # "VP9" /\ kind' # "AV1"
      /\ streaming' = streaming /\ epoch' = epoch
  BY <1>1, <1>2, FramesSame DEF SameEpoch, GenOutputs, msgVars, Gen
<1>4. eng' # None
  BY GenIsNotNone DEF GenSafe
<1>5. StateInv'
  BY <1>1, <1>3 DEF StateInv, GenOutputs, typeVars, msgVars
<1>6. EngineInv'
  <2>1. GenHolds(GenFrames, erred', eng')
    BY DEF GenHolds
  <2> QED BY <1>3, <2>1 DEF EngineInv
<1>7. WinInv'
  <2>1. WinType' = WinType
    BY <1>2 DEF WinType, SameEpoch
  <2>2. win' = win
    BY DEF GenOutputs
  <2> QED BY <1>1, <1>3, <1>4, <2>1, <2>2 DEF WinInv
<1>8. SizeInv'
  BY <1>1, SizeKeeps DEF GenOutputs
<1> QED BY <1>5, <1>6, <1>7, <1>8

LEMMA GuardDepthType ==
    ASSUME NEW f, GuardDepth(f) # 0
    PROVE  GuardDepth(f) \in {8, 10}
BY DEF GuardDepth

LEMMA MGenOutput == MInv /\ (GenSkip \/ GenOutputError \/ GenDrop \/ GenEmit) => MInv'
<1> SUFFICES ASSUME MInv, GenSkip \/ GenOutputError \/ GenDrop \/ GenEmit PROVE MInv'
  OBVIOUS
<1>1. Gen /\ eng # None /\ Drained(eng).ready # <<>>
  BY DEF GenSkip, GenOutputError, GenDrop, GenEmit, GenReady
<1>2. /\ StateInv /\ depth \in {8, 10} /\ erred \in BOOLEAN /\ EngineInv /\ kind \in Kinds /\ epoch = count.flushes
  BY DEF MInv, StateInv
<1>3. PICK e : e = Drained(eng)
  OBVIOUS
<1>4. PICK n \in Nat : (~erred => n = 0) /\ GenSafe(GenFrames, n, eng)
  BY <1>1, <1>2 DEF EngineInv, GenHolds
<1>5. GenSafe(GenFrames, n, e) /\ e.ready # <<>> /\ e.wait = eng.wait
  BY <1>1, <1>2, <1>3, <1>4, TimedFrames, GenDrained
<1>6. /\ Head(e.ready) \in GenFrames /\ GenSafe(GenFrames, n + 1, Polled(e))
      /\ GenSafe(GenFrames, n, Released(Polled(e)))
      /\ Polled(e).wait = eng.wait /\ Released(Polled(e)).wait = eng.wait
  BY <1>5, GenPolled
<1>7. GenHead \in GenFrames
  BY <1>3, <1>6 DEF GenHead
<1>8. CASE GenSkip
  <2>1. GenOutputs
    BY <1>1, <1>2, <1>8 DEF GenSkip, GenOutputs
  <2>2. erred' = erred /\ eng' = Released(Polled(e)) /\ out' = None
    BY <1>3, <1>8 DEF GenSkip
  <2> QED BY <1>4, <1>6, <2>1, <2>2, GenOutputKeeps, NoSample DEF MInv
<1>9. CASE GenOutputError
  <2>1. GenOutputs
    BY <1>1, <1>2, <1>9, GuardDepthType DEF GenOutputError, GenOutputs
  <2>2. erred' = TRUE /\ eng' = Polled(e) /\ out' = None /\ n + 1 \in Nat
    BY <1>3, <1>9 DEF GenOutputError
  <2> QED BY <1>6, <2>1, <2>2, GenOutputKeeps, NoSample DEF MInv
<1>10. CASE GenDrop
  <2>1. GenOutputs
    BY <1>1, <1>2, <1>10, GuardDepthType DEF GenDrop, GenOutputs
  <2>2. erred' = erred /\ eng' = Released(Polled(e)) /\ out' = None
    BY <1>3, <1>10 DEF GenDrop
  <2> QED BY <1>4, <1>6, <2>1, <2>2, GenOutputKeeps, NoSample DEF MInv
<1>11. CASE GenEmit
  <2>1. GenOutputs
    BY <1>1, <1>2, <1>11, GuardDepthType DEF GenEmit, GenOutputs
  <2>2. erred' = erred /\ eng' = Released(Polled(e)) /\ out' = Sample(GenHead, dim, depth') /\ GenHead.tag = epoch
    BY <1>3, <1>11 DEF GenEmit, Stale
  <2>3. SampleInv'
    <3>1. kind' # "VP9" /\ Gen'
      BY <1>1, <2>1 DEF GenOutputs, typeVars, Gen
    <3>2. out'.f = GenHead /\ out'.fresh = (GenHead.born = count.flushes)
      BY <2>2 DEF Sample
    <3>3. GenHead.born = count.flushes \/ (GenHead.tag # GenHead.born /\ GenHead.irap)
      BY <1>2, <1>7, <2>2 DEF GenFrames
    <3> QED BY <3>1, <3>2, <3>3 DEF SampleInv, EmittedAsNegotiated, EmittedFresh
  <2>4. StateInv' /\ EngineInv' /\ WinInv' /\ SizeInv'
    BY <1>4, <1>6, <2>1, <2>2, GenOutputKeeps
  <2> QED BY <2>3, <2>4 DEF MInv
<1> QED BY <1>8, <1>9, <1>10, <1>11

\* VP9: a sample leaves the queue only in the format and the size of the types in force.
LEMMA MVp9Output == MInv /\ (Vp9StreamChange \/ Vp9DepthChange \/ Vp9OutputError \/ Vp9Emit) => MInv'
<1> SUFFICES ASSUME MInv, Vp9StreamChange \/ Vp9DepthChange \/ Vp9OutputError \/ Vp9Emit PROVE MInv'
  OBVIOUS
<1>1. kind = "VP9" /\ TypesSet
  BY DEF Vp9StreamChange, Vp9DepthChange, Vp9OutputError, Vp9Emit
<1>2. /\ StateInv /\ depth \in {8, 10} /\ erred \in BOOLEAN /\ EngineInv /\ WinInv /\ SizeInv /\ outq \in Seq(FreshOut)
      /\ count \in [inputs : Nat, flushes : Nat, types : Nat] /\ retyped \in BOOLEAN
  BY DEF MInv, StateInv
<1>3. outq # <<>> => outq[1] \in FreshOut /\ Tail(outq) \in Seq(FreshOut)
  BY <1>2, HeadTail
<1>4. CASE Vp9StreamChange
  <2>1. Quiet
    BY <1>2, <1>3, <1>4 DEF Vp9StreamChange, Quiet, msgVars, FreshOut, Vp9Frame, Depths
  <2>2. SizeInv'
    BY <1>4 DEF Vp9StreamChange, SizeInv
  <2> QED BY <1>4, <2>1, <2>2, QuietKeeps, NoSample DEF MInv, Vp9StreamChange
<1>5. CASE Vp9DepthChange
  <2>1. Quiet
    BY <1>2, <1>5 DEF Vp9DepthChange, Quiet, msgVars
  <2>2. SizeInv'
    BY <1>5 DEF Vp9DepthChange, SizeInv
  <2> QED BY <1>5, <2>1, <2>2, QuietKeeps, NoSample DEF MInv, Vp9DepthChange
<1>6. ASSUME UNCHANGED <<typeVars, depth, msgVars, lastPts, eng, win, erred, count>>, outq # <<>>, outq' = Tail(outq)
      PROVE  StateInv' /\ EngineInv' /\ WinInv' /\ SizeInv'
  <2>1. SameEpoch
    BY <1>6 DEF SameEpoch, typeVars
  <2>2. StateInv'
    BY <1>2, <1>3, <1>6, <2>1, FramesSame DEF StateInv, typeVars, msgVars
  <2>3. EngineInv'
    BY <1>2, <1>6, <2>1, EngineKeeps
  <2>4. WinInv'
    <3>1. WinType' = WinType
      BY <2>1 DEF WinType, SameEpoch
    <3> QED BY <1>2, <1>6, <3>1 DEF WinInv, typeVars, msgVars, Gen
  <2> QED BY <1>2, <1>6, <2>2, <2>3, <2>4, SizeKeeps
<1>7. CASE Vp9OutputError
  <2>1. StateInv' /\ EngineInv' /\ WinInv' /\ SizeInv'
    BY <1>6, <1>7 DEF Vp9OutputError
  <2> QED BY <1>7, <2>1, NoSample DEF MInv, Vp9OutputError
<1>8. CASE Vp9Emit
  <2>1. StateInv' /\ EngineInv' /\ WinInv' /\ SizeInv'
    BY <1>6, <1>8 DEF Vp9Emit
  <2>2. /\ out' = Sample(outq[1], outq[1].dim, outq[1].depth) /\ outq # <<>> /\ HeadFits
        /\ outType' = outType /\ retyped' = retyped
    BY <1>8 DEF Vp9Emit, typeVars
  <2>3. outq[1].born = count.flushes
    BY <1>3, <2>2 DEF FreshOut
  <2>4. out'.f = outq[1] /\ out'.fresh
    BY <2>2, <2>3 DEF Sample
  <2>5. outq[1].depth = outType.depth /\ (outq[1].dim = outType.dim \/ retyped)
    BY <1>1, <1>2, <2>2 DEF HeadFits, SizeInv, TypesSet
  <2>6. SampleInv'
    BY <2>2, <2>4, <2>5 DEF SampleInv, EmittedAsNegotiated, EmittedFresh
  <2> QED BY <2>1, <2>6 DEF MInv
<1> QED BY <1>4, <1>5, <1>7, <1>8

\* AV1: the drain and the poll keep the queues in order.
LEMMA Av1Drained ==
    ASSUME NEW F, Timed(F), NEW e, Av1Safe(F, e)
    PROVE  Av1Safe(F, Drained(e))
<1>1. CASE ~draining
  BY <1>1 DEF Drained
<1>2. CASE draining
  <2>1. e \in Av1EngineType(F) /\ e.reorder \in Seq(F)
    BY DEF Av1Safe, Av1EngineType
  <2>2. PICK k \in Nat : k = Len(e.reorder)
    BY <2>1
  <2>3. Queues(F, e)
    BY <2>1 DEF Queues, Requeued, Av1EngineType
  <2>4. PICK y : y = Bump(e, k)
    OBVIOUS
  <2>5. k <= Len(e.reorder)
    BY <2>2
  <2>6. Moved(F, e, k, y)
    BY <2>3, <2>4, <2>5, BumpFacts
  <2>7. y = [e EXCEPT !.reorder = y.reorder, !.ready = y.ready] /\ y.reorder \in Seq(F) /\ y.ready \in Seq(F)
        /\ Len(y.reorder) = 0
    BY <2>2, <2>6 DEF Moved, Requeued
  <2>8. PICK r \in Seq(F), s \in Seq(F) : r = y.reorder /\ s = y.ready
    BY <2>7
  <2>9. y = [e EXCEPT !.reorder = r, !.ready = s]
    BY <2>7, <2>8
  <2>10. /\ y \in Av1EngineType(F) /\ y.fresh = e.fresh /\ y.gap = e.gap
         /\ y.refOk = e.refOk /\ y.toPool = e.toPool
    BY <2>1, <2>9 DEF Av1EngineType
  <2>11. Len(y.reorder) <= Av1Reorder
    BY <2>7, Av1OpsAssumption
  <2>12. Drained(e) = y
    BY <1>2, <2>2, <2>4 DEF Drained
  <2> QED BY <2>10, <2>11, <2>12 DEF Av1Safe, Av1Current
<1> QED BY <1>1, <1>2

LEMMA Av1Polled ==
    ASSUME NEW F, NEW e, Av1Safe(F, e), e.ready # <<>>
    PROVE  Head(e.ready) \in F /\ Av1Safe(F, Av1PollFrame(e)) /\ Av1PollFrame(e) # None
<1>1. e \in Av1EngineType(F) /\ e.ready \in Seq(F)
  BY DEF Av1Safe, Av1EngineType
<1>2. Head(e.ready) \in F /\ Tail(e.ready) \in Seq(F)
  BY <1>1, HeadTail
<1>3. PICK t \in Seq(F) : t = Tail(e.ready)
  BY <1>2
<1>4. PICK x : x = Av1PollFrame(e)
  OBVIOUS
<1>5. x = [e EXCEPT !.ready = t]
  BY <1>1, <1>3, <1>4 DEF Av1PollFrame, Av1EngineType
<1>6. /\ x \in Av1EngineType(F) /\ x.fresh = e.fresh /\ x.gap = e.gap /\ x.reorder = e.reorder
      /\ x.refOk = e.refOk /\ x.toPool = e.toPool
  BY <1>1, <1>5 DEF Av1EngineType
<1>7. x # None
  <2>1. "sw" \in DOMAIN x
    BY <1>6 DEF Av1EngineType
  <2>2. DOMAIN None = {"at"}
    BY DEF None
  <2> QED BY <2>1, <2>2
<1> QED BY <1>2, <1>4, <1>6, <1>7 DEF Av1Safe, Av1Current

LEMMA MAv1Output == MInv /\ (Av1OutputError \/ Av1Emit) => MInv'
<1> SUFFICES ASSUME MInv, Av1OutputError \/ Av1Emit PROVE MInv'
  OBVIOUS
<1>1. /\ kind = "AV1" /\ eng # None /\ Drained(eng).ready # <<>> /\ eng' = Av1PollFrame(Drained(eng))
      /\ UNCHANGED <<typeVars, depth, msgVars, lastPts, outq, win, erred, count>>
  BY DEF Av1OutputError, Av1Emit, Av1Ready
<1>2. /\ StateInv /\ EngineInv /\ WinInv /\ SizeInv /\ kind \in Kinds
  BY DEF MInv, StateInv
<1>3. PICK e : e = Drained(eng)
  OBVIOUS
<1>4. Av1Safe(Av1Fresh, e) /\ e.ready # <<>>
  <2>1. Av1Safe(Av1Fresh, eng)
    BY <1>1, <1>2 DEF EngineInv
  <2>2. Timed(Av1Fresh)
    BY <1>2, TimedFrames
  <2> QED BY <1>1, <1>3, <2>1, <2>2, Av1Drained
<1>5. Head(e.ready) \in Av1Fresh /\ Av1Safe(Av1Fresh, Av1PollFrame(e)) /\ Av1PollFrame(e) # None
  BY <1>4, Av1Polled
<1>6. SameEpoch
  BY <1>1 DEF SameEpoch, typeVars
<1>7. Av1Fresh' = Av1Fresh /\ FreshOut' = FreshOut /\ kind' = "AV1"
  BY <1>1, <1>6, FramesSame DEF SameEpoch
<1>8. StateInv'
  BY <1>1, <1>2, <1>7 DEF StateInv, typeVars, msgVars
<1>9. EngineInv'
  BY <1>1, <1>3, <1>5, <1>7 DEF EngineInv, Gen
<1>10. WinInv'
  <2>1. win = None
    BY <1>1, <1>2 DEF WinInv, Gen
  <2> QED BY <1>1, <2>1 DEF WinInv
<1>11. SizeInv'
  BY <1>1, <1>2, SizeKeeps
<1>12. SampleInv'
  <2>1. CASE Av1OutputError
    BY <2>1, NoSample DEF Av1OutputError
  <2>2. CASE Av1Emit
    <3>1. out' = Sample(Head(e.ready), dim, depth)
      BY <1>3, <2>2 DEF Av1Emit
    <3>2. out'.fresh
      BY <1>5, <3>1 DEF Sample, Av1Fresh
    <3> QED BY <1>7, <3>2 DEF SampleInv, EmittedAsNegotiated, EmittedFresh
  <2> QED BY <2>1, <2>2
<1> QED BY <1>8, <1>9, <1>10, <1>11, <1>12 DEF MInv

\* Every step keeps the invariant.
LEMMA MNext == MInv /\ [Next]_vars => MInv'
<1> SUFFICES ASSUME MInv, [Next]_vars PROVE MInv'
  OBVIOUS
<1>1. CASE Negotiate
  BY <1>1, MNegotiate
<1>2. CASE ProcessMessage
  BY <1>2, MMessage
<1>3. CASE ProcessInput
  BY <1>3, MInput
<1>4. CASE ProcessOutput
  BY <1>4, MGenOutput, MVp9Output, MAv1Output DEF ProcessOutput
<1>5. CASE UNCHANGED vars
  <2>1. UNCHANGED <<typeVars, kind, outType, retyped, count, out, depth, eng, erred, outq, win, streaming, epoch>>
    BY <1>5 DEF vars, typeVars, msgVars
  <2>2. Quiet
    BY <2>1 DEF Quiet, MInv, StateInv
  <2>3. SizeInv'
    BY <2>1, SizeKeeps DEF MInv
  <2>4. SampleInv'
    BY <2>1 DEF MInv, SampleInv, EmittedAsNegotiated, EmittedFresh, Gen
  <2> QED BY <2>2, <2>3, <2>4, QuietKeeps DEF MInv
<1> QED BY <1>1, <1>2, <1>3, <1>4, <1>5 DEF Next

LEMMA MAlways == Spec => []MInv
<1>1. Init => MInv
  BY MInit
<1>2. MInv /\ [Next]_vars => MInv'
  BY MNext
<1> QED BY <1>1, <1>2, PTL DEF Spec

-----------------------------------------------------------------------------
\* Theorems.

\* However FLUSHes fall into the steps of a Submit, the only sample from an input given before the
\* last FLUSH is an IRAP picture whose epoch had not been read yet: the tag stamped on each H.264 /
\* H.265 frame and the IRAP gate keep everything else back, and the other codecs empty their queues
\* under lock_ (decoder_mft.cpp:1083-1098, 1589-1593, 2334; decode_engine.cpp:1230-1242).
THEOREM FreshAfterFlush == Spec => []EmittedFresh
<1>1. MInv => EmittedFresh
  BY DEF MInv, SampleInv
<1> QED BY <1>1, MAlways, PTL

\* A VP9 sample has the subtype of the output type, and its size unless the input type was set
\* again since (decoder_mft.cpp:1866-1914).
THEOREM NegotiatedFormat == Spec => []EmittedAsNegotiated
<1>1. MInv => EmittedAsNegotiated
  BY DEF MInv, SampleInv
<1> QED BY <1>1, MAlways, PTL

\* As long as no ProcessOutput has failed, the slots held are exactly those of the queued frames,
\* across FLUSHes in the middle of a decode, skipped and dropped frames, drains and spills; VP9
\* holds none between two calls (decoder_mft.cpp:2089, 2301, 1461).
THEOREM SlotsAccounted == Spec => []HoldsAccounted
<1>1. MInv => HoldsAccounted
  <2> SUFFICES ASSUME MInv, eng # None
               PROVE  /\ Gen /\ ~erred => eng.held = GenQueueDepth(eng)
                      /\ kind = "VP9" => eng.inUse = {}
    BY DEF HoldsAccounted
  <2>1. kind = "VP9" => eng.inUse = {}
    BY DEF MInv, EngineInv
  <2>2. ASSUME Gen, ~erred PROVE eng.held = GenQueueDepth(eng)
    <3>1. GenSafe(GenFrames, 0, eng)
      BY <2>2 DEF MInv, EngineInv, GenHolds
    <3>2. PICK a \in Nat, c \in Nat : a = Len(eng.reorder) /\ c = Len(eng.ready)
      BY <3>1 DEF GenSafe, GenType
    <3> QED BY <3>1, <3>2 DEF GenSafe, GenQueueDepth
  <2> QED BY <2>1, <2>2
<1> QED BY <1>1, MAlways, PTL

\* The reorder depth leaves one slot of the pool for the cap (decode_engine.cpp:1368-1369).
Roomy == GenReorder < GenPool - 1

LEMMA MaxOfTwo ==
    ASSUME NEW a \in Nat, NEW b \in Nat
    PROVE  Max({a, b}) \in Nat /\ a <= Max({a, b})
<1>1. \E x \in {a, b} : \A y \in {a, b} : x >= y
  <2>1. CASE a >= b
    BY <2>1
  <2>2. CASE ~(a >= b)
    BY <2>2
  <2> QED BY <2>1, <2>2
<1>2. PICK x : x = Max({a, b}) /\ x \in {a, b} /\ \A y \in {a, b} : x >= y
  BY <1>1 DEF Max
<1> QED BY <1>2

\* A stream whose reorder depth fits under the cap of the pool never has input refused without a
\* frame ready for ProcessOutput (decoder_mft.cpp:1266-1276, 1479; decode_engine.cpp:1362-1371).
THEOREM InputOrOutput == Roomy => (Spec => []NoStall)
<1>1. ASSUME Roomy, MInv PROVE NoStall
  <2> SUFFICES ASSUME eng # None, kind # "VP9", ~GetInputStatus, eng.ready = <<>> PROVE FALSE
    BY DEF NoStall
  <2>1. Len(<< >>) = 0
    OBVIOUS
  <2>2. CASE Gen
    <3>1. PICK n \in Nat : GenSafe(GenFrames, n, eng)
      BY <1>1, <2>2 DEF MInv, EngineInv, GenHolds
    <3>2. PICK m \in {0, GenReorder} : m = eng.max
      BY <3>1 DEF GenSafe, GenType
    <3>3. PICK a \in Nat : a = Len(eng.reorder) /\ a <= m
      BY <3>1, <3>2 DEF GenSafe, GenType
    <3>4. GenQueueDepth(eng) = a
      BY <2>1, <3>3 DEF GenQueueDepth
    <3>5. GenReorder \in Nat /\ MinCap \in Nat /\ GenPool \in Nat /\ GenReorder < GenPool - 1
      BY <1>1, MftAssumption DEF Roomy
    <3>6. PICK p \in Nat : p = GenPool - 1 /\ a < p
      BY <3>2, <3>3, <3>5
    <3>7. PICK k \in Nat : k = Max({m + 1, MinCap}) /\ a < k
      <4>1. m + 1 \in Nat
        BY <3>2, <3>5
      <4>2. Max({m + 1, MinCap}) \in Nat /\ m + 1 <= Max({m + 1, MinCap})
        BY <3>5, <4>1, MaxOfTwo
      <4>3. m \in Nat
        BY <3>2, <3>5
      <4> QED BY <3>3, <4>2, <4>3
    <3>8. Min({k, p}) \in {k, p}
      <4>1. {k, p} \in SUBSET Nat /\ {k, p} # {}
        OBVIOUS
      <4> QED BY <4>1, MinIn
    <3>9. InputQueueCapacity(eng) \in {k, p}
      BY <3>2, <3>6, <3>7, <3>8 DEF InputQueueCapacity
    <3>10. a < InputQueueCapacity(eng)
      BY <3>6, <3>7, <3>9
    <3>11. kind # "AV1"
      BY <2>2 DEF Gen
    <3> QED BY <3>4, <3>10, <3>11 DEF GetInputStatus
  <2>3. CASE kind = "AV1"
    <3>1. Av1Safe(Av1Fresh, eng)
      BY <1>1, <2>3 DEF MInv, EngineInv
    <3>2. PICK a \in Nat : a = Len(eng.reorder) /\ a <= Av1Reorder
      BY <3>1 DEF Av1Safe, Av1EngineType
    <3>3. Av1QueueDepth(eng) = a
      BY <2>1, <3>2 DEF Av1QueueDepth
    <3>4. a < Av1Cap
      BY <3>2, Av1OpsAssumption
    <3> QED BY <2>3, <3>3, <3>4 DEF GetInputStatus, Gen
  <2> QED BY <1>1, <2>2, <2>3, MftAssumption DEF MInv, StateInv, Gen
<1> SUFFICES ASSUME Roomy PROVE Spec => []NoStall
  OBVIOUS
<1>2. MInv => NoStall
  BY <1>1
<1>3. Spec => []MInv
  BY MAlways
<1> QED BY <1>2, <1>3, PTL

\* A VP9 or AV1 kick reads only pictures the stream last stored in the slot named, unless a
\* picture was lost without the firebreak (decode_engine_vp9.cpp:37-56, 239-246, 451, 544;
\* decode_engine_av1.cpp:1251-1262, 1598).
THEOREM KicksReadFresh == Spec => []RefsFresh
<1>1. MInv => RefsFresh
  <2> SUFFICES ASSUME MInv, eng # None, ~Gen PROVE eng.refOk \/ eng.gap
    BY DEF RefsFresh
  <2>1. CASE kind = "VP9"
    BY <2>1 DEF MInv, EngineInv, Vp9Safe
  <2>2. CASE kind = "AV1"
    BY <2>2 DEF MInv, EngineInv, Av1Safe
  <2> QED BY <2>1, <2>2, MftAssumption DEF MInv, StateInv, Gen
<1> QED BY <1>1, MAlways, PTL

\* A VP9 kick never loads a probability context that a failed kick may have left half written
\* (decode_engine_vp9.cpp:445-448, regbuilder_vp9.cpp:566-583).
THEOREM ContextsClean == Spec => []CtxClean
<1>1. MInv => CtxClean
  BY DEF MInv, EngineInv, Vp9Safe, CtxClean
<1> QED BY <1>1, MAlways, PTL
=============================================================================
