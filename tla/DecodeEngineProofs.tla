------------------------- MODULE DecodeEngineProofs -------------------------
(***************************************************************************)
(* Proofs about DecodeEngine: the hold protocol of the picture pool.       *)
(***************************************************************************)
EXTENDS DecodeEngine, FiniteSetTheorems, TLAPS

-----------------------------------------------------------------------------
\* Least and greatest numbers.

LEMMA LeastNat ==
    ASSUME NEW S \in SUBSET Nat, S # {}
    PROVE  \E x \in S : \A y \in S : x <= y
<1>1. PICK x \in S : \A y \in S : ~ (<<y, x>> \in OpToRel(<, Nat))
  BY NatLessThanWellFounded, WFMin
<1>2. \A y \in S : ~ (y < x)
  BY <1>1 DEF OpToRel
<1> QED BY <1>2

LEMMA MinIn ==
    ASSUME NEW S \in SUBSET Nat, S # {}
    PROVE  Min(S) \in S
BY LeastNat DEF Min

LEMMA MaxIn ==
    ASSUME NEW n \in Nat, NEW s \in SUBSET (1 .. n), s # {}
    PROVE  Max(s) \in s /\ \A y \in s : y <= Max(s)
<1> DEFINE T == {n - x : x \in s}
<1>1. T \in SUBSET Nat /\ T # {}
  <2>1. \A x \in s : n - x \in Nat
    OBVIOUS
  <2> QED BY <2>1
<1>2. PICK t \in T : \A u \in T : t <= u
  BY <1>1, LeastNat
<1>3. PICK x \in s : t = n - x
  BY <1>2
<1>4. \A y \in s : x >= y
  <2> TAKE y \in s
  <2>1. n - y \in T
    OBVIOUS
  <2> QED BY <1>2, <1>3, <2>1
<1>5. \E m \in s : \A y \in s : m >= y
  BY <1>4
<1>6. Max(s) \in s /\ \A y \in s : Max(s) >= y
  BY <1>5 DEF Max
<1> QED BY <1>6

\* The greatest number of 1 .. n is n.
LEMMA MaxUpto ==
    ASSUME NEW n \in Nat \ {0}
    PROVE  Max(1 .. n) = n /\ (1 .. n) \ {n} = 1 .. n - 1
<1>1. (1 .. n) \in SUBSET (1 .. n) /\ 1 .. n # {} /\ n \in Nat
  OBVIOUS
<1>2. Max(1 .. n) \in 1 .. n /\ \A y \in 1 .. n : y <= Max(1 .. n)
  BY ONLY <1>1, MaxIn
<1> QED BY <1>2

-----------------------------------------------------------------------------
\* Removing an entry of a queue.

LEMMA RemoveFacts ==
    ASSUME NEW F, NEW s \in Seq(F), NEW i \in 1 .. Len(s)
    PROVE  RemoveAt(s, i) \in Seq(F) /\ Len(RemoveAt(s, i)) = Len(s) - 1
<1> DEFINE a == SubSeq(s, 1, i - 1)
           b == SubSeq(s, i + 1, Len(s))
<1>1. a \in Seq(F) /\ Len(a) = i - 1
  OBVIOUS
<1>2. b \in Seq(F) /\ Len(b) = Len(s) - i
  OBVIOUS
<1>3. \A u, v \in Seq(F) : u \o v \in Seq(F) /\ Len(u \o v) = Len(u) + Len(v)
  OBVIOUS
<1>4. RemoveAt(s, i) = a \o b
  BY DEF RemoveAt
<1> HIDE DEF a, b
<1>5. RemoveAt(s, i) \in Seq(F) /\ Len(RemoveAt(s, i)) = Len(a) + Len(b)
  BY ONLY <1>1, <1>2, <1>3, <1>4, Zenon
<1>6. \A x, y \in Nat : x - 1 + (y - x) = y - 1
  OBVIOUS
<1>7. Len(s) \in Nat /\ i \in Nat
  OBVIOUS
<1>8. Len(a) + Len(b) = i - 1 + (Len(s) - i)
  BY ONLY <1>1, <1>2
<1> QED BY ONLY <1>5, <1>6, <1>7, <1>8

-----------------------------------------------------------------------------
\* The folds of the model as chains of steps.
\* Folds over 1 .. n go through its subsets by cardinality.
Upto(n, k) == {s \in SUBSET (1 .. n) : Cardinality(s) <= k}

LEMMA UptoFacts ==
    ASSUME NEW n \in Nat
    PROVE  /\ Upto(n, 0) = {{}} /\ Upto(n, n) = SUBSET (1 .. n)
           /\ \A k \in Nat : \A s \in Upto(n, k) : s = {} \/ (k # 0 /\ s \ {Max(s)} \in Upto(n, k - 1))
           /\ \A k \in Nat : \A s \in Upto(n, k + 1) : s \in Upto(n, k) \/ Cardinality(s) = k + 1
           /\ \A k \in Nat : \A s \in Upto(n, k) : s \in Upto(n, k + 1) /\ Cardinality(s) # k + 1
<1>1. IsFiniteSet(1 .. n) /\ Cardinality(1 .. n) = n
  BY FS_Interval
<1>2. ASSUME NEW s \in SUBSET (1 .. n)
      PROVE  IsFiniteSet(s) /\ Cardinality(s) \in Nat /\ Cardinality(s) <= n /\ (Cardinality(s) = 0 => s = {})
  <2>1. IsFiniteSet(s) /\ Cardinality(s) <= n
    BY <1>1, FS_Subset
  <2> QED BY <2>1, FS_CardinalityType, FS_EmptySet
<1>3. \A s \in SUBSET (1 .. n) : s # {} => Cardinality(s \ {Max(s)}) = Cardinality(s) - 1
  BY <1>2, MaxIn, FS_RemoveElement
<1>4. Cardinality({}) = 0
  BY FS_EmptySet
<1>5. Upto(n, 0) = {{}}
  BY <1>2, <1>4 DEF Upto
<1>6. Upto(n, n) = SUBSET (1 .. n)
  BY <1>2 DEF Upto
<1>7. ASSUME NEW k \in Nat, NEW s \in Upto(n, k), s # {}
      PROVE  k # 0 /\ s \ {Max(s)} \in Upto(n, k - 1)
  <2>1. s \in SUBSET (1 .. n) /\ Cardinality(s) <= k
    BY DEF Upto
  <2>2. Cardinality(s) \in Nat \ {0} /\ Cardinality(s \ {Max(s)}) = Cardinality(s) - 1
    BY <1>2, <1>3, <1>7, <2>1
  <2>3. s \ {Max(s)} \in SUBSET (1 .. n)
    BY <2>1
  <2>4. Cardinality(s \ {Max(s)}) <= k - 1 /\ k # 0
    BY <2>1, <2>2
  <2> QED BY <2>3, <2>4 DEF Upto
<1>8. \A k \in Nat : \A s \in Upto(n, k + 1) : s \in Upto(n, k) \/ Cardinality(s) = k + 1
  BY <1>2 DEF Upto
<1>9. \A k \in Nat : \A s \in Upto(n, k) : s \in Upto(n, k + 1) /\ Cardinality(s) # k + 1
  BY <1>2 DEF Upto
<1> QED BY <1>5, <1>6, <1>7, <1>8, <1>9


\* Bump is BumpLowest, n times.
BumpOne(x, k) == BumpLowest(x)
BumpStep(x0, g, s) == IF s = {} THEN x0 ELSE BumpOne(g[s \ {Max(s)}], Max(s))
IsBump(x0, g, D) == g = [s \in D |-> BumpStep(x0, g, s)]

LEMMA BumpExists ==
    ASSUME NEW x0, NEW n \in Nat
    PROVE  \E g : IsBump(x0, g, SUBSET (1 .. n))
<1> DEFINE P(k) == \E g : IsBump(x0, g, Upto(n, k))
           Bad  == {k \in Nat : ~ P(k)}
<1>1. P(0)
  <2> DEFINE g == [s \in Upto(n, 0) |-> x0]
  <2>1. IsBump(x0, g, Upto(n, 0))
    BY UptoFacts DEF IsBump, BumpStep
  <2> QED BY <2>1
<1>2. ASSUME NEW k \in Nat, P(k) PROVE P(k + 1)
  <2>1. PICK h : IsBump(x0, h, Upto(n, k))
    BY <1>2
  <2> DEFINE g == [s \in Upto(n, k + 1) |->
                      IF Cardinality(s) = k + 1 THEN BumpStep(x0, h, s) ELSE h[s]]
  <2>2. \A s \in Upto(n, k) : s \in Upto(n, k + 1) /\ g[s] = h[s]
    BY UptoFacts
  <2>3. ASSUME NEW s \in Upto(n, k + 1) PROVE g[s] = BumpStep(x0, g, s)
    <3>1. s = {} \/ s \ {Max(s)} \in Upto(n, k)
      <4>1. k + 1 \in Nat /\ k + 1 - 1 = k
        OBVIOUS
      <4>2. \A j \in Nat : \A r \in Upto(n, j) : r = {} \/ (j # 0 /\ r \ {Max(r)} \in Upto(n, j - 1))
        BY UptoFacts
      <4>3. s = {} \/ s \ {Max(s)} \in Upto(n, k + 1 - 1)
        BY <4>1, <4>2
      <4> QED BY <4>1, <4>3
    <3>2. BumpStep(x0, g, s) = BumpStep(x0, h, s)
      BY <2>2, <3>1 DEF BumpStep
    <3>3. s \in Upto(n, k) => h[s] = BumpStep(x0, h, s)
      BY <2>1 DEF IsBump
    <3> QED BY <3>2, <3>3, UptoFacts
  <2>4. IsBump(x0, g, Upto(n, k + 1))
    BY <2>3 DEF IsBump
  <2> QED BY <2>4
<1> HIDE DEF P
<1>3. \A k \in Nat : P(k)
  <2> SUFFICES ASSUME Bad # {} PROVE FALSE
    OBVIOUS
  <2>1. PICK k \in Bad : \A m \in Bad : k <= m
    BY LeastNat
  <2>2. k # 0 /\ k - 1 \in Nat /\ k - 1 \notin Bad /\ k = (k - 1) + 1
    BY <1>1, <2>1
  <2> QED BY <1>2, <2>1, <2>2
<1>4. P(n)
  BY <1>3
<1>5. \E g : IsBump(x0, g, Upto(n, n))
  BY <1>4 DEF P
<1>6. Upto(n, n) = SUBSET (1 .. n)
  BY UptoFacts
<1> QED BY <1>5, <1>6

LEMMA BumpChain ==
    ASSUME NEW x0, NEW n \in Nat
    PROVE  \E c : /\ c[0] = x0 /\ Bump(x0, n) = c[n]
                 /\ \A k \in 1 .. n : c[k] = BumpOne(c[k - 1], k)
<1> DEFINE G == CHOOSE g : g = [s \in SUBSET (1 .. n) |-> BumpStep(x0, g, s)]
<1>1. G = [s \in SUBSET (1 .. n) |-> BumpStep(x0, G, s)]
  <2>1. \E g : g = [s \in SUBSET (1 .. n) |-> BumpStep(x0, g, s)]
    <3>1. \E g : IsBump(x0, g, SUBSET (1 .. n))
      BY BumpExists
    <3> QED BY <3>1 DEF IsBump
  <2> QED BY <2>1
<1>2. Bump(x0, n) = G[1 .. n]
  <2>1. DOMAIN [k \in 1 .. n |-> k] = 1 .. n
    OBVIOUS
  <2> QED BY <2>1 DEF FoldLeft, MapThenFoldSet, BumpStep, BumpOne, Bump
<1>3. \A s \in SUBSET (1 .. n) : G[s] = BumpStep(x0, G, s)
  BY <1>1
<1> HIDE DEF G
<1> DEFINE c == [k \in 0 .. n |-> G[1 .. k]]
<1>4. c[0] = x0
  <2>1. 1 .. 0 = {} /\ {} \in SUBSET (1 .. n) /\ 0 \in 0 .. n
    OBVIOUS
  <2> QED BY <1>3, <2>1 DEF BumpStep
<1>5. ASSUME NEW k \in 1 .. n PROVE c[k] = BumpOne(c[k - 1], k)
  <2>1. k \in Nat \ {0} /\ 1 .. k \in SUBSET (1 .. n) /\ 1 .. k # {} /\ k \in 0 .. n /\ k - 1 \in 0 .. n
    OBVIOUS
  <2>2. Max(1 .. k) = k /\ (1 .. k) \ {k} = 1 .. k - 1
    BY <2>1, MaxUpto
  <2>3. G[1 .. k] = BumpStep(x0, G, 1 .. k)
    BY <1>3, <2>1
  <2> QED BY <2>1, <2>2, <2>3 DEF BumpStep
<1>6. n \in 0 .. n /\ c[n] = G[1 .. n]
  OBVIOUS
<1> QED BY <1>2, <1>4, <1>5, <1>6

\* The folds, named.
Evicted(x0, x) == FoldLeft(LAMBDA acc, k : EvictOldest(acc), x0, [k \in 1 .. x |-> k])
Marked(x0, cur, ms) == FoldLeft(LAMBDA acc, m : ApplyMmco(acc, cur, m), x0, ms)
Unheld(x0, q, why) == FoldLeft(LAMBDA acc, x : ReleaseHold(acc, x.slot, why), x0, q)

\* The sliding window is EvictOldest, as often as there are references too many.
EvictOne(x, k) == EvictOldest(x)
EvictStep(x0, g, s) == IF s = {} THEN x0 ELSE EvictOne(g[s \ {Max(s)}], Max(s))
IsEvict(x0, g, D) == g = [s \in D |-> EvictStep(x0, g, s)]

LEMMA EvictExists ==
    ASSUME NEW x0, NEW n \in Nat
    PROVE  \E g : IsEvict(x0, g, SUBSET (1 .. n))
<1> DEFINE P(k) == \E g : IsEvict(x0, g, Upto(n, k))
           Bad  == {k \in Nat : ~ P(k)}
<1>1. P(0)
  <2> DEFINE g == [s \in Upto(n, 0) |-> x0]
  <2>1. IsEvict(x0, g, Upto(n, 0))
    BY UptoFacts DEF IsEvict, EvictStep
  <2> QED BY <2>1
<1>2. ASSUME NEW k \in Nat, P(k) PROVE P(k + 1)
  <2>1. PICK h : IsEvict(x0, h, Upto(n, k))
    BY <1>2
  <2> DEFINE g == [s \in Upto(n, k + 1) |->
                      IF Cardinality(s) = k + 1 THEN EvictStep(x0, h, s) ELSE h[s]]
  <2>2. \A s \in Upto(n, k) : s \in Upto(n, k + 1) /\ g[s] = h[s]
    BY UptoFacts
  <2>3. ASSUME NEW s \in Upto(n, k + 1) PROVE g[s] = EvictStep(x0, g, s)
    <3>1. s = {} \/ s \ {Max(s)} \in Upto(n, k)
      <4>1. k + 1 \in Nat /\ k + 1 - 1 = k
        OBVIOUS
      <4>2. \A j \in Nat : \A r \in Upto(n, j) : r = {} \/ (j # 0 /\ r \ {Max(r)} \in Upto(n, j - 1))
        BY UptoFacts
      <4>3. s = {} \/ s \ {Max(s)} \in Upto(n, k + 1 - 1)
        BY <4>1, <4>2
      <4> QED BY <4>1, <4>3
    <3>2. EvictStep(x0, g, s) = EvictStep(x0, h, s)
      BY <2>2, <3>1 DEF EvictStep
    <3>3. s \in Upto(n, k) => h[s] = EvictStep(x0, h, s)
      BY <2>1 DEF IsEvict
    <3> QED BY <3>2, <3>3, UptoFacts
  <2>4. IsEvict(x0, g, Upto(n, k + 1))
    BY <2>3 DEF IsEvict
  <2> QED BY <2>4
<1> HIDE DEF P
<1>3. \A k \in Nat : P(k)
  <2> SUFFICES ASSUME Bad # {} PROVE FALSE
    OBVIOUS
  <2>1. PICK k \in Bad : \A m \in Bad : k <= m
    BY LeastNat
  <2>2. k # 0 /\ k - 1 \in Nat /\ k - 1 \notin Bad /\ k = (k - 1) + 1
    BY <1>1, <2>1
  <2> QED BY <1>2, <2>1, <2>2
<1>4. P(n)
  BY <1>3
<1>5. \E g : IsEvict(x0, g, Upto(n, n))
  BY <1>4 DEF P
<1>6. Upto(n, n) = SUBSET (1 .. n)
  BY UptoFacts
<1> QED BY <1>5, <1>6

LEMMA EvictChain ==
    ASSUME NEW x0, NEW n \in Nat, NEW x, 1 .. x = 1 .. n
    PROVE  \E c : /\ c[0] = x0 /\ Evicted(x0, x) = c[n]
                 /\ \A k \in 1 .. n : c[k] = EvictOne(c[k - 1], k)
<1> DEFINE G == CHOOSE g : g = [s \in SUBSET (1 .. n) |-> EvictStep(x0, g, s)]
<1>1. G = [s \in SUBSET (1 .. n) |-> EvictStep(x0, G, s)]
  <2>1. \E g : g = [s \in SUBSET (1 .. n) |-> EvictStep(x0, g, s)]
    <3>1. \E g : IsEvict(x0, g, SUBSET (1 .. n))
      BY EvictExists
    <3> QED BY <3>1 DEF IsEvict
  <2> QED BY <2>1
<1>2. Evicted(x0, x) = G[1 .. n]
  <2>1. DOMAIN [k \in 1 .. x |-> k] = 1 .. n
    OBVIOUS
  <2> QED BY <2>1 DEF FoldLeft, MapThenFoldSet, EvictStep, EvictOne, Evicted
<1>3. \A s \in SUBSET (1 .. n) : G[s] = EvictStep(x0, G, s)
  BY <1>1
<1> HIDE DEF G
<1> DEFINE c == [k \in 0 .. n |-> G[1 .. k]]
<1>4. c[0] = x0
  <2>1. 1 .. 0 = {} /\ {} \in SUBSET (1 .. n) /\ 0 \in 0 .. n
    OBVIOUS
  <2> QED BY <1>3, <2>1 DEF EvictStep
<1>5. ASSUME NEW k \in 1 .. n PROVE c[k] = EvictOne(c[k - 1], k)
  <2>1. k \in Nat \ {0} /\ 1 .. k \in SUBSET (1 .. n) /\ 1 .. k # {} /\ k \in 0 .. n /\ k - 1 \in 0 .. n
    OBVIOUS
  <2>2. Max(1 .. k) = k /\ (1 .. k) \ {k} = 1 .. k - 1
    BY <2>1, MaxUpto
  <2>3. G[1 .. k] = EvictStep(x0, G, 1 .. k)
    BY <1>3, <2>1
  <2> QED BY <2>1, <2>2, <2>3 DEF EvictStep
<1>6. n \in 0 .. n /\ c[n] = G[1 .. n]
  OBVIOUS
<1> QED BY <1>2, <1>4, <1>5, <1>6

\* The marking operations of a picture, one after the other.
MarksOne(cur, ms, x, k) == ApplyMmco(x, cur, ms[k])
MarksStep(x0, cur, ms, g, s) == IF s = {} THEN x0 ELSE MarksOne(cur, ms, g[s \ {Max(s)}], Max(s))
IsMarks(x0, cur, ms, g, D) == g = [s \in D |-> MarksStep(x0, cur, ms, g, s)]

LEMMA MarksExists ==
    ASSUME NEW x0, NEW cur, NEW ms, NEW n \in Nat
    PROVE  \E g : IsMarks(x0, cur, ms, g, SUBSET (1 .. n))
<1> DEFINE P(k) == \E g : IsMarks(x0, cur, ms, g, Upto(n, k))
           Bad  == {k \in Nat : ~ P(k)}
<1>1. P(0)
  <2> DEFINE g == [s \in Upto(n, 0) |-> x0]
  <2>1. IsMarks(x0, cur, ms, g, Upto(n, 0))
    BY UptoFacts DEF IsMarks, MarksStep
  <2> QED BY <2>1
<1>2. ASSUME NEW k \in Nat, P(k) PROVE P(k + 1)
  <2>1. PICK h : IsMarks(x0, cur, ms, h, Upto(n, k))
    BY <1>2
  <2> DEFINE g == [s \in Upto(n, k + 1) |->
                      IF Cardinality(s) = k + 1 THEN MarksStep(x0, cur, ms, h, s) ELSE h[s]]
  <2>2. \A s \in Upto(n, k) : s \in Upto(n, k + 1) /\ g[s] = h[s]
    BY UptoFacts
  <2>3. ASSUME NEW s \in Upto(n, k + 1) PROVE g[s] = MarksStep(x0, cur, ms, g, s)
    <3>1. s = {} \/ s \ {Max(s)} \in Upto(n, k)
      <4>1. k + 1 \in Nat /\ k + 1 - 1 = k
        OBVIOUS
      <4>2. \A j \in Nat : \A r \in Upto(n, j) : r = {} \/ (j # 0 /\ r \ {Max(r)} \in Upto(n, j - 1))
        BY UptoFacts
      <4>3. s = {} \/ s \ {Max(s)} \in Upto(n, k + 1 - 1)
        BY <4>1, <4>2
      <4> QED BY <4>1, <4>3
    <3>2. MarksStep(x0, cur, ms, g, s) = MarksStep(x0, cur, ms, h, s)
      BY <2>2, <3>1 DEF MarksStep
    <3>3. s \in Upto(n, k) => h[s] = MarksStep(x0, cur, ms, h, s)
      BY <2>1 DEF IsMarks
    <3> QED BY <3>2, <3>3, UptoFacts
  <2>4. IsMarks(x0, cur, ms, g, Upto(n, k + 1))
    BY <2>3 DEF IsMarks
  <2> QED BY <2>4
<1> HIDE DEF P
<1>3. \A k \in Nat : P(k)
  <2> SUFFICES ASSUME Bad # {} PROVE FALSE
    OBVIOUS
  <2>1. PICK k \in Bad : \A m \in Bad : k <= m
    BY LeastNat
  <2>2. k # 0 /\ k - 1 \in Nat /\ k - 1 \notin Bad /\ k = (k - 1) + 1
    BY <1>1, <2>1
  <2> QED BY <1>2, <2>1, <2>2
<1>4. P(n)
  BY <1>3
<1>5. \E g : IsMarks(x0, cur, ms, g, Upto(n, n))
  BY <1>4 DEF P
<1>6. Upto(n, n) = SUBSET (1 .. n)
  BY UptoFacts
<1> QED BY <1>5, <1>6

LEMMA MarksChain ==
    ASSUME NEW x0, NEW cur, NEW ms, NEW n \in Nat, DOMAIN ms = 1 .. n
    PROVE  \E c : /\ c[0] = x0 /\ Marked(x0, cur, ms) = c[n]
                 /\ \A k \in 1 .. n : c[k] = MarksOne(cur, ms, c[k - 1], k)
<1> DEFINE G == CHOOSE g : g = [s \in SUBSET (1 .. n) |-> MarksStep(x0, cur, ms, g, s)]
<1>1. G = [s \in SUBSET (1 .. n) |-> MarksStep(x0, cur, ms, G, s)]
  <2>1. \E g : g = [s \in SUBSET (1 .. n) |-> MarksStep(x0, cur, ms, g, s)]
    <3>1. \E g : IsMarks(x0, cur, ms, g, SUBSET (1 .. n))
      BY MarksExists
    <3> QED BY <3>1 DEF IsMarks
  <2> QED BY <2>1
<1>2. Marked(x0, cur, ms) = G[1 .. n]
  <2>1. DOMAIN ms = 1 .. n
    OBVIOUS
  <2> QED BY <2>1 DEF FoldLeft, MapThenFoldSet, MarksStep, MarksOne, Marked
<1>3. \A s \in SUBSET (1 .. n) : G[s] = MarksStep(x0, cur, ms, G, s)
  BY <1>1
<1> HIDE DEF G
<1> DEFINE c == [k \in 0 .. n |-> G[1 .. k]]
<1>4. c[0] = x0
  <2>1. 1 .. 0 = {} /\ {} \in SUBSET (1 .. n) /\ 0 \in 0 .. n
    OBVIOUS
  <2> QED BY <1>3, <2>1 DEF MarksStep
<1>5. ASSUME NEW k \in 1 .. n PROVE c[k] = MarksOne(cur, ms, c[k - 1], k)
  <2>1. k \in Nat \ {0} /\ 1 .. k \in SUBSET (1 .. n) /\ 1 .. k # {} /\ k \in 0 .. n /\ k - 1 \in 0 .. n
    OBVIOUS
  <2>2. Max(1 .. k) = k /\ (1 .. k) \ {k} = 1 .. k - 1
    BY <2>1, MaxUpto
  <2>3. G[1 .. k] = MarksStep(x0, cur, ms, G, 1 .. k)
    BY <1>3, <2>1
  <2> QED BY <2>1, <2>2, <2>3 DEF MarksStep
<1>6. n \in 0 .. n /\ c[n] = G[1 .. n]
  OBVIOUS
<1> QED BY <1>2, <1>4, <1>5, <1>6

\* Flush releases the entries of a queue one after the other.
ReleaseOne(q, why, x, k) == ReleaseHold(x, q[k].slot, why)
ReleaseStep(x0, q, why, g, s) == IF s = {} THEN x0 ELSE ReleaseOne(q, why, g[s \ {Max(s)}], Max(s))
IsRelease(x0, q, why, g, D) == g = [s \in D |-> ReleaseStep(x0, q, why, g, s)]

LEMMA ReleaseExists ==
    ASSUME NEW x0, NEW q, NEW why, NEW n \in Nat
    PROVE  \E g : IsRelease(x0, q, why, g, SUBSET (1 .. n))
<1> DEFINE P(k) == \E g : IsRelease(x0, q, why, g, Upto(n, k))
           Bad  == {k \in Nat : ~ P(k)}
<1>1. P(0)
  <2> DEFINE g == [s \in Upto(n, 0) |-> x0]
  <2>1. IsRelease(x0, q, why, g, Upto(n, 0))
    BY UptoFacts DEF IsRelease, ReleaseStep
  <2> QED BY <2>1
<1>2. ASSUME NEW k \in Nat, P(k) PROVE P(k + 1)
  <2>1. PICK h : IsRelease(x0, q, why, h, Upto(n, k))
    BY <1>2
  <2> DEFINE g == [s \in Upto(n, k + 1) |->
                      IF Cardinality(s) = k + 1 THEN ReleaseStep(x0, q, why, h, s) ELSE h[s]]
  <2>2. \A s \in Upto(n, k) : s \in Upto(n, k + 1) /\ g[s] = h[s]
    BY UptoFacts
  <2>3. ASSUME NEW s \in Upto(n, k + 1) PROVE g[s] = ReleaseStep(x0, q, why, g, s)
    <3>1. s = {} \/ s \ {Max(s)} \in Upto(n, k)
      <4>1. k + 1 \in Nat /\ k + 1 - 1 = k
        OBVIOUS
      <4>2. \A j \in Nat : \A r \in Upto(n, j) : r = {} \/ (j # 0 /\ r \ {Max(r)} \in Upto(n, j - 1))
        BY UptoFacts
      <4>3. s = {} \/ s \ {Max(s)} \in Upto(n, k + 1 - 1)
        BY <4>1, <4>2
      <4> QED BY <4>1, <4>3
    <3>2. ReleaseStep(x0, q, why, g, s) = ReleaseStep(x0, q, why, h, s)
      BY <2>2, <3>1 DEF ReleaseStep
    <3>3. s \in Upto(n, k) => h[s] = ReleaseStep(x0, q, why, h, s)
      BY <2>1 DEF IsRelease
    <3> QED BY <3>2, <3>3, UptoFacts
  <2>4. IsRelease(x0, q, why, g, Upto(n, k + 1))
    BY <2>3 DEF IsRelease
  <2> QED BY <2>4
<1> HIDE DEF P
<1>3. \A k \in Nat : P(k)
  <2> SUFFICES ASSUME Bad # {} PROVE FALSE
    OBVIOUS
  <2>1. PICK k \in Bad : \A m \in Bad : k <= m
    BY LeastNat
  <2>2. k # 0 /\ k - 1 \in Nat /\ k - 1 \notin Bad /\ k = (k - 1) + 1
    BY <1>1, <2>1
  <2> QED BY <1>2, <2>1, <2>2
<1>4. P(n)
  BY <1>3
<1>5. \E g : IsRelease(x0, q, why, g, Upto(n, n))
  BY <1>4 DEF P
<1>6. Upto(n, n) = SUBSET (1 .. n)
  BY UptoFacts
<1> QED BY <1>5, <1>6

LEMMA ReleaseChain ==
    ASSUME NEW x0, NEW q, NEW why, NEW n \in Nat, DOMAIN q = 1 .. n
    PROVE  \E c : /\ c[0] = x0 /\ Unheld(x0, q, why) = c[n]
                 /\ \A k \in 1 .. n : c[k] = ReleaseOne(q, why, c[k - 1], k)
<1> DEFINE G == CHOOSE g : g = [s \in SUBSET (1 .. n) |-> ReleaseStep(x0, q, why, g, s)]
<1>1. G = [s \in SUBSET (1 .. n) |-> ReleaseStep(x0, q, why, G, s)]
  <2>1. \E g : g = [s \in SUBSET (1 .. n) |-> ReleaseStep(x0, q, why, g, s)]
    <3>1. \E g : IsRelease(x0, q, why, g, SUBSET (1 .. n))
      BY ReleaseExists
    <3> QED BY <3>1 DEF IsRelease
  <2> QED BY <2>1
<1>2. Unheld(x0, q, why) = G[1 .. n]
  <2>1. DOMAIN q = 1 .. n
    OBVIOUS
  <2> QED BY <2>1 DEF FoldLeft, MapThenFoldSet, ReleaseStep, ReleaseOne, Unheld
<1>3. \A s \in SUBSET (1 .. n) : G[s] = ReleaseStep(x0, q, why, G, s)
  BY <1>1
<1> HIDE DEF G
<1> DEFINE c == [k \in 0 .. n |-> G[1 .. k]]
<1>4. c[0] = x0
  <2>1. 1 .. 0 = {} /\ {} \in SUBSET (1 .. n) /\ 0 \in 0 .. n
    OBVIOUS
  <2> QED BY <1>3, <2>1 DEF ReleaseStep
<1>5. ASSUME NEW k \in 1 .. n PROVE c[k] = ReleaseOne(q, why, c[k - 1], k)
  <2>1. k \in Nat \ {0} /\ 1 .. k \in SUBSET (1 .. n) /\ 1 .. k # {} /\ k \in 0 .. n /\ k - 1 \in 0 .. n
    OBVIOUS
  <2>2. Max(1 .. k) = k /\ (1 .. k) \ {k} = 1 .. k - 1
    BY <2>1, MaxUpto
  <2>3. G[1 .. k] = ReleaseStep(x0, q, why, G, 1 .. k)
    BY <1>3, <2>1
  <2> QED BY <2>1, <2>2, <2>3 DEF ReleaseStep
<1>6. n \in 0 .. n /\ c[n] = G[1 .. n]
  OBVIOUS
<1> QED BY <1>2, <1>4, <1>5, <1>6

-----------------------------------------------------------------------------
\* The DPB.

SlotRec == [in_use : BOOLEAN, is_ref : BOOLEAN, long_term : BOOLEAN, frame_num : Int, poc : Int, lt_idx : Int,
            hold : SUBSET Hold, epoch : Nat]

DpbType == [slots : [Slot -> SlotRec], current : Slot \cup {NoSlot}, epoch : Nat, max_refs : Nat, pic_num : Int,
            max_lt : Int, mmco : Seq(Mmco), adaptive : BOOLEAN, trap : {"no", "hold", "tag"}]

\* What the parser delivers for a picture.
Unit == [nal : {"idr", "cra", "p"}, ref : BOOLEAN, lt : BOOLEAN, adaptive : BOOLEAN, mmco : Seq(Mmco),
         frame_num : Int, poc : Nat, keeps : SUBSET Int, id : Nat]

\* c differs from d in its reference marking, not in its holds and epochs.
Keeps(d, c) ==
    /\ c \in DpbType /\ c.trap = d.trap /\ c.epoch = d.epoch /\ c.current = d.current
    /\ \A i \in Slot : c.slots[i].hold = d.slots[i].hold /\ c.slots[i].epoch = d.slots[i].epoch

LEMMA KeepsItself == ASSUME NEW d \in DpbType PROVE Keeps(d, d)
BY DEF Keeps

LEMMA KeepsTrans ==
    ASSUME NEW a, NEW b, NEW c, Keeps(a, b), Keeps(b, c)
    PROVE  Keeps(a, c)
BY DEF Keeps

LEMMA EmptyType == EmptySlot \in SlotRec
<1>1. PICK z \in Int : z = 0
  OBVIOUS
<1>3. PICK y \in Nat : y = 0
  OBVIOUS
<1>4. PICK h \in SUBSET Hold : h = {}
  OBVIOUS
<1>2. EmptySlot = [in_use |-> FALSE, is_ref |-> FALSE, long_term |-> FALSE, frame_num |-> z, poc |-> z, lt_idx |-> z,
                   hold |-> h, epoch |-> y]
  BY <1>1, <1>3, <1>4 DEF EmptySlot
<1> QED BY <1>2 DEF SlotRec

LEMMA ClearKeeps ==
    ASSUME NEW d \in DpbType, NEW S
    PROVE  Keeps(d, SlotClear(d, S))
<1>1. \A i \in Slot : d.slots[i] \in SlotRec
  BY DEF DpbType
<1>2. \A i \in Slot : [EmptySlot EXCEPT !.hold = d.slots[i].hold, !.epoch = d.slots[i].epoch] \in SlotRec
  <2> TAKE i \in Slot
  <2>1. PICK h \in SUBSET Hold, p \in Nat : h = d.slots[i].hold /\ p = d.slots[i].epoch
    BY <1>1 DEF SlotRec
  <2>2. PICK e \in SlotRec : e = EmptySlot
    BY EmptyType
  <2>3. [e EXCEPT !.hold = h, !.epoch = p] \in SlotRec
    BY DEF SlotRec
  <2>4. [EmptySlot EXCEPT !.hold = h, !.epoch = p] \in SlotRec
    BY <2>2, <2>3
  <2> QED BY <2>1, <2>4
<1>3. PICK t \in [Slot -> SlotRec] :
        t = [i \in Slot |-> IF i \in S THEN [EmptySlot EXCEPT !.hold = d.slots[i].hold, !.epoch = d.slots[i].epoch]
                                       ELSE d.slots[i]]
  BY <1>1, <1>2
<1>4. \A i \in Slot : t[i].hold = d.slots[i].hold /\ t[i].epoch = d.slots[i].epoch
  BY <1>1, <1>3 DEF EmptySlot, SlotRec
<1>5. PICK c : c = [d EXCEPT !.slots = t]
  OBVIOUS
<1>6. c = SlotClear(d, S)
  BY <1>3, <1>5 DEF SlotClear
<1>7. c \in DpbType /\ c.slots = t /\ c.trap = d.trap /\ c.epoch = d.epoch /\ c.current = d.current
  BY <1>5 DEF DpbType
<1> QED BY <1>4, <1>6, <1>7 DEF Keeps

\* Changing the marks of one slot.
LEMMA SlotKeeps ==
    ASSUME NEW d \in DpbType, NEW i \in Slot, NEW r \in SlotRec,
           r.hold = d.slots[i].hold, r.epoch = d.slots[i].epoch
    PROVE  Keeps(d, [d EXCEPT !.slots = [@ EXCEPT ![i] = r]])
<1>1. PICK t \in [Slot -> SlotRec] : t = [d.slots EXCEPT ![i] = r]
  BY DEF DpbType
<1>2. \A j \in Slot : t[j].hold = d.slots[j].hold /\ t[j].epoch = d.slots[j].epoch
  BY <1>1 DEF DpbType
<1>3. PICK c : c = [d EXCEPT !.slots = t]
  OBVIOUS
<1>4. c \in DpbType /\ c.slots = t /\ c.trap = d.trap /\ c.epoch = d.epoch /\ c.current = d.current
  BY <1>3 DEF DpbType
<1>5. c = [d EXCEPT !.slots = [@ EXCEPT ![i] = r]]
  BY <1>1, <1>3 DEF DpbType
<1> QED BY <1>2, <1>4, <1>5 DEF Keeps

LEMMA LowestSlot ==
    ASSUME NEW S \in SUBSET Slot
    PROVE  Lowest(S) \in S \/ (S = {} /\ Lowest(S) = NoSlot)
<1>1. Slot \subseteq Nat
  BY PoolAssumption DEF Slot
<1> QED BY <1>1, MinIn DEF Lowest

LEMMA EvictKeeps == ASSUME NEW d \in DpbType PROVE Keeps(d, EvictOldest(d))
BY ClearKeeps, KeepsItself DEF EvictOldest

LEMMA LongKeeps ==
    ASSUME NEW d \in DpbType, NEW i \in Slot, NEW x \in Nat
    PROVE  Keeps(d, [d EXCEPT !.slots[i].long_term = TRUE, !.slots[i].lt_idx = x])
<1>1. d.slots[i] \in SlotRec /\ d.slots \in [Slot -> SlotRec]
  BY DEF DpbType
<1>2. PICK r : r = [d.slots[i] EXCEPT !.long_term = TRUE, !.lt_idx = x]
  OBVIOUS
<1>3. r \in SlotRec /\ r.hold = d.slots[i].hold /\ r.epoch = d.slots[i].epoch
  <2>1. PICK s \in SlotRec, z \in Int : s = d.slots[i] /\ z = x
    BY <1>1
  <2>2. r = [s EXCEPT !.long_term = TRUE, !.lt_idx = z]
    BY <1>2, <2>1
  <2>3. r \in SlotRec /\ r.hold = s.hold /\ r.epoch = s.epoch
    BY <2>2 DEF SlotRec
  <2> QED BY <2>1, <2>3
<1>4. Keeps(d, [d EXCEPT !.slots = [@ EXCEPT ![i] = r]])
  BY <1>3, SlotKeeps
<1>5. [d EXCEPT !.slots[i].long_term = TRUE, !.slots[i].lt_idx = x] = [d EXCEPT !.slots = [@ EXCEPT ![i] = r]]
  BY <1>1, <1>2 DEF DpbType
<1> QED BY <1>4, <1>5

LEMMA MmcoKeeps ==
    ASSUME NEW d \in DpbType, NEW cur \in Slot, NEW m \in Mmco
    PROVE  Keeps(d, ApplyMmco(d, cur, m))
<1> DEFINE short == FindShort(d, d.pic_num - m.diff)
           long == FindLong(d, m.idx)
           Drop(S) == SlotClear(d, S \ {cur, NoSlot})
           Mark(e, i) == IF i = NoSlot THEN e
                         ELSE [e EXCEPT !.slots[i].long_term = TRUE, !.slots[i].lt_idx = m.idx]
<1>1. m.op \in 1 .. 6 /\ m.idx \in Nat /\ m.diff \in Nat
  BY DEF Mmco
<1>2. \A S : Keeps(d, Drop(S))
  BY ClearKeeps
<1>3. ASSUME NEW e, Keeps(d, e), NEW i \in Slot \cup {NoSlot} PROVE Keeps(d, Mark(e, i))
  <2>1. CASE i = NoSlot
    BY <1>3, <2>1
  <2>2. CASE i # NoSlot
    <3>1. e \in DpbType
      BY <1>3 DEF Keeps
    <3>2. Keeps(e, [e EXCEPT !.slots[i].long_term = TRUE, !.slots[i].lt_idx = m.idx])
      BY <1>1, <2>2, <3>1, LongKeeps
    <3>3. Keeps(d, [e EXCEPT !.slots[i].long_term = TRUE, !.slots[i].lt_idx = m.idx])
      BY <1>3, <3>2, KeepsTrans
    <3> QED BY <2>2, <3>3
  <2> QED BY <2>1, <2>2
<1>4. short \in Slot \cup {NoSlot}
  <2>1. {i \in ShortTerm(d) : d.slots[i].frame_num = d.pic_num - m.diff} \in SUBSET Slot
    BY DEF ShortTerm
  <2> QED BY <2>1, LowestSlot DEF FindShort
<1>5. CASE m.op = 1
  BY <1>2, <1>5 DEF ApplyMmco
<1>6. CASE m.op = 2
  BY <1>2, <1>6 DEF ApplyMmco
<1>7. CASE m.op = 3
  <2>1. Keeps(d, Mark(Drop({long}), short))
    BY <1>2, <1>3, <1>4
  <2>2. ApplyMmco(d, cur, m) = IF LongTermAllowed(d, m.idx) THEN Mark(Drop({long}), short) ELSE d
    BY <1>7 DEF ApplyMmco
  <2> QED BY <2>1, <2>2, KeepsItself
<1>8. CASE m.op = 4
  <2>1. PICK e : e = Drop({i \in LongTerm(d) : d.slots[i].lt_idx > m.idx - 1})
    OBVIOUS
  <2>2. Keeps(d, e)
    BY <1>2, <2>1
  <2>3. ApplyMmco(d, cur, m) = [e EXCEPT !.max_lt = m.idx - 1]
    BY <1>8, <2>1 DEF ApplyMmco
  <2>4. m.idx - 1 \in Int
    BY <1>1
  <2>5. PICK x : x = [e EXCEPT !.max_lt = m.idx - 1]
    OBVIOUS
  <2>6. x \in DpbType /\ x.slots = e.slots /\ x.trap = e.trap /\ x.epoch = e.epoch /\ x.current = e.current
    BY <2>2, <2>4, <2>5 DEF DpbType, Keeps
  <2> QED BY <2>2, <2>3, <2>5, <2>6 DEF Keeps
<1>9. CASE m.op = 5
  <2>1. PICK e : e = Drop(Slot)
    OBVIOUS
  <2>2. Keeps(d, e) /\ e \in DpbType
    BY <1>2, <2>1 DEF Keeps
  <2>3. ApplyMmco(d, cur, m) = [e EXCEPT !.max_lt = -1, !.slots[cur].frame_num = 0]
    BY <1>9, <2>1 DEF ApplyMmco
  <2>4. PICK r : r = [e.slots[cur] EXCEPT !.frame_num = 0]
    OBVIOUS
  <2>5. r \in SlotRec /\ r.hold = e.slots[cur].hold /\ r.epoch = e.slots[cur].epoch
    <3>1. PICK s \in SlotRec, z \in Int : s = e.slots[cur] /\ z = 0
      BY <2>2 DEF DpbType
    <3>2. r = [s EXCEPT !.frame_num = z]
      BY <2>4, <3>1
    <3>3. r \in SlotRec /\ r.hold = s.hold /\ r.epoch = s.epoch
      BY <3>2 DEF SlotRec
    <3> QED BY <3>1, <3>3
  <2>6. PICK y : y = [e EXCEPT !.slots = [@ EXCEPT ![cur] = r]]
    OBVIOUS
  <2>7. Keeps(e, y) /\ y \in DpbType
    BY <2>2, <2>5, <2>6, SlotKeeps DEF Keeps
  <2>8. ApplyMmco(d, cur, m) = [y EXCEPT !.max_lt = -1]
    BY <2>2, <2>3, <2>4, <2>6 DEF DpbType
  <2>9. PICK x : x = [y EXCEPT !.max_lt = -1]
    OBVIOUS
  <2>10. x \in DpbType /\ x.slots = y.slots /\ x.trap = y.trap /\ x.epoch = y.epoch /\ x.current = y.current
    <3>1. PICK z \in Int : z = -1
      OBVIOUS
    <3>2. x = [y EXCEPT !.max_lt = z]
      BY <2>9, <3>1
    <3> QED BY <2>7, <3>2 DEF DpbType
  <2>11. Keeps(y, x)
    BY <2>10 DEF Keeps
  <2> QED BY <2>2, <2>7, <2>8, <2>9, <2>11, KeepsTrans
<1>10. CASE m.op = 6
  <2>1. Keeps(d, Mark(Drop({long}), cur))
    BY <1>2, <1>3
  <2>2. ApplyMmco(d, cur, m) = IF LongTermAllowed(d, m.idx) THEN Mark(Drop({long}), cur) ELSE d
    BY <1>10 DEF ApplyMmco
  <2> QED BY <2>1, <2>2, KeepsItself
<1>11. m.op = 1 \/ m.op = 2 \/ m.op = 3 \/ m.op = 4 \/ m.op = 5 \/ m.op = 6
  BY <1>1
<1> QED BY <1>5, <1>6, <1>7, <1>8, <1>9, <1>10, <1>11

LEMMA WindowKeeps == ASSUME NEW d \in DpbType PROVE Keeps(d, SlidingWindow(d))
<1>1. PICK x : x = Cardinality(ShortTerm(d)) - (IF d.max_refs = 0 THEN 1 ELSE d.max_refs)
  OBVIOUS
<1>2. x \in Int
  <2>1. IsFiniteSet(Slot)
    BY FS_Interval, PoolAssumption DEF Slot
  <2>2. IsFiniteSet(ShortTerm(d))
    BY <2>1, FS_Subset DEF ShortTerm
  <2>3. Cardinality(ShortTerm(d)) \in Nat
    BY <2>2, FS_CardinalityType
  <2> QED BY <1>1, <2>3 DEF DpbType
<1>3. PICK n \in Nat : 1 .. n = 1 .. x
  <2>1. CASE x >= 0
    BY <1>2, <2>1
  <2>2. CASE x < 0
    <3>1. 1 .. x = 1 .. 0
      BY <1>2, <2>2
    <3> QED BY <3>1
  <2> QED BY <1>2, <2>1, <2>2
<1>4. SlidingWindow(d) = Evicted(d, x)
  <2>1. SlidingWindow(d) = Evicted(d, Cardinality(ShortTerm(d)) - (IF d.max_refs = 0 THEN 1 ELSE d.max_refs))
    BY DEF SlidingWindow, Evicted
  <2> QED BY <1>1, <2>1
<1>5. PICK c : /\ c[0] = d /\ Evicted(d, x) = c[n]
               /\ \A k \in 1 .. n : c[k] = EvictOne(c[k - 1], k)
  BY <1>3, EvictChain
<1> DEFINE Bad == {k \in 0 .. n : ~ Keeps(d, c[k])}
<1>6. SUFFICES ASSUME Bad # {} PROVE FALSE
  BY <1>4, <1>5
<1>7. PICK k \in Bad : \A m \in Bad : k <= m
  <2>1. Bad \in SUBSET Nat
    OBVIOUS
  <2> QED BY <1>6, <2>1, LeastNat
<1>8. k # 0
  BY <1>5, <1>7, KeepsItself
<1>9. k \in 1 .. n /\ Keeps(d, c[k - 1])
  BY <1>7, <1>8
<1>10. Keeps(c[k - 1], c[k])
  <2>1. c[k - 1] \in DpbType
    BY <1>9 DEF Keeps
  <2>2. c[k] = EvictOldest(c[k - 1])
    BY <1>5, <1>9 DEF EvictOne
  <2> QED BY <2>1, <2>2, EvictKeeps
<1>11. Keeps(d, c[k])
  BY <1>9, <1>10, KeepsTrans
<1> QED BY <1>7, <1>11

LEMMA MarksKeep ==
    ASSUME NEW d \in DpbType, NEW cur \in Slot, NEW ms \in Seq(Mmco)
    PROVE  Keeps(d, Marked(d, cur, ms))
<1>1. PICK n \in Nat : n = Len(ms) /\ DOMAIN ms = 1 .. n
  OBVIOUS
<1>2. PICK c : /\ c[0] = d /\ Marked(d, cur, ms) = c[n]
               /\ \A k \in 1 .. n : c[k] = MarksOne(cur, ms, c[k - 1], k)
  <2>1. n \in Nat /\ DOMAIN ms = 1 .. n
    BY <1>1
  <2> QED BY ONLY <2>1, MarksChain
<1> DEFINE Bad == {k \in 0 .. n : ~ Keeps(d, c[k])}
<1>3. SUFFICES ASSUME Bad # {} PROVE FALSE
  BY <1>2
<1>4. PICK k \in Bad : \A m \in Bad : k <= m
  <2>1. Bad \in SUBSET Nat
    OBVIOUS
  <2> QED BY <1>3, <2>1, LeastNat
<1>5. k # 0
  BY <1>2, <1>4, KeepsItself
<1>6. k \in 1 .. n /\ Keeps(d, c[k - 1])
  BY <1>4, <1>5
<1>7. Keeps(c[k - 1], c[k])
  <2>1. c[k - 1] \in DpbType
    BY <1>6 DEF Keeps
  <2>2. c[k] = ApplyMmco(c[k - 1], cur, ms[k])
    BY <1>2, <1>6 DEF MarksOne
  <2>3. ms[k] \in Mmco
    BY <1>1, <1>6
  <2> QED BY <2>1, <2>2, <2>3, MmcoKeeps
<1>8. Keeps(d, c[k])
  BY <1>6, <1>7, KeepsTrans
<1> QED BY <1>4, <1>8

\* c is d with no picture under decoding and the same holds and epochs.
Settled(d, c) ==
    /\ c \in DpbType /\ c.trap = d.trap /\ c.epoch = d.epoch /\ c.current = NoSlot
    /\ \A i \in Slot : c.slots[i].hold = d.slots[i].hold /\ c.slots[i].epoch = d.slots[i].epoch

LEMMA SettledKeeps ==
    ASSUME NEW d, NEW e, NEW c, Settled(d, e), Keeps(e, c)
    PROVE  Settled(d, c)
BY DEF Settled, Keeps

LEMMA CurrentGone ==
    ASSUME NEW d \in DpbType
    PROVE  Settled(d, [d EXCEPT !.current = NoSlot])
<1>1. PICK e : e = [d EXCEPT !.current = NoSlot]
  OBVIOUS
<1>2. e \in DpbType /\ e.slots = d.slots /\ e.trap = d.trap /\ e.epoch = d.epoch /\ e.current = NoSlot
  BY <1>1 DEF DpbType
<1> QED BY <1>1, <1>2 DEF Settled

\* The marking a picture carries is spent.
LEMMA MarkingGone ==
    ASSUME NEW d \in DpbType
    PROVE  Keeps(d, [d EXCEPT !.adaptive = FALSE, !.mmco = <<>>])
<1>1. PICK q \in Seq(Mmco) : q = <<>>
  <2>1. \A S : << >> \in Seq(S)
    OBVIOUS
  <2> QED BY <2>1
<1>2. PICK e : e = [d EXCEPT !.adaptive = FALSE, !.mmco = q]
  OBVIOUS
<1>3. e \in DpbType /\ e.slots = d.slots /\ e.trap = d.trap /\ e.epoch = d.epoch /\ e.current = d.current
  BY <1>2 DEF DpbType
<1> QED BY <1>1, <1>2, <1>3 DEF Keeps

LEMMA Complete264Settles ==
    ASSUME NEW d \in DpbType, d.current \in Slot
    PROVE  Settled(d, Complete264(d))
<1>1. PICK cur \in Slot : cur = d.current
  OBVIOUS
<1>2. PICK e : e = [d EXCEPT !.current = NoSlot]
  OBVIOUS
<1>3. Settled(d, e) /\ e \in DpbType
  BY <1>2, CurrentGone DEF Settled
<1>4. PICK marked : marked = CASE ~d.slots[cur].is_ref -> SlotClear(e, {cur})
                               [] d.slots[cur].is_ref /\ d.adaptive ->
                                      Marked(e, cur, d.mmco)
                               [] OTHER -> SlidingWindow(e)
  OBVIOUS
<1>5. Keeps(e, marked)
  <2>1. CASE ~d.slots[cur].is_ref
    BY <1>3, <1>4, <2>1, ClearKeeps
  <2>2. CASE d.slots[cur].is_ref /\ d.adaptive
    <3>1. marked = Marked(e, cur, d.mmco)
      BY <1>4, <2>2
    <3>2. d.mmco \in Seq(Mmco)
      BY DEF DpbType
    <3>3. Keeps(e, Marked(e, cur, d.mmco))
      BY <1>3, <3>2, MarksKeep
    <3> QED BY <3>1, <3>3
  <2>3. CASE d.slots[cur].is_ref /\ ~d.adaptive
    <3>1. marked = SlidingWindow(e)
      BY <1>4, <2>3
    <3> QED BY <1>3, <3>1, WindowKeeps
  <2> QED BY <2>1, <2>2, <2>3
<1>6. Keeps(marked, [marked EXCEPT !.adaptive = FALSE, !.mmco = <<>>])
  BY <1>5, MarkingGone DEF Keeps
<1>7. Complete264(d) = [marked EXCEPT !.adaptive = FALSE, !.mmco = <<>>]
  <2>1. cur # NoSlot
    BY PoolAssumption DEF Slot, NoSlot
  <2>2. Complete264(d) =
          IF d.current = NoSlot THEN d
          ELSE [(CASE ~d.slots[d.current].is_ref -> SlotClear([d EXCEPT !.current = NoSlot], {d.current})
                   [] d.slots[d.current].is_ref /\ d.adaptive -> Marked([d EXCEPT !.current = NoSlot], d.current, d.mmco)
                   [] OTHER -> SlidingWindow([d EXCEPT !.current = NoSlot])) EXCEPT !.adaptive = FALSE, !.mmco = <<>>]
    BY DEF Complete264, Marked
  <2> QED BY <1>1, <1>2, <1>4, <2>1, <2>2
<1> QED BY <1>3, <1>5, <1>6, <1>7, SettledKeeps

LEMMA Complete265Settles ==
    ASSUME NEW d \in DpbType
    PROVE  Settled(d, Complete265(d))
<1>1. PICK e : e = [d EXCEPT !.current = NoSlot]
  OBVIOUS
<1>2. Settled(d, e) /\ e \in DpbType
  BY <1>1, CurrentGone DEF Settled
<1>3. Keeps(e, SlotClear(e, {d.current}))
  BY <1>2, ClearKeeps
<1>4. Complete265(d) = e \/ Complete265(d) = SlotClear(e, {d.current})
  BY <1>1 DEF Complete265
<1> QED BY <1>2, <1>3, <1>4, SettledKeeps

LEMMA FailedSettles ==
    ASSUME NEW d \in DpbType
    PROVE  Settled(d, Failed(d))
<1>1. PICK e : e = [d EXCEPT !.current = NoSlot]
  OBVIOUS
<1>2. Settled(d, e) /\ e \in DpbType
  BY <1>1, CurrentGone DEF Settled
<1>3. PICK f : f = [e EXCEPT !.adaptive = FALSE, !.mmco = <<>>]
  OBVIOUS
<1>4. Settled(d, f) /\ f \in DpbType
  <2>1. Keeps(e, f)
    BY <1>2, <1>3, MarkingGone
  <2>2. Settled(d, f)
    BY <1>2, <2>1, SettledKeeps
  <2> QED BY <2>2 DEF Settled
<1>5. Keeps(f, SlotClear(f, {d.current}))
  BY <1>4, ClearKeeps
<1>6. f = [d EXCEPT !.current = NoSlot, !.adaptive = FALSE, !.mmco = <<>>]
  BY <1>1, <1>3 DEF DpbType
<1>7. Failed(d) = f \/ Failed(d) = SlotClear(f, {d.current})
  BY <1>6 DEF Failed
<1> QED BY <1>4, <1>5, <1>7, SettledKeeps

-----------------------------------------------------------------------------
\* Selecting a slot.

\* s is d with a slot that nothing holds taken for a new picture and stamped with ep.
Chosen(d, s, ep) ==
    /\ s \in DpbType /\ s.trap = d.trap /\ s.epoch = d.epoch /\ s.current \in Slot
    /\ d.slots[s.current].hold = {} /\ s.slots[s.current].hold = {} /\ s.slots[s.current].epoch = ep
    /\ \A i \in Slot : i # s.current => /\ s.slots[i].hold = d.slots[i].hold
                                        /\ s.slots[i].epoch = d.slots[i].epoch

LEMMA MakeRoomKeeps ==
    ASSUME NEW d \in DpbType, NEW au \in Unit
    PROVE  Keeps(d, MakeRoom(d, au))
<1>1. PICK c : c = IF au.nal = "idr" THEN [SlotClear(d, Slot) EXCEPT !.max_lt = IF au.lt THEN 0 ELSE -1] ELSE d
  OBVIOUS
<1>2. Keeps(d, c)
  <2>1. CASE au.nal = "idr"
    <3>1. PICK e : e = SlotClear(d, Slot)
      OBVIOUS
    <3>2. Keeps(d, e) /\ e \in DpbType
      BY <3>1, ClearKeeps DEF Keeps
    <3>3. PICK z \in Int : z = IF au.lt THEN 0 ELSE -1
      OBVIOUS
    <3>4. c = [e EXCEPT !.max_lt = z]
      BY <1>1, <2>1, <3>1, <3>3
    <3>5. c \in DpbType /\ c.slots = e.slots /\ c.trap = e.trap /\ c.epoch = e.epoch /\ c.current = e.current
      BY <3>2, <3>4 DEF DpbType
    <3> QED BY <3>2, <3>5 DEF Keeps
  <2>2. CASE au.nal # "idr"
    BY <1>1, <2>2, KeepsItself
  <2> QED BY <2>1, <2>2
<1>3. Keeps(c, EvictOldest(c))
  BY <1>2, EvictKeeps DEF Keeps
<1>4. MakeRoom(d, au) = c \/ MakeRoom(d, au) = EvictOldest(c)
  BY <1>1 DEF MakeRoom
<1> QED BY <1>2, <1>3, <1>4, KeepsTrans

LEMMA Select264Takes ==
    ASSUME NEW d \in DpbType, d.current = NoSlot, NEW au \in Unit, NEW maxRefs \in Nat
    PROVE  Keeps(d, Select264(d, au, maxRefs)) \/ Chosen(d, Select264(d, au, maxRefs), d.epoch)
<1>1. PICK r : r = MakeRoom(d, au)
  OBVIOUS
<1>2. Keeps(d, r) /\ r \in DpbType
  BY <1>1, MakeRoomKeeps DEF Keeps
<1>3. PICK i : i = FindFree(r)
  OBVIOUS
<1>4. (i \in Slot /\ r.slots[i].hold = {}) \/ i = NoSlot
  <2>1. {j \in Slot : ~r.slots[j].in_use /\ ~Held(r, j)} \in SUBSET Slot
    OBVIOUS
  <2>2. i \in {j \in Slot : ~r.slots[j].in_use /\ ~Held(r, j)} \/ i = NoSlot
    BY <1>3, <2>1, LowestSlot DEF FindFree
  <2> QED BY <2>2 DEF Held
<1>5. CASE i = NoSlot
  BY <1>1, <1>2, <1>3, <1>5 DEF Select264
<1>6. CASE i # NoSlot
  <2>1. i \in Slot /\ r.slots[i].hold = {} /\ r.slots[i] \in SlotRec /\ r.slots \in [Slot -> SlotRec]
    BY <1>2, <1>4, <1>6 DEF DpbType
  <2>2. /\ au.ref \in BOOLEAN /\ (au.nal = "idr" /\ au.lt) \in BOOLEAN /\ au.frame_num \in Int /\ au.poc \in Int
        /\ r.epoch \in Nat /\ r.slots[i].hold \in SUBSET Hold /\ r.epoch = d.epoch
        /\ (~(au.nal = "idr") /\ au.adaptive) \in BOOLEAN
    BY <1>2, <2>1 DEF Unit, DpbType, SlotRec, Keeps
  <2>3. PICK b \in BOOLEAN, lt \in BOOLEAN, ad \in BOOLEAN :
          b = au.ref /\ lt = (au.nal = "idr" /\ au.lt) /\ ad = (~(au.nal = "idr") /\ au.adaptive)
    BY <2>2
  <2>4. PICK fn \in Int, p \in Int, z \in Int : fn = au.frame_num /\ p = au.poc /\ z = 0
    BY <2>2
  <2>5. PICK h \in SUBSET Hold, ep \in Nat : h = r.slots[i].hold /\ ep = r.epoch
    BY <2>2
  <2>6. PICK t : t = [in_use |-> TRUE, is_ref |-> b, long_term |-> lt, frame_num |-> fn, poc |-> p, lt_idx |-> z,
                      hold |-> h, epoch |-> ep]
    OBVIOUS
  <2>7. t \in SlotRec /\ t.hold = h /\ t.epoch = ep
    BY <2>6 DEF SlotRec
  <2>8. PICK q \in Seq(Mmco) : q = IF au.nal = "idr" THEN <<>> ELSE au.mmco
    <3>1. \A S : << >> \in Seq(S)
      OBVIOUS
    <3>2. au.mmco \in Seq(Mmco)
      BY DEF Unit
    <3> QED BY <3>1, <3>2
  <2>9. PICK m \in Nat : m = IF maxRefs = 0 THEN 1 ELSE maxRefs
    OBVIOUS
  <2>10. PICK u \in [Slot -> SlotRec] : u = [r.slots EXCEPT ![i] = t]
    BY <2>1, <2>7
  <2>11. PICK s : s = [r EXCEPT !.slots = u, !.current = i, !.adaptive = ad, !.mmco = q, !.max_refs = m, !.pic_num = fn]
    OBVIOUS
  <2>12. /\ s \in DpbType /\ s.slots = u /\ s.current = i /\ s.trap = r.trap /\ s.epoch = r.epoch
    BY <1>2, <2>1, <2>11 DEF DpbType
  <2>13. s = Select264(d, au, maxRefs)
    <3>1. u = [r.slots EXCEPT ![i] = [in_use |-> TRUE, is_ref |-> au.ref, long_term |-> au.nal = "idr" /\ au.lt,
                                      frame_num |-> au.frame_num, poc |-> au.poc, lt_idx |-> 0,
                                      hold |-> r.slots[i].hold, epoch |-> r.epoch]]
      BY <2>3, <2>4, <2>5, <2>6, <2>10
    <3>2. r.slots[i] = r.slots[i] /\ i # NoSlot
      BY <1>6
    <3> QED BY <1>1, <1>3, <2>1, <2>3, <2>4, <2>8, <2>9, <2>11, <3>1, <3>2, <1>2 DEF Select264, DpbType
  <2>14. \A j \in Slot : u[j] = IF j = i THEN t ELSE r.slots[j]
    BY <2>1, <2>10
  <2>15. Chosen(d, s, d.epoch)
    BY <1>2, <2>1, <2>2, <2>5, <2>7, <2>12, <2>14 DEF Chosen, Keeps
  <2> QED BY <2>13, <2>15
<1> QED BY <1>5, <1>6

LEMMA RpsKeeps ==
    ASSUME NEW d \in DpbType, NEW au \in Unit
    PROVE  Keeps(d, ApplyRps(d, au))
<1>1. CASE au.nal = "idr"
  BY <1>1, ClearKeeps DEF ApplyRps
<1>2. CASE au.nal # "idr"
  <2>1. \A i \in Slot : d.slots[i] \in SlotRec
    BY DEF DpbType
  <2> DEFINE R(i) == [d.slots[i] EXCEPT !.is_ref = IF d.slots[i].in_use THEN d.slots[i].poc \in au.keeps ELSE @]
  <2>2. \A i \in Slot : R(i) \in SlotRec /\ R(i).hold = d.slots[i].hold /\ R(i).epoch = d.slots[i].epoch
    <3> TAKE i \in Slot
    <3>1. PICK s \in SlotRec : s = d.slots[i]
      BY <2>1
    <3>2. PICK b \in BOOLEAN : b = IF s.in_use THEN s.poc \in au.keeps ELSE s.is_ref
      <4>1. s.is_ref \in BOOLEAN
        BY DEF SlotRec
      <4>2. (s.poc \in au.keeps) \in BOOLEAN
        OBVIOUS
      <4>3. CASE s.in_use
        BY <4>2, <4>3, Zenon
      <4>4. CASE ~s.in_use
        BY <4>1, <4>4, Zenon
      <4> QED BY <4>3, <4>4
    <3>3. R(i) = [s EXCEPT !.is_ref = b]
      BY <3>1, <3>2 DEF SlotRec
    <3>4. R(i) \in SlotRec /\ R(i).hold = s.hold /\ R(i).epoch = s.epoch
      BY <3>3 DEF SlotRec
    <3> QED BY <3>1, <3>4
  <2>3. ApplyRps(d, au) = [d EXCEPT !.slots = [i \in Slot |-> R(i)]]
    BY <1>2 DEF ApplyRps
  <2> HIDE DEF R
  <2>4. PICK t \in [Slot -> SlotRec] : t = [i \in Slot |-> R(i)]
    BY <2>2
  <2>5. PICK c : c = [d EXCEPT !.slots = t]
    OBVIOUS
  <2>6. c \in DpbType /\ c.slots = t /\ c.trap = d.trap /\ c.epoch = d.epoch /\ c.current = d.current
    BY <2>5 DEF DpbType
  <2> QED BY <2>2, <2>3, <2>4, <2>5, <2>6 DEF Keeps
<1> QED BY <1>1, <1>2

\* H265Dpb_Select leaves the epoch of the slot as it was.
LEMMA Select265Takes ==
    ASSUME NEW d \in DpbType, d.current = NoSlot, NEW au \in Unit
    PROVE  LET s == Select265(d, au) IN Keeps(d, s) \/ \E i \in Slot : i = s.current /\ Chosen(d, s, d.slots[i].epoch)
<1>1. PICK r : r = ApplyRps(d, au)
  OBVIOUS
<1>2. Keeps(d, r) /\ r \in DpbType
  BY <1>1, RpsKeeps DEF Keeps
<1>3. PICK i : i = FindFree265(r)
  OBVIOUS
<1>4. (i \in Slot /\ r.slots[i].hold = {}) \/ i = NoSlot
  <2> DEFINE stale == {j \in Slot : ~Held(r, j) /\ r.slots[j].in_use /\ ~r.slots[j].is_ref}
             empty == {j \in Slot : ~Held(r, j) /\ ~r.slots[j].in_use}
  <2>1. stale \in SUBSET Nat /\ stale \in SUBSET Slot /\ empty \in SUBSET Slot
    BY PoolAssumption DEF Slot
  <2>2. i = IF stale # {} THEN Min(stale) ELSE Lowest(empty)
    BY <1>3 DEF FindFree265
  <2>3. stale # {} => Min(stale) \in stale
    BY <2>1, MinIn
  <2>4. Lowest(empty) \in empty \/ Lowest(empty) = NoSlot
    BY <2>1, LowestSlot
  <2>5. i \in stale \/ i \in empty \/ i = NoSlot
    BY <2>2, <2>3, <2>4
  <2> QED BY <2>5 DEF Held
<1>5. CASE i = NoSlot
  BY <1>1, <1>2, <1>3, <1>5 DEF Select265
<1>6. CASE i # NoSlot
  <2>1. i \in Slot /\ r.slots[i].hold = {} /\ r.slots[i] \in SlotRec /\ r.slots \in [Slot -> SlotRec]
    BY <1>2, <1>4, <1>6 DEF DpbType
  <2>2. PICK b \in BOOLEAN, p \in Int, ep \in Nat : b = au.ref /\ p = au.poc /\ ep = r.slots[i].epoch
    BY <2>1 DEF Unit, SlotRec
  <2>3. PICK e \in SlotRec : e = EmptySlot /\ e.hold = {}
    BY EmptyType DEF EmptySlot
  <2>4. PICK t : t = [e EXCEPT !.in_use = TRUE, !.is_ref = b, !.poc = p, !.epoch = ep]
    OBVIOUS
  <2>5. t \in SlotRec /\ t.hold = {} /\ t.epoch = ep
    BY <2>3, <2>4 DEF SlotRec
  <2>6. PICK u \in [Slot -> SlotRec] : u = [r.slots EXCEPT ![i] = t]
    BY <2>1, <2>5
  <2>7. PICK s : s = [r EXCEPT !.slots = u, !.current = i]
    OBVIOUS
  <2>8. s \in DpbType /\ s.slots = u /\ s.current = i /\ s.trap = r.trap /\ s.epoch = r.epoch
    BY <1>2, <2>1, <2>7 DEF DpbType
  <2>9. s = Select265(d, au)
    <3>1. u = [r.slots EXCEPT ![i] = [EmptySlot EXCEPT !.in_use = TRUE, !.is_ref = au.ref, !.poc = au.poc,
                                                       !.epoch = r.slots[i].epoch]]
      BY <2>2, <2>3, <2>4, <2>6
    <3> QED BY <1>1, <1>2, <1>3, <1>6, <2>1, <2>7, <3>1 DEF Select265, DpbType
  <2>10. \A j \in Slot : u[j] = IF j = i THEN t ELSE r.slots[j]
    BY <2>1, <2>6
  <2>11. Chosen(d, s, d.slots[i].epoch)
    BY <1>2, <2>1, <2>2, <2>5, <2>8, <2>10 DEF Chosen, Keeps
  <2> QED BY <2>1, <2>8, <2>9, <2>11
<1> QED BY <1>5, <1>6

-----------------------------------------------------------------------------
\* Queues as sets of entries.

NoDup(q) == \A k, l \in DOMAIN q : q[k] = q[l] => k = l

LEMMA RemoveSet ==
    ASSUME NEW F, NEW s \in Seq(F), NEW i \in 1 .. Len(s), NoDup(s)
    PROVE  ToSet(RemoveAt(s, i)) = ToSet(s) \ {s[i]} /\ NoDup(RemoveAt(s, i))
<1> DEFINE a == SubSeq(s, 1, i - 1)
           b == SubSeq(s, i + 1, Len(s))
<1>0. PICK n \in Nat : n = Len(s) /\ DOMAIN s = 1 .. n
  OBVIOUS
<1>1. a \in Seq(F) /\ Len(a) = i - 1 /\ \A k \in 1 .. i - 1 : a[k] = s[k]
  OBVIOUS
<1>2. b \in Seq(F) /\ Len(b) = n - i /\ \A k \in 1 .. n - i : b[k] = s[k + i]
  BY <1>0
<1>3. PICK t \in Seq(F) : t = RemoveAt(s, i) /\ Len(t) = n - 1 /\ DOMAIN t = 1 .. n - 1
  <2>1. RemoveAt(s, i) \in Seq(F) /\ Len(RemoveAt(s, i)) = Len(s) - 1
    BY RemoveFacts
  <2>2. DOMAIN RemoveAt(s, i) = 1 .. Len(RemoveAt(s, i))
    BY <2>1
  <2> QED BY <1>0, <2>1, <2>2
<1>4. t = a \o b
  BY <1>3 DEF RemoveAt
<1> HIDE DEF a, b
<1>5. \A u, v \in Seq(F) : \A k \in 1 .. Len(u) + Len(v) :
          (u \o v)[k] = IF k <= Len(u) THEN u[k] ELSE v[k - Len(u)]
  OBVIOUS
<1>6. \A k \in 1 .. n - 1 : t[k] = IF k <= i - 1 THEN s[k] ELSE s[k + 1]
  <2> TAKE k \in 1 .. n - 1
  <2>1. k \in 1 .. Len(a) + Len(b)
    BY <1>0, <1>1, <1>2
  <2>2. t[k] = IF k <= Len(a) THEN a[k] ELSE b[k - Len(a)]
    BY <1>1, <1>2, <1>4, <1>5, <2>1
  <2>3. CASE k <= i - 1
    BY <1>1, <2>2, <2>3
  <2>4. CASE ~(k <= i - 1)
    <3>1. k - (i - 1) \in 1 .. n - i /\ (k - (i - 1)) + i = k + 1
      BY <1>0, <2>4
    <3> QED BY <1>1, <1>2, <2>2, <2>4, <3>1
  <2> QED BY <2>3, <2>4
<1> DEFINE pos(k) == IF k <= i - 1 THEN k ELSE k + 1
<1>9. \A k \in 1 .. n - 1 : pos(k) \in 1 .. n /\ pos(k) # i /\ t[k] = s[pos(k)]
  BY <1>0, <1>6
<1>10. \A k, l \in 1 .. n - 1 : pos(k) = pos(l) => k = l
  BY <1>0
<1> HIDE DEF pos
<1>7. NoDup(t)
  <2>1. SUFFICES ASSUME NEW k \in 1 .. n - 1, NEW l \in 1 .. n - 1, t[k] = t[l] PROVE k = l
    BY <1>3 DEF NoDup
  <2>2. pos(k) \in DOMAIN s /\ pos(l) \in DOMAIN s /\ s[pos(k)] = s[pos(l)]
    BY ONLY <1>0, <1>9, <2>1, Zenon
  <2>3. pos(k) = pos(l)
    BY ONLY NoDup(s), <2>2, Zenon DEF NoDup
  <2> QED BY ONLY <1>10, <2>1, <2>3, Zenon
<1>8. ToSet(t) = ToSet(s) \ {s[i]}
  <2>1. ASSUME NEW k \in DOMAIN t PROVE t[k] \in ToSet(s) \ {s[i]}
    <3>1. PICK j \in DOMAIN s : j # i /\ t[k] = s[j]
      BY ONLY <1>0, <1>3, <1>9, <2>1, Zenon
    <3>2. i \in DOMAIN s
      BY <1>0
    <3>3. s[j] # s[i]
      BY ONLY NoDup(s), <3>1, <3>2, Zenon DEF NoDup
    <3> QED BY ONLY <3>1, <3>3, Zenon DEF ToSet
  <2>2. ASSUME NEW k \in DOMAIN s, s[k] # s[i] PROVE s[k] \in ToSet(t)
    <3>1. CASE k < i
      <4>1. k \in 1 .. n - 1 /\ t[k] = s[k]
        BY <1>0, <1>6, <3>1
      <4> QED BY <1>3, <4>1 DEF ToSet
    <3>2. CASE k > i
      <4>1. k - 1 \in 1 .. n - 1 /\ t[k - 1] = s[k]
        BY <1>0, <1>6, <3>2
      <4> QED BY <1>3, <4>1 DEF ToSet
    <3> QED BY <1>0, <2>2, <3>1, <3>2
  <2> QED BY <2>1, <2>2 DEF ToSet
<1> QED BY <1>3, <1>7, <1>8

LEMMA AppendSet ==
    ASSUME NEW F, NEW s \in Seq(F), NEW x \in F, x \notin ToSet(s), NoDup(s)
    PROVE  ToSet(Append(s, x)) = ToSet(s) \cup {x} /\ NoDup(Append(s, x))
<1>1. PICK n \in Nat : n = Len(s) /\ DOMAIN s = 1 .. n
  OBVIOUS
<1>2. PICK t : t = Append(s, x)
  OBVIOUS
<1>3. DOMAIN t = 1 .. n + 1 /\ t[n + 1] = x /\ \A k \in 1 .. n : t[k] = s[k]
  BY <1>1, <1>2
<1>4. NoDup(t)
  BY <1>1, <1>3 DEF NoDup, ToSet
<1>5. ToSet(t) = ToSet(s) \cup {x}
  <2>1. \A k \in 1 .. n + 1 : k \in 1 .. n \/ k = n + 1
    OBVIOUS
  <2>2. n + 1 \in 1 .. n + 1 /\ \A k \in 1 .. n : k \in 1 .. n + 1
    OBVIOUS
  <2> QED BY <1>1, <1>3, <2>1, <2>2 DEF ToSet
<1> QED BY <1>2, <1>4, <1>5

LEMMA TailSet ==
    ASSUME NEW F, NEW s \in Seq(F), s # <<>>, NoDup(s)
    PROVE  /\ Head(s) \in ToSet(s) /\ Tail(s) \in Seq(F) /\ ToSet(Tail(s)) = ToSet(s) \ {Head(s)}
           /\ NoDup(Tail(s)) /\ Head(s) \in F
<1>1. PICK n \in Nat : n = Len(s) /\ DOMAIN s = 1 .. n /\ n # 0
  OBVIOUS
<1>2. PICK t : t = Tail(s)
  OBVIOUS
<1>3. t \in Seq(F) /\ DOMAIN t = 1 .. n - 1 /\ \A k \in 1 .. n - 1 : t[k] = s[k + 1]
  BY <1>1, <1>2
<1>4. Head(s) = s[1] /\ 1 \in DOMAIN s /\ s[1] \in F
  BY <1>1
<1>5. NoDup(t)
  BY <1>1, <1>3 DEF NoDup
<1>6. ToSet(t) = ToSet(s) \ {s[1]}
  <2>1. \A k \in DOMAIN t : k + 1 \in DOMAIN s /\ k + 1 # 1
    BY <1>1, <1>3
  <2>2. \A k \in DOMAIN t : t[k] \in ToSet(s) \ {s[1]}
    BY <1>3, <1>4, <2>1 DEF NoDup, ToSet
  <2>3. ASSUME NEW k \in DOMAIN s, s[k] # s[1] PROVE s[k] \in ToSet(t)
    <3>1. k - 1 \in 1 .. n - 1 /\ t[k - 1] = s[k]
      BY <1>1, <1>3, <2>3
    <3> QED BY <1>3, <3>1 DEF ToSet
  <2> QED BY <2>2, <2>3 DEF ToSet
<1>7. Head(s) \in ToSet(s)
  BY <1>4 DEF ToSet
<1> QED BY <1>2, <1>3, <1>4, <1>5, <1>6, <1>7

-----------------------------------------------------------------------------
\* Holds.

Entry == [poc : Nat, slot : Slot, epoch : Nat, id : Nat]

\* Each slot has a hold of a kind exactly if an entry of that kind names it, and one entry at most.
Pins(d, R, Y, L) ==
    /\ \A i \in Slot : /\ "reorder" \in d.slots[i].hold <=> \E x \in R : x.slot = i
                       /\ "ready" \in d.slots[i].hold <=> \E x \in Y : x.slot = i
                       /\ "consumer" \in d.slots[i].hold <=> \E x \in L : x.slot = i
    /\ \A x, z \in R \cup Y \cup L : x.slot = z.slot => x = z
    /\ R \cap Y = {} /\ R \cap L = {} /\ Y \cap L = {}

\* The entries of S are of epoch ep, and so are their slots.
Stamped(d, S, ep) == \A x \in S : x.epoch = ep /\ d.slots[x.slot].epoch = ep

\* c is d with the holds of slot i replaced by h.
Reheld(d, i, h, c) ==
    /\ c \in DpbType /\ c.trap = d.trap /\ c.epoch = d.epoch /\ c.current = d.current
    /\ c.slots[i].hold = h
    /\ \A j \in Slot : c.slots[j].epoch = d.slots[j].epoch /\ (j # i => c.slots[j].hold = d.slots[j].hold)

LEMMA Rehold ==
    ASSUME NEW d \in DpbType, NEW i \in Slot, NEW h \in SUBSET Hold
    PROVE  Reheld(d, i, h, [d EXCEPT !.slots[i].hold = h])
<1>1. PICK s \in SlotRec : s = d.slots[i]
  BY DEF DpbType
<1>2. PICK r : r = [s EXCEPT !.hold = h]
  OBVIOUS
<1>3. r \in SlotRec /\ r.hold = h /\ r.epoch = s.epoch
  BY <1>2 DEF SlotRec
<1>4. PICK t \in [Slot -> SlotRec] : t = [d.slots EXCEPT ![i] = r]
  BY <1>3 DEF DpbType
<1>5. t[i] = r /\ \A j \in Slot : j # i => t[j] = d.slots[j]
  BY <1>4 DEF DpbType
<1>6. PICK c : c = [d EXCEPT !.slots = t]
  OBVIOUS
<1>7. c \in DpbType /\ c.slots = t /\ c.trap = d.trap /\ c.epoch = d.epoch /\ c.current = d.current
  BY <1>6 DEF DpbType
<1>8. c = [d EXCEPT !.slots[i].hold = h]
  BY <1>1, <1>2, <1>4, <1>6 DEF DpbType
<1> QED BY <1>1, <1>3, <1>5, <1>7, <1>8 DEF Reheld

\* An entry's slot has the hold of its queue and no other.
LEMMA ReorderHold ==
    ASSUME NEW d \in DpbType, NEW R, NEW Y, NEW L, Pins(d, R, Y, L), NEW x \in R, x.slot \in Slot
    PROVE  d.slots[x.slot].hold = {"reorder"}
<1>1. d.slots[x.slot].hold \in SUBSET Hold
  BY DEF DpbType, SlotRec
<1>2. /\ "reorder" \in d.slots[x.slot].hold <=> \E z \in R : z.slot = x.slot
      /\ "ready" \in d.slots[x.slot].hold <=> \E z \in Y : z.slot = x.slot
      /\ "consumer" \in d.slots[x.slot].hold <=> \E z \in L : z.slot = x.slot
  BY DEF Pins
<1>3. \A z \in R \cup Y \cup L : z.slot = x.slot => z = x
  BY DEF Pins
<1>4. R \cap Y = {} /\ R \cap L = {} /\ Y \cap L = {}
  BY DEF Pins
<1>5. /\ "reorder" \in d.slots[x.slot].hold
      /\ "ready" \notin d.slots[x.slot].hold /\ "consumer" \notin d.slots[x.slot].hold
  BY <1>2, <1>3, <1>4
<1> QED BY <1>1, <1>5 DEF Hold

LEMMA ReadyHold ==
    ASSUME NEW d \in DpbType, NEW R, NEW Y, NEW L, Pins(d, R, Y, L), NEW x \in Y, x.slot \in Slot
    PROVE  d.slots[x.slot].hold = {"ready"}
<1>1. d.slots[x.slot].hold \in SUBSET Hold
  BY DEF DpbType, SlotRec
<1>2. /\ "reorder" \in d.slots[x.slot].hold <=> \E z \in R : z.slot = x.slot
      /\ "ready" \in d.slots[x.slot].hold <=> \E z \in Y : z.slot = x.slot
      /\ "consumer" \in d.slots[x.slot].hold <=> \E z \in L : z.slot = x.slot
  BY DEF Pins
<1>3. \A z \in R \cup Y \cup L : z.slot = x.slot => z = x
  BY DEF Pins
<1>4. R \cap Y = {} /\ R \cap L = {} /\ Y \cap L = {}
  BY DEF Pins
<1>5. /\ "ready" \in d.slots[x.slot].hold
      /\ "reorder" \notin d.slots[x.slot].hold /\ "consumer" \notin d.slots[x.slot].hold
  BY <1>2, <1>3, <1>4
<1> QED BY <1>1, <1>5 DEF Hold

LEMMA ConsumerHold ==
    ASSUME NEW d \in DpbType, NEW R, NEW Y, NEW L, Pins(d, R, Y, L), NEW x \in L, x.slot \in Slot
    PROVE  d.slots[x.slot].hold = {"consumer"}
<1>1. d.slots[x.slot].hold \in SUBSET Hold
  BY DEF DpbType, SlotRec
<1>2. /\ "reorder" \in d.slots[x.slot].hold <=> \E z \in R : z.slot = x.slot
      /\ "ready" \in d.slots[x.slot].hold <=> \E z \in Y : z.slot = x.slot
      /\ "consumer" \in d.slots[x.slot].hold <=> \E z \in L : z.slot = x.slot
  BY DEF Pins
<1>3. \A z \in R \cup Y \cup L : z.slot = x.slot => z = x
  BY DEF Pins
<1>4. R \cap Y = {} /\ R \cap L = {} /\ Y \cap L = {}
  BY DEF Pins
<1>5. /\ "consumer" \in d.slots[x.slot].hold
      /\ "reorder" \notin d.slots[x.slot].hold /\ "ready" \notin d.slots[x.slot].hold
  BY <1>2, <1>3, <1>4
<1> QED BY <1>1, <1>5 DEF Hold

\* Holds of one slot change, and so do the entries of that slot only.
LEMMA Repinned ==
    ASSUME NEW d, NEW c, NEW i \in Slot, NEW h, Reheld(d, i, h, c),
           NEW R, NEW Y, NEW L, Pins(d, R, Y, L), NEW A, NEW B, NEW C,
           \A x : x.slot # i => (x \in A <=> x \in R) /\ (x \in B <=> x \in Y) /\ (x \in C <=> x \in L),
           "reorder" \in h <=> \E x \in A : x.slot = i,
           "ready" \in h <=> \E x \in B : x.slot = i,
           "consumer" \in h <=> \E x \in C : x.slot = i,
           \A x, z \in A \cup B \cup C : x.slot = z.slot => x = z,
           A \cap B = {}, A \cap C = {}, B \cap C = {}
    PROVE  Pins(c, A, B, C)
<1>1. ASSUME NEW j \in Slot
      PROVE  /\ "reorder" \in c.slots[j].hold <=> \E x \in A : x.slot = j
             /\ "ready" \in c.slots[j].hold <=> \E x \in B : x.slot = j
             /\ "consumer" \in c.slots[j].hold <=> \E x \in C : x.slot = j
  <2>1. CASE j = i
    BY <2>1 DEF Reheld
  <2>2. CASE j # i
    <3>1. c.slots[j].hold = d.slots[j].hold
      BY <2>2 DEF Reheld
    <3>2. /\ "reorder" \in d.slots[j].hold <=> \E x \in R : x.slot = j
          /\ "ready" \in d.slots[j].hold <=> \E x \in Y : x.slot = j
          /\ "consumer" \in d.slots[j].hold <=> \E x \in L : x.slot = j
      BY DEF Pins
    <3>3. \A x : x.slot = j => x.slot # i
      BY <2>2
    <3> QED BY <3>1, <3>2, <3>3
  <2> QED BY <2>1, <2>2
<1> QED BY <1>1 DEF Pins

LEMMA PinsApart ==
    ASSUME NEW d, NEW R, NEW Y, NEW L, Pins(d, R, Y, L)
    PROVE  /\ \A x, z \in R \cup Y \cup L : x.slot = z.slot => x = z
           /\ R \cap Y = {} /\ R \cap L = {} /\ Y \cap L = {}
BY DEF Pins

LEMMA PinReady ==
    ASSUME NEW d, NEW c, NEW R, NEW Y, NEW L, Pins(d, R, Y, L), NEW x \in R, x.slot \in Slot,
           Reheld(d, x.slot, {"ready"}, c)
    PROVE  Pins(c, R \ {x}, Y \cup {x}, L)
<1>1. \A z, y \in R \cup Y \cup L : z.slot = y.slot => z = y
  BY PinsApart
<1>2. R \cap Y = {} /\ R \cap L = {} /\ Y \cap L = {}
  BY PinsApart
<1>3. \A z : z.slot # x.slot => (z \in R \ {x} <=> z \in R) /\ (z \in Y \cup {x} <=> z \in Y) /\ (z \in L <=> z \in L)
  OBVIOUS
<1>4. "reorder" \in {"ready"} <=> \E z \in R \ {x} : z.slot = x.slot
  BY <1>1
<1>5. "ready" \in {"ready"} <=> \E z \in Y \cup {x} : z.slot = x.slot
  OBVIOUS
<1>6. "consumer" \in {"ready"} <=> \E z \in L : z.slot = x.slot
  BY <1>1, <1>2
<1>7. \A z, y \in (R \ {x}) \cup (Y \cup {x}) \cup L : z.slot = y.slot => z = y
  BY <1>1
<1>8. (R \ {x}) \cap (Y \cup {x}) = {} /\ (R \ {x}) \cap L = {} /\ (Y \cup {x}) \cap L = {}
  BY <1>2
<1> QED BY <1>3, <1>4, <1>5, <1>6, <1>7, <1>8, Repinned

LEMMA PinConsumer ==
    ASSUME NEW d, NEW c, NEW R, NEW Y, NEW L, Pins(d, R, Y, L), NEW x \in Y, x.slot \in Slot,
           Reheld(d, x.slot, {"consumer"}, c)
    PROVE  Pins(c, R, Y \ {x}, L \cup {x})
<1>1. \A z, y \in R \cup Y \cup L : z.slot = y.slot => z = y
  BY PinsApart
<1>2. R \cap Y = {} /\ R \cap L = {} /\ Y \cap L = {}
  BY PinsApart
<1>3. \A z : z.slot # x.slot => (z \in R <=> z \in R) /\ (z \in Y \ {x} <=> z \in Y) /\ (z \in L \cup {x} <=> z \in L)
  OBVIOUS
<1>4. "reorder" \in {"consumer"} <=> \E z \in R : z.slot = x.slot
  BY <1>1, <1>2
<1>5. "ready" \in {"consumer"} <=> \E z \in Y \ {x} : z.slot = x.slot
  BY <1>1
<1>6. "consumer" \in {"consumer"} <=> \E z \in L \cup {x} : z.slot = x.slot
  OBVIOUS
<1>7. \A z, y \in R \cup (Y \ {x}) \cup (L \cup {x}) : z.slot = y.slot => z = y
  BY <1>1
<1>8. R \cap (Y \ {x}) = {} /\ R \cap (L \cup {x}) = {} /\ (Y \ {x}) \cap (L \cup {x}) = {}
  BY <1>2
<1> QED BY <1>3, <1>4, <1>5, <1>6, <1>7, <1>8, Repinned

\* A hold is given up.
LEMMA PinGone ==
    ASSUME NEW d, NEW c, NEW R, NEW Y, NEW L, Pins(d, R, Y, L), NEW x \in R \cup Y \cup L, x.slot \in Slot,
           Reheld(d, x.slot, {}, c)
    PROVE  Pins(c, R \ {x}, Y \ {x}, L \ {x})
<1>1. \A z, y \in R \cup Y \cup L : z.slot = y.slot => z = y
  BY PinsApart
<1>2. R \cap Y = {} /\ R \cap L = {} /\ Y \cap L = {}
  BY PinsApart
<1>3. \A z : z.slot # x.slot => (z \in R \ {x} <=> z \in R) /\ (z \in Y \ {x} <=> z \in Y) /\ (z \in L \ {x} <=> z \in L)
  OBVIOUS
<1>4. "reorder" \in {} <=> \E z \in R \ {x} : z.slot = x.slot
  BY <1>1
<1>5. "ready" \in {} <=> \E z \in Y \ {x} : z.slot = x.slot
  BY <1>1
<1>6. "consumer" \in {} <=> \E z \in L \ {x} : z.slot = x.slot
  BY <1>1
<1>7. \A z, y \in (R \ {x}) \cup (Y \ {x}) \cup (L \ {x}) : z.slot = y.slot => z = y
  BY <1>1
<1>8. (R \ {x}) \cap (Y \ {x}) = {} /\ (R \ {x}) \cap (L \ {x}) = {} /\ (Y \ {x}) \cap (L \ {x}) = {}
  BY <1>2
<1> QED BY <1>3, <1>4, <1>5, <1>6, <1>7, <1>8, Repinned

\* A slot that nothing holds is named by no entry.
LEMMA FreeIsUnnamed ==
    ASSUME NEW d, NEW R, NEW Y, NEW L, Pins(d, R, Y, L), NEW i \in Slot, d.slots[i].hold = {}
    PROVE  \A x \in R \cup Y \cup L : x.slot # i
BY DEF Pins

LEMMA PinNew ==
    ASSUME NEW d, NEW c, NEW R, NEW Y, NEW L, Pins(d, R, Y, L), NEW x, x.slot \in Slot,
           d.slots[x.slot].hold = {}, Reheld(d, x.slot, {"reorder"}, c)
    PROVE  Pins(c, R \cup {x}, Y, L) /\ x \notin R \cup Y \cup L
<1>1. \A z, y \in R \cup Y \cup L : z.slot = y.slot => z = y
  BY PinsApart
<1>2. R \cap Y = {} /\ R \cap L = {} /\ Y \cap L = {}
  BY PinsApart
<1>0. \A z \in R \cup Y \cup L : z.slot # x.slot
  BY FreeIsUnnamed
<1>3. \A z : z.slot # x.slot => (z \in R \cup {x} <=> z \in R) /\ (z \in Y <=> z \in Y) /\ (z \in L <=> z \in L)
  OBVIOUS
<1>4. "reorder" \in {"reorder"} <=> \E z \in R \cup {x} : z.slot = x.slot
  OBVIOUS
<1>5. "ready" \in {"reorder"} <=> \E z \in Y : z.slot = x.slot
  BY <1>0
<1>6. "consumer" \in {"reorder"} <=> \E z \in L : z.slot = x.slot
  BY <1>0
<1>7. \A z, y \in (R \cup {x}) \cup Y \cup L : z.slot = y.slot => z = y
  BY <1>0, <1>1
<1>8. (R \cup {x}) \cap Y = {} /\ (R \cup {x}) \cap L = {} /\ Y \cap L = {}
  BY <1>0, <1>2
<1>9. Pins(c, R \cup {x}, Y, L)
  BY <1>3, <1>4, <1>5, <1>6, <1>7, <1>8, Repinned
<1> QED BY <1>0, <1>9

\* The holds and epochs of another DPB that agrees.
LEMMA PinsAgree ==
    ASSUME NEW d, NEW c, NEW R, NEW Y, NEW L, Pins(d, R, Y, L), \A i \in Slot : c.slots[i].hold = d.slots[i].hold
    PROVE  Pins(c, R, Y, L)
BY DEF Pins

LEMMA TransferWorks ==
    ASSUME NEW d \in DpbType, NEW i \in Slot, NEW from \in Hold, NEW to \in Hold, from # to, NEW ep,
           d.slots[i].hold = {from}, d.slots[i].epoch = ep
    PROVE  Reheld(d, i, {to}, TransferHold(d, i, from, to, ep))
<1>1. ({from} \ {from}) \cup {to} = {to} /\ {to} \in SUBSET Hold
  OBVIOUS
<1>2. TransferHold(d, i, from, to, ep) = [d EXCEPT !.slots[i].hold = {to}]
  <2>1. [d EXCEPT !.slots[i].hold = (@ \ {from}) \cup {to}] = [d EXCEPT !.slots[i].hold = (d.slots[i].hold \ {from}) \cup {to}]
    BY DEF DpbType, SlotRec
  <2> QED BY <1>1, <2>1 DEF TransferHold
<1>3. Reheld(d, i, {to}, [d EXCEPT !.slots[i].hold = {to}])
  BY <1>1, Rehold
<1> QED BY <1>2, <1>3

LEMMA ReleaseWorks ==
    ASSUME NEW d \in DpbType, NEW i \in Slot, NEW why \in Hold, d.slots[i].hold = {why}
    PROVE  Reheld(d, i, {}, ReleaseHold(d, i, why))
<1>1. {why} \ {why} = {} /\ {} \in SUBSET Hold
  OBVIOUS
<1>2. ReleaseHold(d, i, why) = [d EXCEPT !.slots[i].hold = {}]
  <2>1. [d EXCEPT !.slots[i].hold = @ \ {why}] = [d EXCEPT !.slots[i].hold = d.slots[i].hold \ {why}]
    BY DEF DpbType, SlotRec
  <2> QED BY <1>1, <2>1 DEF ReleaseHold
<1>3. Reheld(d, i, {}, [d EXCEPT !.slots[i].hold = {}])
  BY <1>1, Rehold
<1> QED BY <1>2, <1>3

LEMMA AddWorks ==
    ASSUME NEW d \in DpbType, NEW i \in Slot, NEW why \in Hold, NEW ep, d.slots[i].hold = {}, d.slots[i].epoch = ep
    PROVE  Reheld(d, i, {why}, AddHold(d, i, why, ep))
<1>1. {} \cup {why} = {why} /\ {why} \in SUBSET Hold
  OBVIOUS
<1>2. AddHold(d, i, why, ep) = [d EXCEPT !.slots[i].hold = {why}]
  <2>1. [d EXCEPT !.slots[i].hold = @ \cup {why}] = [d EXCEPT !.slots[i].hold = d.slots[i].hold \cup {why}]
    BY DEF DpbType, SlotRec
  <2> QED BY <1>1, <2>1 DEF AddHold
<1>3. Reheld(d, i, {why}, [d EXCEPT !.slots[i].hold = {why}])
  BY <1>1, Rehold
<1> QED BY <1>2, <1>3

-----------------------------------------------------------------------------
\* The engine between two calls.

EngType == [codec : {"H264", "H265"}, dpb : DpbType, reorder_q : Seq(Entry), ready_q : Seq(Entry),
            max_num_reorder_pics : Nat, wait_for_idr : BOOLEAN]

\* A slot selected now is stamped with epoch ep: H.264 stamps the epoch of the DPB, H.265 leaves
\* the slot's own, which is 0 for ever.
Clocked(codec, d, ep) ==
    IF codec = "H264" THEN d.epoch = ep ELSE ep = 0 /\ \A i \in Slot : d.slots[i].epoch = 0

\* The holds are those of the queues, of the frames in L and, while a decoded picture is on its
\* way into reorder_q, of X.
EngSafe(e, X, L, ep) ==
    /\ e \in EngType /\ e.dpb.trap = "no" /\ e.dpb.current = NoSlot
    /\ NoDup(e.reorder_q) /\ NoDup(e.ready_q) /\ X \cap ToSet(e.reorder_q) = {} /\ X \in SUBSET Entry
    /\ Pins(e.dpb, ToSet(e.reorder_q) \cup X, ToSet(e.ready_q), L)
    /\ Stamped(e.dpb, ToSet(e.reorder_q) \cup ToSet(e.ready_q) \cup X, ep)
    /\ Clocked(e.codec, e.dpb, ep)

\* b is e after n bumps.
Bumped(e, b, n) ==
    /\ Len(b.reorder_q) + n = Len(e.reorder_q)
    /\ ToSet(b.reorder_q) \cup ToSet(b.ready_q) = ToSet(e.reorder_q) \cup ToSet(e.ready_q)
    /\ b.codec = e.codec /\ b.max_num_reorder_pics = e.max_num_reorder_pics /\ b.wait_for_idr = e.wait_for_idr

LEMMA LowestPocIn ==
    ASSUME NEW q \in Seq(Entry), q # <<>>
    PROVE  LowestPoc(q) \in 1 .. Len(q)
<1>1. PICK n \in Nat : n = Len(q) /\ DOMAIN q = 1 .. n /\ n # 0
  OBVIOUS
<1>2. \A i \in 1 .. n : q[i].poc \in Nat
  <2>1. \A i \in 1 .. n : q[i] \in Entry
    BY <1>1
  <2> QED BY <2>1 DEF Entry
<1>3. PICK P \in SUBSET Nat : P = {q[i].poc : i \in 1 .. n}
  BY <1>2
<1>4. P # {}
  <2>1. 1 \in 1 .. n
    BY <1>1
  <2>2. q[1].poc \in P
    BY <1>3, <2>1
  <2> QED BY <2>2
<1>5. PICK m \in P : \A y \in P : m <= y
  BY <1>4, LeastNat
<1>13. {i \in 1 .. n : q[i].poc = m} \in SUBSET Nat
  OBVIOUS
<1>6. PICK I \in SUBSET Nat : I = {i \in 1 .. n : q[i].poc = m}
  BY <1>13
<1>7. I # {}
  BY <1>3, <1>5, <1>6
<1>8. PICK i \in I : \A y \in I : i <= y
  BY <1>7, LeastNat
<1>9. i \in 1 .. n /\ q[i].poc = m /\ \A j \in 1 .. n : m <= q[j].poc
  BY <1>3, <1>5, <1>6
<1>10. \A j \in 1 .. i - 1 : q[j].poc > m
  <2> TAKE j \in 1 .. i - 1
  <2>1. j \in 1 .. n /\ j \notin I
    BY <1>8, <1>9
  <2>2. q[j].poc # m /\ m <= q[j].poc /\ q[j].poc \in Nat /\ m \in Nat
    BY <1>2, <1>6, <1>9, <2>1
  <2> QED BY <2>2
<1>11. \E k \in DOMAIN q : /\ \A j \in DOMAIN q : q[k].poc <= q[j].poc
                           /\ \A j \in 1 .. k - 1 : q[j].poc > q[k].poc
  BY <1>1, <1>9, <1>10
<1>12. LowestPoc(q) \in DOMAIN q
  BY <1>11 DEF LowestPoc
<1> QED BY <1>1, <1>12

LEMMA StampedReheld ==
    ASSUME NEW d, NEW c, NEW i, NEW h, Reheld(d, i, h, c), NEW S \in SUBSET Entry, NEW ep, Stamped(d, S, ep)
    PROVE  Stamped(c, S, ep)
<1>1. \A x \in S : x.slot \in Slot
  BY DEF Entry
<1> QED BY <1>1 DEF Stamped, Reheld

LEMMA ClockedReheld ==
    ASSUME NEW codec, NEW d, NEW c, NEW i, NEW h, Reheld(d, i, h, c), NEW ep, Clocked(codec, d, ep)
    PROVE  Clocked(codec, c, ep)
BY DEF Clocked, Reheld

LEMMA BumpLowestSafe ==
    ASSUME NEW e, NEW X, NEW L, NEW ep, EngSafe(e, X, L, ep), e.reorder_q # <<>>
    PROVE  EngSafe(BumpLowest(e), X, L, ep) /\ Bumped(e, BumpLowest(e), 1)
<1> DEFINE R == ToSet(e.reorder_q)
           Y == ToSet(e.ready_q)
<1>1. e \in EngType /\ e.reorder_q \in Seq(Entry) /\ e.ready_q \in Seq(Entry) /\ e.dpb \in DpbType
  BY DEF EngSafe, EngType
<1>2. R \in SUBSET Entry /\ Y \in SUBSET Entry
  BY <1>1 DEF ToSet
<1>3. PICK i : i = LowestPoc(e.reorder_q) /\ i \in 1 .. Len(e.reorder_q)
  BY <1>1, LowestPocIn
<1>4. PICK x \in Entry : x = e.reorder_q[i] /\ x \in R /\ x.slot \in Slot
  <2>1. i \in DOMAIN e.reorder_q
    BY <1>1, <1>3
  <2>2. e.reorder_q[i] \in Entry
    BY <1>1, <1>3
  <2> QED BY <2>1, <2>2 DEF ToSet, Entry
<1>5. /\ Pins(e.dpb, R \cup X, Y, L) /\ Stamped(e.dpb, R \cup Y \cup X, ep) /\ Clocked(e.codec, e.dpb, ep)
      /\ X \cap R = {} /\ X \in SUBSET Entry
  BY DEF EngSafe
<1>6. e.dpb.slots[x.slot].hold = {"reorder"}
  <2>1. x \in R \cup X
    BY <1>4
  <2> QED BY <1>1, <1>4, <1>5, <2>1, ReorderHold
<1>7. e.dpb.slots[x.slot].epoch = x.epoch
  BY <1>4, <1>5 DEF Stamped
<1>8. PICK d : d = TransferHold(e.dpb, x.slot, "reorder", "ready", x.epoch)
  OBVIOUS
<1>9. Reheld(e.dpb, x.slot, {"ready"}, d)
  <2>1. "reorder" \in Hold /\ "ready" \in Hold
    BY DEF Hold
  <2> QED BY <1>1, <1>4, <1>6, <1>7, <1>8, <2>1, TransferWorks
<1>10. d \in DpbType /\ d.trap = e.dpb.trap /\ d.current = e.dpb.current
  BY <1>9 DEF Reheld
<1>11. PICK r \in Seq(Entry) : /\ r = RemoveAt(e.reorder_q, i) /\ Len(r) = Len(e.reorder_q) - 1
                               /\ ToSet(r) = R \ {x} /\ NoDup(r)
  <2>1. NoDup(e.reorder_q)
    BY DEF EngSafe
  <2>2. RemoveAt(e.reorder_q, i) \in Seq(Entry) /\ Len(RemoveAt(e.reorder_q, i)) = Len(e.reorder_q) - 1
    BY <1>1, <1>3, RemoveFacts
  <2>3. ToSet(RemoveAt(e.reorder_q, i)) = R \ {x} /\ NoDup(RemoveAt(e.reorder_q, i))
    BY <1>1, <1>3, <1>4, <2>1, RemoveSet
  <2> QED BY <2>2, <2>3
<1>12. x \notin Y
  BY <1>4, <1>5 DEF Pins
<1>13. PICK y \in Seq(Entry) : y = Append(e.ready_q, x) /\ ToSet(y) = Y \cup {x} /\ NoDup(y)
  <2>1. NoDup(e.ready_q)
    BY DEF EngSafe
  <2>2. Append(e.ready_q, x) \in Seq(Entry)
    BY <1>1
  <2>3. ToSet(Append(e.ready_q, x)) = Y \cup {x} /\ NoDup(Append(e.ready_q, x))
    BY <1>1, <1>12, <2>1, AppendSet
  <2> QED BY <2>2, <2>3
<1>25. x \in R \cup X /\ (R \cup X) \ {x} = (R \ {x}) \cup X /\ X \cap (R \ {x}) = {}
  BY <1>4, <1>5
<1>14. Pins(d, (R \ {x}) \cup X, Y \cup {x}, L)
  <2>1. Pins(d, (R \cup X) \ {x}, Y \cup {x}, L)
    BY <1>4, <1>5, <1>9, <1>25, PinReady
  <2> QED BY <1>25, <2>1
<1>15. (R \ {x}) \cup (Y \cup {x}) = R \cup Y
  BY <1>4
<1>16. Stamped(d, R \cup Y \cup X, ep)
  <2>1. R \cup Y \cup X \in SUBSET Entry
    BY <1>2, <1>5
  <2> QED BY <1>5, <1>9, <2>1, StampedReheld
<1>17. Clocked(e.codec, d, ep)
  BY <1>5, <1>9, ClockedReheld
<1>18. PICK b : b = [e EXCEPT !.dpb = d, !.ready_q = y, !.reorder_q = r]
  OBVIOUS
<1>19. BumpLowest(e) = b
  BY <1>1, <1>3, <1>4, <1>8, <1>11, <1>13, <1>18 DEF BumpLowest, EngType
<1>20. /\ b \in EngType /\ b.dpb = d /\ b.ready_q = y /\ b.reorder_q = r /\ b.codec = e.codec
       /\ b.max_num_reorder_pics = e.max_num_reorder_pics /\ b.wait_for_idr = e.wait_for_idr
  BY <1>1, <1>10, <1>18 DEF EngType
<1>21. b.dpb.trap = "no" /\ b.dpb.current = NoSlot
  BY <1>10, <1>20 DEF EngSafe
<1>22. EngSafe(b, X, L, ep)
  BY <1>5, <1>11, <1>13, <1>14, <1>15, <1>16, <1>17, <1>20, <1>21, <1>25 DEF EngSafe
<1>23. Len(b.reorder_q) + 1 = Len(e.reorder_q)
  <2>1. Len(e.reorder_q) \in Nat
    BY <1>1
  <2> QED BY <1>11, <1>20, <2>1
<1>24. Bumped(e, b, 1)
  BY <1>11, <1>13, <1>15, <1>20, <1>23 DEF Bumped
<1> QED BY <1>19, <1>22, <1>24

LEMMA BumpSafe ==
    ASSUME NEW e, NEW X, NEW L, NEW ep, EngSafe(e, X, L, ep), NEW n \in Nat, n <= Len(e.reorder_q)
    PROVE  EngSafe(Bump(e, n), X, L, ep) /\ Bumped(e, Bump(e, n), n)
<1>1. PICK c : c[0] = e /\ Bump(e, n) = c[n] /\ \A k \in 1 .. n : c[k] = BumpOne(c[k - 1], k)
  BY BumpChain
<1> DEFINE Good(k) == EngSafe(c[k], X, L, ep) /\ Bumped(e, c[k], k)
<1>2. e.reorder_q \in Seq(Entry) /\ Len(e.reorder_q) \in Nat
  BY DEF EngSafe, EngType
<1>3. Good(0)
  BY <1>1, <1>2 DEF Bumped
<1>4. ASSUME NEW k \in 1 .. n, Good(k - 1) PROVE Good(k)
  <2>1. PICK a : a = c[k - 1]
    OBVIOUS
  <2>2. EngSafe(a, X, L, ep) /\ Bumped(e, a, k - 1)
    BY <1>4, <2>1
  <2>3. a.reorder_q \in Seq(Entry) /\ Len(a.reorder_q) \in Nat
    BY <2>2 DEF EngSafe, EngType
  <2>4. Len(a.reorder_q) + (k - 1) = Len(e.reorder_q)
    BY <2>2 DEF Bumped
  <2>5. Len(a.reorder_q) # 0
    BY <1>2, <2>3, <2>4
  <2>6. a.reorder_q # <<>>
    BY <2>5
  <2>7. PICK b : b = BumpLowest(a) /\ EngSafe(b, X, L, ep) /\ Bumped(a, b, 1)
    BY <2>2, <2>6, BumpLowestSafe
  <2>8. b.reorder_q \in Seq(Entry) /\ Len(b.reorder_q) \in Nat
    BY <2>7 DEF EngSafe, EngType
  <2>9. Len(b.reorder_q) + 1 = Len(a.reorder_q)
    BY <2>7 DEF Bumped
  <2>10. Len(b.reorder_q) + k = Len(e.reorder_q)
    <3>1. PICK u \in Int : u = Len(a.reorder_q)
      BY <2>3
    <3>2. PICK v \in Int : v = Len(b.reorder_q)
      BY <2>8
    <3>3. PICK w \in Int : w = Len(e.reorder_q)
      BY <1>2
    <3>4. v + 1 = u /\ u + (k - 1) = w
      BY ONLY <2>4, <2>9, <3>1, <3>2, <3>3, Zenon
    <3>5. v + k = w
      BY ONLY <3>4, k \in Int, u \in Int, v \in Int, w \in Int
    <3> QED BY ONLY <3>2, <3>3, <3>5, Zenon
  <2>11. Bumped(e, b, k)
    BY <2>2, <2>7, <2>10 DEF Bumped
  <2>12. c[k] = b
    BY <1>1, <2>1, <2>7 DEF BumpOne
  <2> QED BY <2>7, <2>11, <2>12
<1> HIDE DEF Good
<1>5. SUFFICES Good(n)
  BY <1>1 DEF Good
<1>6. SUFFICES ASSUME ~Good(n) PROVE FALSE
  OBVIOUS
<1>13. {k \in 0 .. n : ~Good(k)} \in SUBSET Nat
  OBVIOUS
<1>7. PICK Bad \in SUBSET Nat : Bad = {k \in 0 .. n : ~Good(k)}
  BY <1>13
<1>8. Bad # {}
  BY <1>6, <1>7
<1>9. PICK k \in Bad : \A y \in Bad : k <= y
  BY <1>8, LeastNat
<1>10. k # 0 /\ k \in 1 .. n
  BY <1>3, <1>7, <1>9
<1>11. k - 1 \notin Bad /\ k - 1 \in 0 .. n
  BY <1>9, <1>10
<1>12. Good(k - 1)
  BY <1>7, <1>11
<1> QED BY <1>4, <1>7, <1>9, <1>10, <1>12

LEMMA DrainSafe ==
    ASSUME NEW e, NEW X, NEW L, NEW ep, EngSafe(e, X, L, ep)
    PROVE  EngSafe(DrainAll(e), X, L, ep) /\ Bumped(e, DrainAll(e), Len(e.reorder_q))
<1>1. Len(e.reorder_q) \in Nat
  BY DEF EngSafe, EngType
<1>2. PICK n \in Nat : n = Len(e.reorder_q) /\ n <= Len(e.reorder_q)
  BY <1>1
<1> QED BY <1>2, BumpSafe DEF DrainAll

-----------------------------------------------------------------------------
\* Submitting a picture.

Waiting(e) == ToSet(e.reorder_q) \cup ToSet(e.ready_q)

LEMMA ReorderNat == \A e : MaxReorder(e) \in Nat
<1>1. SpsReorder \in Nat /\ SpsRefFrames \in Nat
  BY EngineAssumption
<1> QED BY <1>1 DEF MaxReorder, kMaxReorderPics

Pushed(e, x, m) == [e EXCEPT !.reorder_q = Append(@, x), !.max_num_reorder_pics = m]

\* Pushing the picture whose hold was just taken.
LEMMA PushSafe ==
    ASSUME NEW e, NEW x \in Entry, NEW L, NEW ep, EngSafe(e, {x}, L, ep), NEW m \in Nat,
           NEW p, p = Pushed(e, x, m)
    PROVE  EngSafe(p, {}, L, ep) /\ Waiting(p) = Waiting(e) \cup {x} /\ p.codec = e.codec /\ p.max_num_reorder_pics = m
<1>1. e \in EngType /\ e.reorder_q \in Seq(Entry)
  BY DEF EngSafe, EngType
<1>2. x \notin ToSet(e.reorder_q) /\ NoDup(e.reorder_q)
  BY DEF EngSafe
<1>3. PICK r \in Seq(Entry) : r = Append(e.reorder_q, x) /\ ToSet(r) = ToSet(e.reorder_q) \cup {x} /\ NoDup(r)
  <2>1. Append(e.reorder_q, x) \in Seq(Entry)
    BY <1>1
  <2>2. ToSet(Append(e.reorder_q, x)) = ToSet(e.reorder_q) \cup {x} /\ NoDup(Append(e.reorder_q, x))
    BY <1>1, <1>2, AppendSet
  <2> QED BY <2>1, <2>2
<1>4. p = [e EXCEPT !.reorder_q = r, !.max_num_reorder_pics = m]
  BY <1>1, <1>3 DEF EngType, Pushed
<1>6. /\ p \in EngType /\ p.reorder_q = r /\ p.dpb = e.dpb /\ p.ready_q = e.ready_q /\ p.codec = e.codec
      /\ p.max_num_reorder_pics = m
  BY <1>1, <1>4 DEF EngType
<1>7. /\ ToSet(p.reorder_q) \cup {} = ToSet(e.reorder_q) \cup {x}
      /\ ToSet(p.reorder_q) \cup ToSet(p.ready_q) \cup {} = ToSet(e.reorder_q) \cup ToSet(e.ready_q) \cup {x}
      /\ {} \cap ToSet(p.reorder_q) = {} /\ {} \in SUBSET Entry
  BY <1>3, <1>6
<1>8. EngSafe(p, {}, L, ep)
  BY <1>3, <1>6, <1>7 DEF EngSafe
<1>9. Waiting(p) = Waiting(e) \cup {x}
  BY <1>7 DEF Waiting
<1> QED BY <1>6, <1>8, <1>9

LEMMA EnqueueSafe ==
    ASSUME NEW e, NEW x \in Entry, NEW L, NEW ep, EngSafe(e, {x}, L, ep), NEW idr
    PROVE  LET b == Enqueue(e, x, idr)
           IN /\ EngSafe(b, {}, L, ep) /\ Waiting(b) = Waiting(e) \cup {x} /\ b.codec = e.codec
              /\ b.max_num_reorder_pics = MaxReorder(e) /\ Len(b.reorder_q) <= b.max_num_reorder_pics
<1>1. PICK m \in Nat : m = MaxReorder(e)
  BY ReorderNat
<1>2. PICK s : s = IF e.codec = "H264" /\ idr THEN DrainAll(e) ELSE e
  OBVIOUS
<1>3. EngSafe(s, {x}, L, ep) /\ Waiting(s) = Waiting(e) /\ s.codec = e.codec
  <2>1. CASE s = e
    BY <2>1
  <2>2. CASE s = DrainAll(e)
    <3>1. EngSafe(s, {x}, L, ep)
      BY <2>2, DrainSafe
    <3>2. Bumped(e, s, Len(e.reorder_q))
      BY <2>2, DrainSafe
    <3> QED BY <3>1, <3>2 DEF Bumped, Waiting
  <2> QED BY <1>2, <2>1, <2>2
<1>4. PICK p : p = Pushed(s, x, m)
  OBVIOUS
<1>5. EngSafe(p, {}, L, ep) /\ Waiting(p) = Waiting(e) \cup {x} /\ p.codec = e.codec /\ p.max_num_reorder_pics = m
  <2>1. EngSafe(p, {}, L, ep) /\ Waiting(p) = Waiting(s) \cup {x} /\ p.codec = s.codec /\ p.max_num_reorder_pics = m
    BY <1>3, <1>4, PushSafe
  <2> QED BY <1>3, <2>1
<1>6. Len(p.reorder_q) \in Nat
  BY <1>5 DEF EngSafe, EngType
<1>7. PICK b : b = IF Len(p.reorder_q) - m > 0 THEN Bump(p, Len(p.reorder_q) - m) ELSE p
  OBVIOUS
<1>8. b = Enqueue(e, x, idr)
  BY <1>1, <1>2, <1>4, <1>7 DEF Enqueue, Pushed
<1>9. CASE Len(p.reorder_q) - m > 0
  <2>1. PICK n \in Nat : n = Len(p.reorder_q) - m /\ n <= Len(p.reorder_q)
    BY <1>6, <1>9
  <2>2. EngSafe(b, {}, L, ep)
    BY <1>5, <1>7, <1>9, <2>1, BumpSafe
  <2>3. Bumped(p, b, n)
    BY <1>5, <1>7, <1>9, <2>1, BumpSafe
  <2>4. Waiting(b) = Waiting(p) /\ b.codec = p.codec /\ b.max_num_reorder_pics = p.max_num_reorder_pics
    BY <2>3 DEF Bumped, Waiting
  <2>5. Len(b.reorder_q) + n = Len(p.reorder_q)
    BY <2>3 DEF Bumped
  <2>6. Len(b.reorder_q) \in Nat
    BY <2>2 DEF EngSafe, EngType
  <2>7. Len(b.reorder_q) <= m
    <3>1. \A u, v, w, j \in Int : u + v = w /\ v = w - j => u <= j
      OBVIOUS
    <3>2. Len(b.reorder_q) \in Int /\ n \in Int /\ Len(p.reorder_q) \in Int /\ m \in Int
      BY <1>6, <2>6
    <3> QED BY ONLY <2>1, <2>5, <3>1, <3>2, Zenon
  <2> QED BY <1>1, <1>5, <1>8, <2>2, <2>4, <2>7
<1>10. CASE ~(Len(p.reorder_q) - m > 0)
  <2>1. b = p
    BY <1>7, <1>10
  <2>2. Len(p.reorder_q) <= m
    BY <1>6, <1>10
  <2> QED BY <1>1, <1>5, <1>8, <2>1, <2>2
<1> QED BY <1>9, <1>10

\* c is d after a decode that queued nothing: the holds are the same, and only a slot that nothing
\* holds may have been stamped.
Quiet(d, c, ep) ==
    /\ c \in DpbType /\ c.trap = d.trap /\ c.epoch = d.epoch /\ c.current = NoSlot
    /\ \A i \in Slot : /\ c.slots[i].hold = d.slots[i].hold
                       /\ c.slots[i].epoch = d.slots[i].epoch \/ (d.slots[i].hold = {} /\ c.slots[i].epoch = ep)

LEMMA KeepsQuiet ==
    ASSUME NEW d, NEW c, NEW ep, d.current = NoSlot, Keeps(d, c)
    PROVE  Quiet(d, c, ep)
BY DEF Keeps, Quiet

LEMMA ChosenQuiet ==
    ASSUME NEW d, NEW s, NEW c, NEW ep, Chosen(d, s, ep), Settled(s, c)
    PROVE  Quiet(d, c, ep) /\ c.slots[s.current].epoch = ep /\ c.slots[s.current].hold = {}
BY DEF Chosen, Settled, Quiet

Barred(e, c) == [e EXCEPT !.dpb = c, !.wait_for_idr = TRUE]
Admitted(e, c) == [e EXCEPT !.dpb = c, !.wait_for_idr = FALSE]

LEMMA QuietSafe ==
    ASSUME NEW e, NEW L, NEW ep, EngSafe(e, {}, L, ep), NEW c, Quiet(e.dpb, c, ep),
           NEW b, b = Barred(e, c) \/ b = Admitted(e, c)
    PROVE  /\ EngSafe(b, {}, L, ep) /\ b.dpb = c /\ b.reorder_q = e.reorder_q /\ b.ready_q = e.ready_q
           /\ b.codec = e.codec /\ b.max_num_reorder_pics = e.max_num_reorder_pics
<1>2. /\ b \in EngType /\ b.dpb = c /\ b.reorder_q = e.reorder_q /\ b.ready_q = e.ready_q
      /\ b.codec = e.codec /\ b.max_num_reorder_pics = e.max_num_reorder_pics
  BY DEF EngSafe, EngType, Quiet, Barred, Admitted
<1>3. c.trap = "no" /\ c.current = NoSlot
  BY DEF EngSafe, Quiet
<1> DEFINE S == ToSet(e.reorder_q) \cup ToSet(e.ready_q) \cup {}
<1>4. Pins(e.dpb, ToSet(e.reorder_q) \cup {}, ToSet(e.ready_q), L) /\ Stamped(e.dpb, S, ep) /\ Clocked(e.codec, e.dpb, ep)
  BY DEF EngSafe
<1>5. Pins(c, ToSet(e.reorder_q) \cup {}, ToSet(e.ready_q), L)
  <2>1. \A i \in Slot : c.slots[i].hold = e.dpb.slots[i].hold
    BY DEF Quiet
  <2> QED BY <1>4, <2>1, PinsAgree
<1>6. Stamped(c, S, ep)
  <2>1. S \in SUBSET Entry
    BY DEF EngSafe, EngType, ToSet
  <2>2. \A x \in S : x.slot \in Slot
    BY <2>1 DEF Entry
  <2> QED BY <1>4, <2>2 DEF Stamped, Quiet
<1>7. Clocked(e.codec, c, ep)
  BY <1>4 DEF Clocked, Quiet
<1>8. EngSafe(b, {}, L, ep)
  <2>1. /\ NoDup(e.reorder_q) /\ NoDup(e.ready_q) /\ {} \cap ToSet(e.reorder_q) = {} /\ {} \in SUBSET Entry
    BY DEF EngSafe
  <2> QED BY <1>2, <1>3, <1>5, <1>6, <1>7, <2>1 DEF EngSafe
<1> QED BY <1>2, <1>8

\* The hold of a decoded picture.
LEMMA HeldSafe ==
    ASSUME NEW e, NEW L, NEW ep, EngSafe(e, {}, L, ep), NEW x \in Entry, x.epoch = ep,
           e.dpb.slots[x.slot].hold = {}, e.dpb.slots[x.slot].epoch = ep
    PROVE  LET b == [e EXCEPT !.dpb = AddHold(@, x.slot, "reorder", ep)]
           IN EngSafe(b, {x}, L, ep) /\ Waiting(b) = Waiting(e) /\ b.codec = e.codec
<1>1. e \in EngType /\ e.dpb \in DpbType /\ x.slot \in Slot
  BY DEF EngSafe, EngType, Entry
<1>2. PICK d : d = AddHold(e.dpb, x.slot, "reorder", ep)
  OBVIOUS
<1>3. Reheld(e.dpb, x.slot, {"reorder"}, d)
  <2>1. "reorder" \in Hold
    BY DEF Hold
  <2> QED BY <1>1, <1>2, <2>1, AddWorks
<1>4. d \in DpbType /\ d.trap = e.dpb.trap /\ d.current = e.dpb.current
  BY <1>3 DEF Reheld
<1>5. PICK b : b = [e EXCEPT !.dpb = d]
  OBVIOUS
<1>6. b = [e EXCEPT !.dpb = AddHold(@, x.slot, "reorder", ep)]
  BY <1>1, <1>2, <1>5 DEF EngType
<1>7. b \in EngType /\ b.dpb = d /\ b.reorder_q = e.reorder_q /\ b.ready_q = e.ready_q /\ b.codec = e.codec
  BY <1>1, <1>4, <1>5 DEF EngType
<1> DEFINE R == ToSet(e.reorder_q)
           Y == ToSet(e.ready_q)
<1>8. Pins(e.dpb, R \cup {}, Y, L) /\ Stamped(e.dpb, R \cup Y \cup {}, ep) /\ Clocked(e.codec, e.dpb, ep)
  BY DEF EngSafe
<1>9. Pins(d, (R \cup {}) \cup {x}, Y, L) /\ x \notin (R \cup {}) \cup Y \cup L
  BY <1>1, <1>3, <1>8, PinNew
<1>10. (R \cup {}) \cup {x} = R \cup {x} /\ {x} \cap R = {} /\ {x} \in SUBSET Entry
  BY <1>9
<1>11. Stamped(d, R \cup Y \cup {x}, ep)
  <2>1. R \cup Y \cup {} \in SUBSET Entry
    BY <1>1 DEF EngType, ToSet
  <2>2. Stamped(d, R \cup Y \cup {}, ep)
    BY <1>3, <1>8, <2>1, StampedReheld
  <2>3. d.slots[x.slot].epoch = ep
    BY <1>1, <1>3 DEF Reheld
  <2> QED BY <2>2, <2>3 DEF Stamped
<1>12. Clocked(e.codec, d, ep)
  BY <1>3, <1>8, ClockedReheld
<1>13. d.trap = "no" /\ d.current = NoSlot /\ NoDup(e.reorder_q) /\ NoDup(e.ready_q)
  BY <1>4 DEF EngSafe
<1>14. EngSafe(b, {x}, L, ep)
  BY <1>7, <1>9, <1>10, <1>11, <1>12, <1>13 DEF EngSafe
<1>15. Waiting(b) = Waiting(e)
  BY <1>7 DEF Waiting
<1> QED BY <1>6, <1>7, <1>14, <1>15

LEMMA SelectedTakes ==
    ASSUME NEW e, NEW L, NEW ep, EngSafe(e, {}, L, ep), NEW au \in Unit
    PROVE  Keeps(e.dpb, Selected(e, au)) \/ Chosen(e.dpb, Selected(e, au), ep)
<1>1. e.dpb \in DpbType /\ e.dpb.current = NoSlot /\ e.codec \in {"H264", "H265"}
  BY DEF EngSafe, EngType
<1>2. Clocked(e.codec, e.dpb, ep)
  BY DEF EngSafe
<1>3. CASE e.codec = "H264"
  <2>1. SpsRefFrames \in Nat
    BY EngineAssumption
  <2>2. Keeps(e.dpb, Select264(e.dpb, au, SpsRefFrames)) \/ Chosen(e.dpb, Select264(e.dpb, au, SpsRefFrames), e.dpb.epoch)
    BY <1>1, <2>1, Select264Takes
  <2> QED BY <1>2, <1>3, <2>2 DEF Selected, Clocked
<1>4. CASE e.codec = "H265"
  <2>1. PICK s : s = Select265(e.dpb, au)
    OBVIOUS
  <2>2. Keeps(e.dpb, s) \/ \E i \in Slot : i = s.current /\ Chosen(e.dpb, s, e.dpb.slots[i].epoch)
    BY <1>1, <2>1, Select265Takes
  <2>3. ep = 0 /\ \A i \in Slot : e.dpb.slots[i].epoch = 0
    BY <1>2, <1>4 DEF Clocked
  <2>4. Selected(e, au) = s
    BY <1>4, <2>1 DEF Selected
  <2>5. \A i \in Slot : e.dpb.slots[i].epoch = ep
    BY <2>3
  <2> QED BY <2>2, <2>4, <2>5
<1> QED BY <1>1, <1>3, <1>4

\* What a decode leaves: nothing queued, or a picture in a slot that nothing held.
Idle(e, b) ==
    /\ b.reorder_q = e.reorder_q /\ b.ready_q = e.ready_q
    /\ b.codec = e.codec /\ b.max_num_reorder_pics = e.max_num_reorder_pics

Taken(e, b, x) ==
    /\ Waiting(b) = Waiting(e) \cup {x} /\ b.codec = e.codec
    /\ b.max_num_reorder_pics = MaxReorder(e) /\ Len(b.reorder_q) <= b.max_num_reorder_pics

EntryOf(e, au, ep) == [poc |-> au.poc, slot |-> Selected(e, au).current, epoch |-> ep, id |-> au.id]

\* The epoch of EngSafe is the one the next slot will carry.
LEMMA SafeEpoch ==
    ASSUME NEW e, NEW X, NEW L, NEW ep, EngSafe(e, X, L, ep)
    PROVE  ep = SlotEpoch(e)
BY DEF EngSafe, EngType, Clocked, SlotEpoch

\* A picture tagged with an epoch that is not its slot's trips AddHold, and nothing else happens.
Tripped(e, b) ==
    /\ b \in EngType /\ b.dpb.trap = "tag" /\ Idle(e, b) /\ b.dpb.epoch = e.dpb.epoch

LEMMA TrippedOnce ==
    ASSUME NEW e \in EngType, NEW c \in DpbType, c.epoch = e.dpb.epoch, NEW i \in Slot, c.slots[i].hold = {},
           NEW t, c.slots[i].epoch # t,
           NEW b, b = [e EXCEPT !.dpb = AddHold(c, i, "reorder", t), !.wait_for_idr = FALSE]
    PROVE  Tripped(e, b)
<1>1. PICK f : f = [c EXCEPT !.trap = "tag"]
  OBVIOUS
<1>2. f \in DpbType /\ f.trap = "tag" /\ f.epoch = c.epoch
  BY <1>1 DEF DpbType
<1>3. AddHold(c, i, "reorder", t) = f
  BY <1>1 DEF AddHold
<1>4. b = [e EXCEPT !.dpb = f, !.wait_for_idr = FALSE]
  BY <1>3
<1>5. /\ b \in EngType /\ b.dpb = f /\ b.reorder_q = e.reorder_q /\ b.ready_q = e.ready_q
      /\ b.codec = e.codec /\ b.max_num_reorder_pics = e.max_num_reorder_pics
  BY <1>2, <1>4 DEF EngType
<1> QED BY <1>2, <1>5 DEF Tripped, Idle

LEMMA SubmittedSafe ==
    ASSUME NEW e, NEW L, NEW ep \in Nat, EngSafe(e, {}, L, ep), NEW au \in Unit,
           NEW outcome \in {"rejected", "failed", "decoded"}, NEW t \in Nat
    PROVE  LET b == Submitted(e, au, outcome, t)
           IN \/ EngSafe(b, {}, L, ep) /\ Idle(e, b)
              \/ /\ t = ep /\ EngSafe(b, {}, L, ep)
                 /\ ~Gated(e, au) /\ outcome = "decoded" /\ Selected(e, au).current # NoSlot
                 /\ EntryOf(e, au, t) \in Entry /\ Taken(e, b, EntryOf(e, au, t))
              \/ t # ep /\ Tripped(e, b)
<1>0. e \in EngType /\ e.dpb \in DpbType /\ e.dpb.current = NoSlot /\ e.codec \in {"H264", "H265"}
  BY DEF EngSafe, EngType
<1>1. PICK s : s = Selected(e, au)
  OBVIOUS
<1>2. PICK c : c = IF e.codec = "H264" THEN Complete264(s) ELSE Complete265(s)
  OBVIOUS
<1>3. PICK r : r = DecodeOne(e.dpb, s, c, outcome)
  OBVIOUS
<1>4. r = IF e.codec = "H264" THEN DecodeOne_H264(e.dpb, au, outcome) ELSE DecodeOne_H265(e.dpb, au, outcome)
  <2>1. CASE e.codec = "H264"
    BY <1>1, <1>2, <1>3, <2>1 DEF Selected, DecodeOne_H264
  <2>2. CASE e.codec # "H264"
    BY <1>1, <1>2, <1>3, <2>2 DEF Selected, DecodeOne_H265
  <2> QED BY <2>1, <2>2
<1>5. Keeps(e.dpb, s) \/ Chosen(e.dpb, s, ep)
  BY <1>1, SelectedTakes
<1>6. NoSlot \notin Slot
  BY PoolAssumption DEF NoSlot, Slot
<1>7. s \in DpbType
  BY <1>5 DEF Keeps, Chosen
<1>8. PICK b : b = Submitted(e, au, outcome, t)
  OBVIOUS
<1>9. CASE Gated(e, au)
  <2>1. b = e
    BY <1>8, <1>9 DEF Submitted
  <2> QED BY <1>8, <2>1 DEF Idle
<1>10. ASSUME ~Gated(e, au), NEW d, Quiet(e.dpb, d, ep), r.rc # 0, r.dpb = d
       PROVE  EngSafe(b, {}, L, ep) /\ Idle(e, b)
  <2>1. b = Barred(e, d)
    BY <1>4, <1>8, <1>10 DEF Submitted, Barred
  <2>2. /\ EngSafe(b, {}, L, ep) /\ b.reorder_q = e.reorder_q /\ b.ready_q = e.ready_q
        /\ b.codec = e.codec /\ b.max_num_reorder_pics = e.max_num_reorder_pics
    BY <1>10, <2>1, QuietSafe
  <2> QED BY <2>2 DEF Idle
<1>11. CASE ~Gated(e, au) /\ outcome = "rejected"
  <2>1. r.rc # 0 /\ r.dpb = e.dpb
    BY <1>3, <1>11 DEF DecodeOne
  <2>2. Quiet(e.dpb, e.dpb, ep)
    BY <1>0, KeepsItself, KeepsQuiet
  <2> QED BY <1>8, <1>10, <1>11, <2>1, <2>2
<1>12. CASE ~Gated(e, au) /\ outcome # "rejected" /\ s.current = NoSlot
  <2>1. r.rc # 0 /\ r.dpb = s
    BY <1>3, <1>12 DEF DecodeOne
  <2>2. Keeps(e.dpb, s)
    BY <1>5, <1>6, <1>12 DEF Chosen
  <2>3. Quiet(e.dpb, s, ep)
    BY <1>0, <2>2, KeepsQuiet
  <2> QED BY <1>8, <1>10, <1>12, <2>1, <2>3
<1>13. CASE ~Gated(e, au) /\ outcome = "failed" /\ s.current # NoSlot
  <2>1. r.rc # 0 /\ r.dpb = Failed(s)
    BY <1>3, <1>13 DEF DecodeOne
  <2>2. Chosen(e.dpb, s, ep)
    BY <1>0, <1>5, <1>13 DEF Keeps
  <2>3. Settled(s, Failed(s))
    BY <1>7, FailedSettles
  <2>4. Quiet(e.dpb, Failed(s), ep)
    BY <2>2, <2>3, ChosenQuiet
  <2> QED BY <1>8, <1>10, <1>13, <2>1, <2>4
<1>15. CASE ~Gated(e, au) /\ outcome = "decoded" /\ s.current # NoSlot /\ t # ep
  <2>1. r.rc = 0 /\ r.dpb = c /\ r.slot = s.current
    BY <1>3, <1>15 DEF DecodeOne
  <2>2. Chosen(e.dpb, s, ep)
    BY <1>0, <1>5, <1>15 DEF Keeps
  <2>3. s.current \in Slot
    BY <2>2 DEF Chosen
  <2>4. Settled(s, c)
    BY <1>2, <1>7, <2>3, Complete264Settles, Complete265Settles
  <2>5. c \in DpbType /\ c.epoch = e.dpb.epoch
    BY <2>2, <2>4, ChosenQuiet DEF Quiet
  <2>6. c.slots[s.current].epoch = ep /\ c.slots[s.current].hold = {}
    BY <2>2, <2>4, ChosenQuiet
  <2>7. PICK g : g = [e EXCEPT !.dpb = AddHold(c, s.current, "reorder", t), !.wait_for_idr = FALSE]
    OBVIOUS
  <2>8. Tripped(e, g)
    BY <1>0, <1>15, <2>3, <2>5, <2>6, <2>7, TrippedOnce
  <2>9. g.dpb.trap # "no"
    BY <2>8 DEF Tripped
  <2>10. b = g
    BY <1>4, <1>8, <1>15, <2>1, <2>7, <2>9 DEF Submitted
  <2> QED BY <1>8, <1>15, <2>8, <2>10
<1>14. CASE ~Gated(e, au) /\ outcome = "decoded" /\ s.current # NoSlot /\ t = ep
  <2>1. r.rc = 0 /\ r.dpb = c /\ r.slot = s.current
    BY <1>3, <1>14 DEF DecodeOne
  <2>2. Chosen(e.dpb, s, ep)
    BY <1>0, <1>5, <1>14 DEF Keeps
  <2>3. s.current \in Slot
    BY <2>2 DEF Chosen
  <2>4. Settled(s, c)
    BY <1>2, <1>7, <2>3, Complete264Settles, Complete265Settles
  <2>5. Quiet(e.dpb, c, ep)
    BY <2>2, <2>4, ChosenQuiet
  <2>6. c.slots[s.current].epoch = ep /\ c.slots[s.current].hold = {}
    BY <2>2, <2>4, ChosenQuiet
  <2>20. EntryOf(e, au, ep).slot = s.current /\ EntryOf(e, au, ep).epoch = ep
    BY <1>1 DEF EntryOf
  <2>7. PICK x : x = EntryOf(e, au, ep) /\ x.slot = s.current /\ x.epoch = ep
    BY <2>20
  <2>8. x \in Entry
    BY <1>1, <2>3, <2>7 DEF EntryOf, Entry, Unit
  <2>9. PICK f : f = Admitted(e, c)
    OBVIOUS
  <2>10. EngSafe(f, {}, L, ep) /\ f.dpb = c /\ Idle(e, f)
    <3>1. /\ EngSafe(f, {}, L, ep) /\ f.dpb = c /\ f.reorder_q = e.reorder_q /\ f.ready_q = e.ready_q
          /\ f.codec = e.codec /\ f.max_num_reorder_pics = e.max_num_reorder_pics
      BY <2>5, <2>9, QuietSafe
    <3> QED BY <3>1 DEF Idle
  <2>11. PICK g : g = [f EXCEPT !.dpb = AddHold(@, x.slot, "reorder", ep)]
    OBVIOUS
  <2>12. EngSafe(g, {x}, L, ep) /\ Waiting(g) = Waiting(f) /\ g.codec = f.codec
    <3>1. LET v == [f EXCEPT !.dpb = AddHold(@, x.slot, "reorder", ep)]
          IN EngSafe(v, {x}, L, ep) /\ Waiting(v) = Waiting(f) /\ v.codec = f.codec
      BY <2>6, <2>7, <2>8, <2>10, HeldSafe
    <3> QED BY <2>11, <3>1
  <2>13. g = [e EXCEPT !.dpb = AddHold(c, s.current, "reorder", ep), !.wait_for_idr = FALSE]
    BY <1>0, <2>7, <2>9, <2>11 DEF EngType, Admitted
  <2>14. x = [poc |-> au.poc, slot |-> r.slot, epoch |-> ep, id |-> au.id]
    BY <1>1, <2>1, <2>7 DEF EntryOf
  <2>21. g.dpb.trap = "no"
    BY <2>12 DEF EngSafe
  <2>15. b = Enqueue(g, x, au.nal = "idr")
    BY <1>4, <1>8, <1>14, <2>1, <2>13, <2>14, <2>21 DEF Submitted
  <2>16. /\ EngSafe(b, {}, L, ep) /\ Waiting(b) = Waiting(g) \cup {x} /\ b.codec = g.codec
         /\ b.max_num_reorder_pics = MaxReorder(g) /\ Len(b.reorder_q) <= b.max_num_reorder_pics
    <3>1. PICK idr : idr = (au.nal = "idr")
      OBVIOUS
    <3>2. EngSafe(g, {x}, L, ep)
      BY <2>12
    <3>3. LET v == Enqueue(g, x, idr)
          IN /\ EngSafe(v, {}, L, ep) /\ Waiting(v) = Waiting(g) \cup {x} /\ v.codec = g.codec
             /\ v.max_num_reorder_pics = MaxReorder(g) /\ Len(v.reorder_q) <= v.max_num_reorder_pics
      BY ONLY <2>8, <3>2, EnqueueSafe
    <3>4. b = Enqueue(g, x, idr)
      BY <2>15, <3>1
    <3> QED BY <3>3, <3>4
  <2>17. Waiting(f) = Waiting(e) /\ f.codec = e.codec
    BY <2>10 DEF Idle, Waiting
  <2>18. MaxReorder(g) = MaxReorder(e)
    BY <2>12, <2>17 DEF MaxReorder
  <2>19. Taken(e, b, x)
    BY <2>12, <2>16, <2>17, <2>18 DEF Taken
  <2> QED BY <1>1, <1>8, <1>14, <2>7, <2>8, <2>16, <2>19
<1> QED BY <1>1, <1>9, <1>11, <1>12, <1>13, <1>14, <1>15

\* The buffer a decode writes is named by no queue entry and no frame.
LEMMA WrittenUnnamed ==
    ASSUME NEW e, NEW L, NEW ep, EngSafe(e, {}, L, ep), NEW au \in Unit, Selected(e, au).current # NoSlot
    PROVE  Selected(e, au).current \in Slot /\ \A z \in Waiting(e) \cup L : z.slot # Selected(e, au).current
<1>1. Chosen(e.dpb, Selected(e, au), ep)
  <2>1. e.dpb.current = NoSlot
    BY DEF EngSafe
  <2> QED BY <2>1, SelectedTakes DEF Keeps
<1>2. PICK i \in Slot : i = Selected(e, au).current /\ e.dpb.slots[i].hold = {}
  BY <1>1 DEF Chosen
<1>3. Pins(e.dpb, ToSet(e.reorder_q) \cup {}, ToSet(e.ready_q), L)
  BY DEF EngSafe
<1>4. \A z \in (ToSet(e.reorder_q) \cup {}) \cup ToSet(e.ready_q) \cup L : z.slot # i
  BY <1>2, <1>3, FreeIsUnnamed
<1> QED BY <1>2, <1>4 DEF Waiting

-----------------------------------------------------------------------------
\* Polling and releasing frames.

Polled(e) ==
    LET x == Head(e.ready_q)
    IN [e EXCEPT !.ready_q = Tail(@), !.dpb = TransferHold(@, x.slot, "ready", "consumer", x.epoch)]

LEMMA PolledSafe ==
    ASSUME NEW e, NEW L, NEW ep, EngSafe(e, {}, L, ep), e.ready_q # <<>>,
           NEW b, b = Polled(e), NEW x, x = Head(e.ready_q)
    PROVE  /\ EngSafe(b, {}, L \cup {x}, ep) /\ x \in Waiting(e) /\ Waiting(b) \subseteq Waiting(e) /\ x \in Entry
           /\ b.reorder_q = e.reorder_q /\ b.codec = e.codec /\ b.max_num_reorder_pics = e.max_num_reorder_pics
<1> DEFINE R == ToSet(e.reorder_q)
           Y == ToSet(e.ready_q)
<1>1. e \in EngType /\ e.ready_q \in Seq(Entry) /\ e.dpb \in DpbType /\ NoDup(e.ready_q) /\ NoDup(e.reorder_q)
  BY DEF EngSafe, EngType
<1>2. PICK t \in Seq(Entry) : t = Tail(e.ready_q) /\ ToSet(t) = Y \ {x} /\ NoDup(t)
  <2>1. Tail(e.ready_q) \in Seq(Entry) /\ ToSet(Tail(e.ready_q)) = Y \ {x} /\ NoDup(Tail(e.ready_q))
    BY <1>1, TailSet
  <2> QED BY <2>1
<1>3. x \in Y /\ x \in Entry
  BY <1>1, TailSet
<1>4. x.slot \in Slot
  BY <1>3 DEF Entry
<1>5. Pins(e.dpb, R \cup {}, Y, L) /\ Stamped(e.dpb, R \cup Y \cup {}, ep) /\ Clocked(e.codec, e.dpb, ep)
  BY DEF EngSafe
<1>6. e.dpb.slots[x.slot].hold = {"ready"}
  BY <1>1, <1>3, <1>4, <1>5, ReadyHold
<1>7. e.dpb.slots[x.slot].epoch = x.epoch
  BY <1>3, <1>5 DEF Stamped
<1>8. PICK d : d = TransferHold(e.dpb, x.slot, "ready", "consumer", x.epoch)
  OBVIOUS
<1>9. Reheld(e.dpb, x.slot, {"consumer"}, d)
  <2>1. "ready" \in Hold /\ "consumer" \in Hold
    BY DEF Hold
  <2> QED BY <1>1, <1>4, <1>6, <1>7, <1>8, <2>1, TransferWorks
<1>10. d \in DpbType /\ d.trap = e.dpb.trap /\ d.current = e.dpb.current
  BY <1>9 DEF Reheld
<1>11. Pins(d, R \cup {}, Y \ {x}, L \cup {x})
  BY <1>3, <1>4, <1>5, <1>9, PinConsumer
<1>12. Stamped(d, R \cup Y \cup {}, ep)
  <2>1. R \cup Y \cup {} \in SUBSET Entry
    BY <1>1 DEF EngType, ToSet
  <2> QED BY <1>5, <1>9, <2>1, StampedReheld
<1>13. Stamped(d, R \cup (Y \ {x}) \cup {}, ep)
  BY <1>12 DEF Stamped
<1>14. Clocked(e.codec, d, ep)
  BY <1>5, <1>9, ClockedReheld
<1>15. b = [e EXCEPT !.ready_q = t, !.dpb = d]
  BY <1>1, <1>2, <1>8 DEF Polled, EngType
<1>16. /\ b \in EngType /\ b.dpb = d /\ b.ready_q = t /\ b.reorder_q = e.reorder_q /\ b.codec = e.codec
       /\ b.max_num_reorder_pics = e.max_num_reorder_pics
  BY <1>1, <1>10, <1>15 DEF EngType
<1>17. b.dpb.trap = "no" /\ b.dpb.current = NoSlot
  BY <1>10, <1>16 DEF EngSafe
<1>18. EngSafe(b, {}, L \cup {x}, ep)
  <2>1. {} \cap ToSet(b.reorder_q) = {} /\ {} \in SUBSET Entry
    OBVIOUS
  <2> QED BY <1>1, <1>2, <1>11, <1>13, <1>14, <1>16, <1>17, <2>1 DEF EngSafe
<1>19. x \in Waiting(e) /\ Waiting(b) \subseteq Waiting(e)
  BY <1>2, <1>3, <1>16 DEF Waiting
<1> QED BY <1>3, <1>16, <1>18, <1>19

Freed(e, x) == [e EXCEPT !.dpb = ReleaseHold(@, x.slot, "consumer")]

LEMMA FreedSafe ==
    ASSUME NEW e, NEW L \in SUBSET Entry, NEW ep, EngSafe(e, {}, L, ep), NEW x \in L, NEW b, b = Freed(e, x)
    PROVE  EngSafe(b, {}, L \ {x}, ep) /\ Idle(e, b)
<1> DEFINE R == ToSet(e.reorder_q)
           Y == ToSet(e.ready_q)
<1>1. e \in EngType /\ e.dpb \in DpbType /\ NoDup(e.ready_q) /\ NoDup(e.reorder_q)
  BY DEF EngSafe, EngType
<1>2. x.slot \in Slot
  BY DEF Entry
<1>3. Pins(e.dpb, R \cup {}, Y, L) /\ Stamped(e.dpb, R \cup Y \cup {}, ep) /\ Clocked(e.codec, e.dpb, ep)
  BY DEF EngSafe
<1>4. e.dpb.slots[x.slot].hold = {"consumer"}
  BY <1>1, <1>2, <1>3, ConsumerHold
<1>5. PICK d : d = ReleaseHold(e.dpb, x.slot, "consumer")
  OBVIOUS
<1>6. Reheld(e.dpb, x.slot, {}, d)
  <2>1. "consumer" \in Hold
    BY DEF Hold
  <2> QED BY <1>1, <1>2, <1>4, <1>5, <2>1, ReleaseWorks
<1>7. d \in DpbType /\ d.trap = e.dpb.trap /\ d.current = e.dpb.current
  BY <1>6 DEF Reheld
<1>8. x \in (R \cup {}) \cup Y \cup L /\ (R \cup {}) \ {x} = R \cup {} /\ Y \ {x} = Y
  BY <1>3, PinsApart
<1>9. Pins(d, (R \cup {}) \ {x}, Y \ {x}, L \ {x})
  BY <1>2, <1>3, <1>6, <1>8, PinGone
<1>10. Pins(d, R \cup {}, Y, L \ {x})
  BY <1>8, <1>9
<1>11. Stamped(d, R \cup Y \cup {}, ep)
  <2>1. R \cup Y \cup {} \in SUBSET Entry
    BY <1>1 DEF EngType, ToSet
  <2> QED BY <1>3, <1>6, <2>1, StampedReheld
<1>12. Clocked(e.codec, d, ep)
  BY <1>3, <1>6, ClockedReheld
<1>13. b = [e EXCEPT !.dpb = d]
  BY <1>1, <1>5 DEF Freed, EngType
<1>14. b \in EngType /\ b.dpb = d /\ Idle(e, b)
  BY <1>1, <1>7, <1>13 DEF EngType, Idle
<1>15. b.dpb.trap = "no" /\ b.dpb.current = NoSlot
  BY <1>7, <1>14 DEF EngSafe
<1>16. EngSafe(b, {}, L \ {x}, ep)
  <2>1. {} \cap ToSet(b.reorder_q) = {} /\ {} \in SUBSET Entry
    OBVIOUS
  <2> QED BY <1>1, <1>10, <1>11, <1>12, <1>14, <1>15, <2>1 DEF EngSafe, Idle
<1> QED BY <1>14, <1>16

-----------------------------------------------------------------------------
\* Flushing.

Same(d, c) ==
    /\ c \in DpbType /\ c.trap = d.trap /\ c.epoch = d.epoch /\ c.current = d.current
    /\ \A i \in Slot : c.slots[i].epoch = d.slots[i].epoch

Rest(q, k) == {q[j] : j \in k + 1 .. Len(q)}

LEMMA RestFacts ==
    ASSUME NEW q \in Seq(Entry), NoDup(q)
    PROVE  /\ Rest(q, 0) = ToSet(q) /\ Rest(q, Len(q)) = {}
           /\ \A k \in 1 .. Len(q) : q[k] \in Rest(q, k - 1) /\ Rest(q, k) = Rest(q, k - 1) \ {q[k]}
<1>1. PICK n \in Nat : n = Len(q) /\ DOMAIN q = 1 .. n
  OBVIOUS
<1>2. Rest(q, 0) = ToSet(q)
  BY <1>1 DEF Rest, ToSet
<1>3. Rest(q, n) = {}
  BY <1>1 DEF Rest
<1>4. ASSUME NEW k \in 1 .. n PROVE q[k] \in Rest(q, k - 1) /\ Rest(q, k) = Rest(q, k - 1) \ {q[k]}
  <2>1. /\ k \in (k - 1) + 1 .. n
        /\ \A j \in (k - 1) + 1 .. n : j = k \/ j \in k + 1 .. n
        /\ \A j \in k + 1 .. n : j \in (k - 1) + 1 .. n /\ j # k /\ j \in 1 .. n
    BY <1>1
  <2>2. \A j \in k + 1 .. n : q[j] # q[k]
    BY <1>1, <2>1 DEF NoDup
  <2> QED BY <1>1, <2>1, <2>2 DEF Rest
<1> QED BY <1>1, <1>2, <1>3, <1>4

LEMMA UnholdReorder ==
    ASSUME NEW d \in DpbType, NEW q \in Seq(Entry), NoDup(q), NEW Y, NEW L, Pins(d, ToSet(q), Y, L)
    PROVE  Same(d, Unheld(d, q, "reorder")) /\ Pins(Unheld(d, q, "reorder"), {}, Y, L)
<1>1. PICK n \in Nat : n = Len(q) /\ DOMAIN q = 1 .. n
  OBVIOUS
<1>14. \E c : c[0] = d /\ Unheld(d, q, "reorder") = c[n] /\ \A k \in 1 .. n : c[k] = ReleaseOne(q, "reorder", c[k - 1], k)
  <2>1. DOMAIN q = 1 .. n
    BY <1>1
  <2> QED BY <2>1, ReleaseChain
<1>2. PICK c : c[0] = d /\ Unheld(d, q, "reorder") = c[n] /\ \A k \in 1 .. n : c[k] = ReleaseOne(q, "reorder", c[k - 1], k)
  BY <1>14
<1> DEFINE Good(k) == Same(d, c[k]) /\ Pins(c[k], Rest(q, k), Y, L)
<1>3. Good(0)
  <2>1. Rest(q, 0) = ToSet(q)
    BY RestFacts
  <2> QED BY <1>2, <2>1 DEF Same
<1>4. ASSUME NEW k \in 1 .. n, Good(k - 1) PROVE Good(k)
  <2>1. PICK a \in DpbType : a = c[k - 1] /\ Same(d, a) /\ Pins(a, Rest(q, k - 1), Y, L)
    BY <1>4 DEF Same
  <2>2. PICK x \in Entry : x = q[k]
    BY <1>1
  <2>3. PICK W : W = Rest(q, k - 1) /\ x \in W /\ Rest(q, k) = W \ {x}
    BY <1>1, <2>2, RestFacts
  <2>4. x.slot \in Slot
    BY DEF Entry
  <2>5. Pins(a, W, Y, L)
    BY <2>1, <2>3
  <2>6. a.slots[x.slot].hold = {"reorder"}
    BY <2>3, <2>4, <2>5, ReorderHold
  <2>7. PICK b : b = ReleaseHold(a, x.slot, "reorder")
    OBVIOUS
  <2>8. Reheld(a, x.slot, {}, b)
    <3>1. "reorder" \in Hold
      BY DEF Hold
    <3> QED BY <2>4, <2>6, <2>7, <3>1, ReleaseWorks
  <2>9. x \in W \cup Y \cup L /\ Y \ {x} = Y /\ L \ {x} = L
    BY <2>3, <2>5, PinsApart
  <2>10. Pins(b, W \ {x}, Y \ {x}, L \ {x})
    BY <2>4, <2>5, <2>8, <2>9, PinGone
  <2>11. Pins(b, Rest(q, k), Y, L)
    BY <2>3, <2>9, <2>10
  <2>12. Same(d, b)
    BY <2>1, <2>8 DEF Same, Reheld
  <2>13. c[k] = b
    BY <1>2, <2>1, <2>2, <2>7 DEF ReleaseOne
  <2> QED BY <2>11, <2>12, <2>13
<1> HIDE DEF Good
<1>5. Good(n) => Same(d, c[n]) /\ Pins(c[n], {}, Y, L)
  <2>1. Rest(q, n) = {}
    BY <1>1, RestFacts
  <2> QED BY <2>1 DEF Good
<1>6. SUFFICES ASSUME ~Good(n) PROVE FALSE
  BY <1>2, <1>5
<1>7. {k \in 0 .. n : ~Good(k)} \in SUBSET Nat
  OBVIOUS
<1>8. PICK Bad \in SUBSET Nat : Bad = {k \in 0 .. n : ~Good(k)}
  BY <1>7
<1>9. Bad # {}
  BY <1>6, <1>8
<1>10. PICK k \in Bad : \A y \in Bad : k <= y
  BY <1>9, LeastNat
<1>11. k \in 1 .. n
  BY <1>3, <1>8, <1>10
<1>12. k - 1 \notin Bad /\ k - 1 \in 0 .. n
  BY <1>10, <1>11
<1>13. Good(k - 1)
  BY <1>8, <1>12
<1> QED BY <1>4, <1>8, <1>10, <1>11, <1>13

LEMMA UnholdReady ==
    ASSUME NEW d \in DpbType, NEW q \in Seq(Entry), NoDup(q), NEW R, NEW L, Pins(d, R, ToSet(q), L)
    PROVE  Same(d, Unheld(d, q, "ready")) /\ Pins(Unheld(d, q, "ready"), R, {}, L)
<1>1. PICK n \in Nat : n = Len(q) /\ DOMAIN q = 1 .. n
  OBVIOUS
<1>14. \E c : c[0] = d /\ Unheld(d, q, "ready") = c[n] /\ \A k \in 1 .. n : c[k] = ReleaseOne(q, "ready", c[k - 1], k)
  <2>1. DOMAIN q = 1 .. n
    BY <1>1
  <2> QED BY <2>1, ReleaseChain
<1>2. PICK c : c[0] = d /\ Unheld(d, q, "ready") = c[n] /\ \A k \in 1 .. n : c[k] = ReleaseOne(q, "ready", c[k - 1], k)
  BY <1>14
<1> DEFINE Good(k) == Same(d, c[k]) /\ Pins(c[k], R, Rest(q, k), L)
<1>3. Good(0)
  <2>1. Rest(q, 0) = ToSet(q)
    BY RestFacts
  <2> QED BY <1>2, <2>1 DEF Same
<1>4. ASSUME NEW k \in 1 .. n, Good(k - 1) PROVE Good(k)
  <2>1. PICK a \in DpbType : a = c[k - 1] /\ Same(d, a) /\ Pins(a, R, Rest(q, k - 1), L)
    BY <1>4 DEF Same
  <2>2. PICK x \in Entry : x = q[k]
    BY <1>1
  <2>3. PICK W : W = Rest(q, k - 1) /\ x \in W /\ Rest(q, k) = W \ {x}
    BY <1>1, <2>2, RestFacts
  <2>4. x.slot \in Slot
    BY DEF Entry
  <2>5. Pins(a, R, W, L)
    BY <2>1, <2>3
  <2>6. a.slots[x.slot].hold = {"ready"}
    BY <2>3, <2>4, <2>5, ReadyHold
  <2>7. PICK b : b = ReleaseHold(a, x.slot, "ready")
    OBVIOUS
  <2>8. Reheld(a, x.slot, {}, b)
    <3>1. "ready" \in Hold
      BY DEF Hold
    <3> QED BY <2>4, <2>6, <2>7, <3>1, ReleaseWorks
  <2>9. x \in R \cup W \cup L /\ R \ {x} = R /\ L \ {x} = L
    BY <2>3, <2>5, PinsApart
  <2>10. Pins(b, R \ {x}, W \ {x}, L \ {x})
    BY <2>4, <2>5, <2>8, <2>9, PinGone
  <2>11. Pins(b, R, Rest(q, k), L)
    BY <2>3, <2>9, <2>10
  <2>12. Same(d, b)
    BY <2>1, <2>8 DEF Same, Reheld
  <2>13. c[k] = b
    BY <1>2, <2>1, <2>2, <2>7 DEF ReleaseOne
  <2> QED BY <2>11, <2>12, <2>13
<1> HIDE DEF Good
<1>5. Good(n) => Same(d, c[n]) /\ Pins(c[n], R, {}, L)
  <2>1. Rest(q, n) = {}
    BY <1>1, RestFacts
  <2> QED BY <2>1 DEF Good
<1>6. SUFFICES ASSUME ~Good(n) PROVE FALSE
  BY <1>2, <1>5
<1>7. {k \in 0 .. n : ~Good(k)} \in SUBSET Nat
  OBVIOUS
<1>8. PICK Bad \in SUBSET Nat : Bad = {k \in 0 .. n : ~Good(k)}
  BY <1>7
<1>9. Bad # {}
  BY <1>6, <1>8
<1>10. PICK k \in Bad : \A y \in Bad : k <= y
  BY <1>9, LeastNat
<1>11. k \in 1 .. n
  BY <1>3, <1>8, <1>10
<1>12. k - 1 \notin Bad /\ k - 1 \in 0 .. n
  BY <1>10, <1>11
<1>13. Good(k - 1)
  BY <1>8, <1>12
<1> QED BY <1>4, <1>8, <1>10, <1>11, <1>13

LEMMA DpbFlushed ==
    ASSUME NEW d \in DpbType, NEW L, Pins(d, {}, {}, L), NEW c, c = DpbFlush(d)
    PROVE  /\ c \in DpbType /\ c.trap = d.trap /\ c.epoch = d.epoch + 1 /\ c.current = NoSlot /\ Pins(c, {}, {}, L)
           /\ \A i \in Slot : c.slots[i].epoch = d.slots[i].epoch
<1>1. \A i \in Slot : d.slots[i].hold \cap {"reorder", "ready"} = {}
  BY DEF Pins
<1>2. PICK kept : kept = {i \in Slot : "consumer" \in d.slots[i].hold}
  OBVIOUS
<1>3. PICK e : e = SlotClear(d, Slot \ kept)
  OBVIOUS
<1>4. Keeps(d, e)
  BY <1>3, ClearKeeps
<1>5. e \in DpbType /\ e.trap = d.trap /\ e.epoch = d.epoch
  BY <1>4 DEF Keeps
<1> DEFINE t == [i \in Slot |-> IF i \in kept THEN [e.slots[i] EXCEPT !.in_use = FALSE, !.is_ref = FALSE, !.long_term = FALSE]
                                           ELSE e.slots[i]]
<1>6. \A i \in Slot : e.slots[i] \in SlotRec
  BY <1>5 DEF DpbType
<1>7. \A r \in SlotRec : LET z == [r EXCEPT !.in_use = FALSE, !.is_ref = FALSE, !.long_term = FALSE]
                         IN z \in SlotRec /\ z.hold = r.hold /\ z.epoch = r.epoch
  BY DEF SlotRec
<1>8. t \in [Slot -> SlotRec] /\ \A i \in Slot : t[i].hold = e.slots[i].hold /\ t[i].epoch = e.slots[i].epoch
  BY <1>6, <1>7
<1>9. c = [e EXCEPT !.current = NoSlot, !.epoch = @ + 1, !.slots = t]
  BY <1>1, <1>2, <1>3 DEF DpbFlush
<1> HIDE DEF t
<1>10. PICK n \in Nat : n = e.epoch + 1
  BY <1>5 DEF DpbType
<1>11. c = [e EXCEPT !.current = NoSlot, !.epoch = n, !.slots = t]
  BY <1>5, <1>9, <1>10 DEF DpbType
<1>12. c \in DpbType /\ c.trap = e.trap /\ c.epoch = n /\ c.current = NoSlot /\ c.slots = t
  BY <1>5, <1>8, <1>11 DEF DpbType
<1>13. \A i \in Slot : c.slots[i].hold = d.slots[i].hold /\ c.slots[i].epoch = d.slots[i].epoch
  BY <1>4, <1>8, <1>12 DEF Keeps
<1>14. Pins(c, {}, {}, L)
  BY <1>13, PinsAgree
<1> QED BY <1>5, <1>10, <1>12, <1>13, <1>14

LEMMA FlushedSafe ==
    ASSUME NEW e, NEW L, NEW ep \in Nat, EngSafe(e, {}, L, ep), NEW b, b = Flushed(e)
    PROVE  /\ EngSafe(b, {}, L, SlotEpoch(b)) /\ Waiting(b) = {} /\ b.codec = e.codec
           /\ b.max_num_reorder_pics = 0 /\ b.reorder_q = <<>>
<1>1. e \in EngType /\ e.reorder_q \in Seq(Entry) /\ e.ready_q \in Seq(Entry) /\ e.dpb \in DpbType
  BY DEF EngSafe, EngType
<1>2. NoDup(e.reorder_q) /\ NoDup(e.ready_q) /\ e.dpb.trap = "no"
  BY DEF EngSafe
<1>3. Pins(e.dpb, ToSet(e.reorder_q), ToSet(e.ready_q), L)
  <2>1. ToSet(e.reorder_q) \cup {} = ToSet(e.reorder_q)
    OBVIOUS
  <2> QED BY <2>1 DEF EngSafe
<1>4. PICK c : c = Unheld(e.dpb, e.reorder_q, "reorder")
  OBVIOUS
<1>5. Same(e.dpb, c) /\ Pins(c, {}, ToSet(e.ready_q), L)
  BY <1>1, <1>2, <1>3, <1>4, UnholdReorder
<1>6. c \in DpbType
  BY <1>5 DEF Same
<1>7. PICK f : f = Unheld(c, e.ready_q, "ready")
  OBVIOUS
<1>8. Same(c, f) /\ Pins(f, {}, {}, L)
  BY <1>1, <1>2, <1>5, <1>6, <1>7, UnholdReady
<1>9. f \in DpbType
  BY <1>8 DEF Same
<1>10. PICK g : g = DpbFlush(f)
  OBVIOUS
<1>11. /\ g \in DpbType /\ g.trap = f.trap /\ g.current = NoSlot /\ Pins(g, {}, {}, L)
       /\ \A i \in Slot : g.slots[i].epoch = f.slots[i].epoch
  BY <1>8, <1>9, <1>10, DpbFlushed
<1>12. g.trap = "no" /\ \A i \in Slot : g.slots[i].epoch = e.dpb.slots[i].epoch
  BY <1>2, <1>5, <1>8, <1>11 DEF Same
<1>13. << >> \in Seq(Entry) /\ ToSet(<< >>) = {} /\ NoDup(<< >>)
  BY DEF ToSet, NoDup
<1>14. b = [e EXCEPT !.dpb = g, !.reorder_q = <<>>, !.ready_q = <<>>, !.max_num_reorder_pics = 0, !.wait_for_idr = TRUE]
  BY <1>1, <1>4, <1>7, <1>10 DEF Flushed, Unheld, EngType
<1>19. PICK z \in Seq(Entry) : z = <<>>
  BY <1>13
<1>20. PICK n \in Nat : n = 0
  OBVIOUS
<1>21. b = [e EXCEPT !.dpb = g, !.reorder_q = z, !.ready_q = z, !.max_num_reorder_pics = n, !.wait_for_idr = TRUE]
  BY <1>14, <1>19, <1>20
<1>15. /\ b \in EngType /\ b.dpb = g /\ b.reorder_q = <<>> /\ b.ready_q = <<>> /\ b.codec = e.codec
       /\ b.max_num_reorder_pics = 0
  <2>1. /\ b \in EngType /\ b.dpb = g /\ b.reorder_q = z /\ b.ready_q = z /\ b.codec = e.codec
        /\ b.max_num_reorder_pics = n
    BY <1>1, <1>11, <1>21 DEF EngType
  <2> QED BY <1>19, <1>20, <2>1
<1>16. Stamped(g, {}, SlotEpoch(b)) /\ Clocked(b.codec, g, SlotEpoch(b))
  <2>1. Clocked(e.codec, e.dpb, ep)
    BY DEF EngSafe
  <2> QED BY <1>12, <1>15, <2>1 DEF Stamped, Clocked, SlotEpoch
<1>17. {} \cup {} = {} /\ {} \cap ToSet(b.reorder_q) = {} /\ {} \in SUBSET Entry
  OBVIOUS
<1>18. EngSafe(b, {}, L, SlotEpoch(b))
  BY <1>11, <1>12, <1>13, <1>15, <1>16, <1>17 DEF EngSafe
<1> QED BY <1>13, <1>15, <1>17, <1>18 DEF Waiting

-----------------------------------------------------------------------------
\* The invariant.

StreamInv ==
    /\ gop \in Seq(Picture) /\ at \in Nat \ {0} /\ base \in Nat /\ epoch \in Nat
    /\ eng.codec \in Codecs /\ budget \in [gops : Int, flush : Int, fail : Int]

ReorderInv ==
    /\ eng \in EngType /\ Len(eng.reorder_q) <= eng.max_num_reorder_pics
    /\ eng.max_num_reorder_pics \in {0, MaxReorder(eng)}

\* The process has ended on a tag that is not the epoch of the slots.
Ended == eng.dpb.trap = "tag" /\ epoch # SlotEpoch(eng)

DInv ==
    /\ StreamInv /\ live \in SUBSET Entry /\ ReorderInv /\ data \in [Slot -> Int] /\ FramesIntact
    /\ EngSafe(eng, {}, live, SlotEpoch(eng)) \/ Ended

LEMMA RefsBeforeNat ==
    ASSUME NEW g, NEW i \in Nat \ {0}
    PROVE  RefsBefore(g, i) \in Nat
<1>1. PICK n \in Nat : n = i - 1
  OBVIOUS
<1>2. IsFiniteSet(1 .. n)
  BY FS_Interval
<1>3. PICK S \in SUBSET (1 .. n) : S = {k \in 1 .. n : g[k].ref}
  OBVIOUS
<1>4. IsFiniteSet(S)
  BY <1>2, FS_Subset
<1>5. Cardinality(S) \in Nat
  BY <1>4, FS_CardinalityType
<1> QED BY <1>1, <1>3, <1>5 DEF RefsBefore

LEMMA AccessUnitType ==
    ASSUME NEW codec \in {"H264", "H265"}, NEW g \in Seq(Picture), NEW i \in 1 .. Len(g), base \in Nat
    PROVE  AccessUnit(codec, g, i) \in Unit /\ AccessUnit(codec, g, i).id \in Nat
<1>1. PICK p \in Picture : p = g[i]
  OBVIOUS
<1>2. PICK fn \in Int : fn = RefsBefore(g, i) % MaxFrameNum
  <2>1. RefsBefore(g, i) \in Nat
    BY RefsBeforeNat
  <2> QED BY <2>1, PoolAssumption
<1> DEFINE order(d) == CASE codec = "H264" -> 2 * d
                         [] codec = "H265" /\ g[1].nal = "idr" -> d
                         [] codec = "H265" /\ g[1].nal # "idr" -> base + d
<1>3. \A d \in Nat : order(d) \in Nat
  OBVIOUS
<1> HIDE DEF order
<1>4. p.d \in Nat /\ p.keep \in SUBSET Nat
  BY DEF Picture
<1>5. PICK poc \in Nat : poc = order(p.d)
  BY <1>3, <1>4
<1>6. PICK ks \in SUBSET Int : ks = {order(d) : d \in p.keep}
  <2>1. \A d \in p.keep : d \in Nat
    BY ONLY <1>4, Zenon
  <2>2. \A d \in p.keep : order(d) \in Nat
    BY ONLY <1>3, <2>1, Zenon
  <2>3. \A x \in Nat : x \in Int
    OBVIOUS
  <2>4. {order(d) : d \in p.keep} \in SUBSET Int
    BY ONLY <2>2, <2>3, Zenon
  <2> QED BY ONLY <2>4, Zenon
<1>7. PICK id \in Nat : id = base + p.d
  BY <1>4
<1>8. AccessUnit(codec, g, i) = [nal |-> p.nal, ref |-> p.ref, lt |-> p.lt, adaptive |-> p.adaptive,
                                 mmco |-> p.mmco, frame_num |-> fn, poc |-> poc, keeps |-> ks, id |-> id]
  BY <1>1, <1>2, <1>5, <1>6, <1>7 DEF AccessUnit, order
<1> QED BY <1>8 DEF Unit, Picture

LEMMA GopsType == \A c \in Codecs : \A g \in Gops[c] : g \in Seq(Picture)
BY EngineAssumption

LEMMA InitEngine ==
    ASSUME NEW c \in {"H264", "H265"}
    PROVE  /\ EngSafe(EngineInit(c), {}, {}, 0) /\ Waiting(EngineInit(c)) = {}
           /\ EngineInit(c).reorder_q = <<>> /\ EngineInit(c).max_num_reorder_pics = 0 /\ EngineInit(c).codec = c
<1>1. << >> \in Seq(Entry) /\ << >> \in Seq(Mmco) /\ ToSet(<< >>) = {} /\ NoDup(<< >>) /\ {} \cup {} = {}
  BY DEF ToSet, NoDup
<1>2. PICK t \in [Slot -> SlotRec] : t = [i \in Slot |-> EmptySlot]
  BY EmptyType
<1>3. \A i \in Slot : t[i].hold = {} /\ t[i].epoch = 0
  BY <1>2 DEF EmptySlot
<1>4. PICK ms \in Seq(Mmco) : ms = <<>>
  BY <1>1
<1>5. PICK z \in Nat : z = 0
  OBVIOUS
<1>6. PICK d : d = [slots |-> t, current |-> NoSlot, epoch |-> z, max_refs |-> z, pic_num |-> z, max_lt |-> -1,
                    mmco |-> ms, adaptive |-> FALSE, trap |-> "no"]
  OBVIOUS
<1>7. d \in DpbType /\ d.slots = t /\ d.current = NoSlot /\ d.epoch = z /\ d.trap = "no"
  BY <1>6 DEF DpbType
<1>8. d = DpbInit
  BY <1>2, <1>4, <1>5, <1>6 DEF DpbInit
<1>9. PICK q \in Seq(Entry) : q = <<>>
  BY <1>1
<1>10. PICK e : e = [codec |-> c, dpb |-> d, reorder_q |-> q, ready_q |-> q, max_num_reorder_pics |-> z, wait_for_idr |-> FALSE]
  OBVIOUS
<1>11. e \in EngType /\ e.codec = c /\ e.dpb = d /\ e.reorder_q = q /\ e.ready_q = q /\ e.max_num_reorder_pics = z
  BY <1>7, <1>10 DEF EngType
<1>12. e = EngineInit(c)
  BY <1>5, <1>8, <1>9, <1>10 DEF EngineInit
<1>13. Pins(d, {}, {}, {}) /\ Stamped(d, {}, 0) /\ Clocked(c, d, 0)
  BY <1>3, <1>5, <1>7 DEF Pins, Stamped, Clocked
<1>14. {} \cap ToSet(e.reorder_q) = {} /\ {} \in SUBSET Entry
  OBVIOUS
<1>15. EngSafe(e, {}, {}, 0)
  BY <1>1, <1>7, <1>9, <1>11, <1>13, <1>14 DEF EngSafe
<1>16. Waiting(e) = {}
  BY <1>1, <1>9, <1>11 DEF Waiting
<1> QED BY <1>5, <1>9, <1>11, <1>12, <1>15, <1>16

\* FramesIntact over the operator the lemmas use.
LEMMA IntactWaiting == FramesIntact <=> \A x \in Waiting(eng) \cup live : data[x.slot] = x.id
BY DEF FramesIntact, Queued, Waiting

LEMMA IntactWaitingNext == FramesIntact' <=> \A x \in Waiting(eng') \cup live' : data'[x.slot] = x.id
BY DEF FramesIntact, Queued, Waiting

\* A state in which the holds are right.
LEMMA SafeState ==
    ASSUME NEW ep, EngSafe(eng, {}, live, ep), StreamInv, live \in SUBSET Entry, data \in [Slot -> Int], FramesIntact,
           Len(eng.reorder_q) <= eng.max_num_reorder_pics, eng.max_num_reorder_pics \in {0, MaxReorder(eng)}
    PROVE  DInv
<1>1. ep = SlotEpoch(eng) /\ eng \in EngType
  BY SafeEpoch DEF EngSafe
<1> QED BY <1>1 DEF DInv, ReorderInv

\* While the process runs, the holds are right.
LEMMA RunningSafe ==
    ASSUME DInv, Running
    PROVE  \E ep \in Nat : ep = SlotEpoch(eng) /\ EngSafe(eng, {}, live, ep)
<1>1. EngSafe(eng, {}, live, SlotEpoch(eng))
  BY DEF DInv, Ended, Running
<1>2. SlotEpoch(eng) \in Nat
  BY <1>1 DEF EngSafe, EngType, DpbType, SlotEpoch
<1> QED BY <1>1, <1>2

LEMMA DInit == Init => DInv
<1> SUFFICES ASSUME Init PROVE DInv
  OBVIOUS
<1>1. PICK c \in Codecs : \E g \in Gops[c] :
        /\ eng = EngineInit(c) /\ live = {} /\ epoch = 0 /\ gop = g /\ at = 1 /\ base = 0
        /\ budget = [gops |-> MaxGops - 1, flush |-> MaxFlush[c], fail |-> MaxFail]
        /\ data = [i \in Slot |-> Garbage]
  BY DEF Init
<1>2. c \in {"H264", "H265"} /\ MaxFlush[c] \in Int /\ MaxGops - 1 \in Int /\ MaxFail \in Int
  BY EngineAssumption
<1>3. /\ EngSafe(eng, {}, live, 0) /\ Waiting(eng) = {}
      /\ eng.reorder_q = <<>> /\ eng.max_num_reorder_pics = 0 /\ eng.codec = c
  BY <1>1, <1>2, InitEngine
<1>4. StreamInv
  <2>1. gop \in Seq(Picture)
    BY <1>1, GopsType
  <2>2. budget \in [gops : Int, flush : Int, fail : Int]
    BY <1>1, <1>2
  <2> QED BY <1>1, <1>3, <2>1, <2>2 DEF StreamInv
<1>5. Len(eng.reorder_q) <= eng.max_num_reorder_pics /\ live \in SUBSET Entry
  BY <1>1, <1>3
<1>6. data \in [Slot -> Int]
  BY <1>1 DEF Garbage
<1>7. FramesIntact
  BY <1>1, <1>3, IntactWaiting
<1> QED BY <1>3, <1>4, <1>5, <1>6, <1>7, SafeState

-----------------------------------------------------------------------------
\* The steps.

\* The same of the next state.
LEMMA SafeNext ==
    ASSUME NEW ep, EngSafe(eng', {}, live', ep), StreamInv', live' \in SUBSET Entry, data' \in [Slot -> Int],
           FramesIntact', Len(eng'.reorder_q) <= eng'.max_num_reorder_pics,
           eng'.max_num_reorder_pics \in {0, MaxReorder(eng')}
    PROVE  DInv'
<1>1. ep = SlotEpoch(eng') /\ eng' \in EngType
  BY SafeEpoch DEF EngSafe
<1> QED BY <1>1 DEF DInv, ReorderInv

LEMMA DSubmit ==
    ASSUME DInv, Submit
    PROVE  DInv'
<1>0. PICK ep \in Nat : ep = SlotEpoch(eng) /\ EngSafe(eng, {}, live, ep)
  BY RunningSafe DEF Submit
<1>1. /\ live \in SUBSET Entry /\ epoch \in Nat /\ base \in Nat
      /\ gop \in Seq(Picture) /\ at \in 1 .. Len(gop) /\ eng.codec \in {"H264", "H265"}
  BY <1>0 DEF DInv, StreamInv, Submit, EngSafe, EngType
<1>2. PICK au \in Unit : au = AccessUnit(eng.codec, gop, at)
  BY <1>1, AccessUnitType
<1>3. PICK outcome \in {"rejected", "failed", "decoded"} :
        /\ eng' = Submitted(eng, au, outcome, epoch)
        /\ budget' = [budget EXCEPT !.fail = IF outcome = "decoded" THEN @ ELSE @ - 1]
        /\ data' = IF (~Gated(eng, au) /\ outcome # "rejected") /\ Selected(eng, au).current # NoSlot
                   THEN [data EXCEPT ![Selected(eng, au).current] = IF outcome = "decoded" THEN au.id ELSE Garbage]
                   ELSE data
  BY <1>2 DEF Submit
<1>4. at' = at + 1 /\ live' = live /\ epoch' = epoch /\ gop' = gop /\ base' = base
  BY DEF Submit
<1>6. PICK x : x = EntryOf(eng, au, epoch)
  OBVIOUS
<1>7. \/ EngSafe(eng', {}, live, ep) /\ Idle(eng, eng')
      \/ /\ EngSafe(eng', {}, live, ep)
         /\ ~Gated(eng, au) /\ outcome = "decoded" /\ Selected(eng, au).current # NoSlot
         /\ x \in Entry /\ Taken(eng, eng', x)
      \/ epoch # ep /\ Tripped(eng, eng')
  BY <1>0, <1>1, <1>3, <1>6, SubmittedSafe
<1>8. eng'.codec = eng.codec
  BY <1>7 DEF Idle, Taken, Tripped
<1>9. StreamInv'
  <2>1. budget' \in [gops : Int, flush : Int, fail : Int]
    BY <1>3 DEF DInv, StreamInv
  <2> QED BY <1>1, <1>4, <1>8, <2>1 DEF DInv, StreamInv
<1>10. MaxReorder(eng') = MaxReorder(eng)
  BY <1>8 DEF MaxReorder
<1>11. Len(eng'.reorder_q) <= eng'.max_num_reorder_pics /\ eng'.max_num_reorder_pics \in {0, MaxReorder(eng')}
  <2>1. CASE Idle(eng, eng')
    BY <1>10, <2>1 DEF Idle, DInv, ReorderInv
  <2>2. CASE Taken(eng, eng', x)
    BY <1>10, <2>2 DEF Taken
  <2> QED BY <1>7, <2>1, <2>2 DEF Tripped
<1>12. PICK i : i = Selected(eng, au).current
  OBVIOUS
<1>13. i # NoSlot => i \in Slot /\ \A z \in Waiting(eng) \cup live : z.slot # i
  BY <1>0, <1>12, WrittenUnnamed
<1>14. data \in [Slot -> Int] /\ \A z \in Waiting(eng) \cup live : data[z.slot] = z.id
  BY IntactWaiting DEF DInv
<1>15. au.id \in Int /\ Garbage \in Int
  BY DEF Unit, Garbage
<1>16. data' \in [Slot -> Int]
  BY <1>3, <1>12, <1>13, <1>14, <1>15
<1>17. \A z \in Waiting(eng) \cup live : z.slot \in Slot
  <2>1. eng.reorder_q \in Seq(Entry) /\ eng.ready_q \in Seq(Entry)
    BY <1>0 DEF EngSafe, EngType
  <2>2. Waiting(eng) \in SUBSET Entry
    BY <2>1 DEF Waiting, ToSet
  <2>3. \A z \in Entry : z.slot \in Slot
    BY DEF Entry
  <2> QED BY <1>1, <2>2, <2>3
<1>18. \A z \in Waiting(eng) \cup live : data'[z.slot] = z.id
  BY <1>3, <1>12, <1>13, <1>14, <1>17
<1>19. FramesIntact'
  <2>1. CASE Idle(eng, eng')
    <3>1. Waiting(eng') = Waiting(eng)
      BY <2>1 DEF Idle, Waiting
    <3> QED BY <1>4, <1>18, <3>1, IntactWaitingNext
  <2>2. CASE ~Idle(eng, eng')
    <3>1. /\ ~Gated(eng, au) /\ outcome = "decoded" /\ i # NoSlot /\ Waiting(eng') = Waiting(eng) \cup {x}
      BY <1>7, <1>12, <2>2 DEF Taken, Tripped
    <3>2. data' = [data EXCEPT ![i] = au.id]
      BY <1>3, <1>12, <3>1
    <3>3. data'[i] = au.id
      BY <1>13, <1>14, <3>1, <3>2
    <3>4. x.slot = i /\ x.id = au.id
      BY <1>6, <1>12 DEF EntryOf
    <3>5. \A z \in Waiting(eng') \cup live : data'[z.slot] = z.id
      BY <1>18, <3>1, <3>3, <3>4
    <3> QED BY <1>4, <3>5, IntactWaitingNext
  <2> QED BY <2>1, <2>2
<1>20. CASE EngSafe(eng', {}, live, ep)
  BY <1>1, <1>4, <1>9, <1>11, <1>16, <1>19, <1>20, SafeNext
<1>21. CASE epoch # ep /\ Tripped(eng, eng')
  <2>1. eng' \in EngType /\ eng'.dpb.trap = "tag" /\ eng'.dpb.epoch = eng.dpb.epoch
    BY <1>21 DEF Tripped
  <2>2. SlotEpoch(eng') = ep
    BY <1>0, <1>8, <2>1 DEF SlotEpoch
  <2>3. Ended'
    BY <1>4, <1>21, <2>1, <2>2 DEF Ended
  <2>4. ReorderInv'
    BY <1>11, <2>1 DEF ReorderInv
  <2> QED BY <1>1, <1>4, <1>9, <1>16, <1>19, <2>3, <2>4 DEF DInv
<1> QED BY <1>7, <1>20, <1>21

\* A step that takes a new group of pictures.
LEMMA StreamMoves ==
    ASSUME DInv, eng'.codec = eng.codec, gop' \in Seq(Picture), at' \in Nat \ {0}, base' \in Nat, epoch' \in Nat,
           budget' \in [gops : Int, flush : Int, fail : Int]
    PROVE  StreamInv'
BY DEF DInv, StreamInv

LEMMA BaseMoves == ASSUME DInv PROVE base + Len(gop) \in Nat
<1>1. Len(gop) \in Nat /\ base \in Nat
  BY DEF DInv, StreamInv
<1> QED BY <1>1

LEMMA DNextGop ==
    ASSUME DInv, NextGop
    PROVE  DInv'
<1>1. PICK g \in Gops[eng.codec] : gop' = g
  BY DEF NextGop
<1>2. gop' \in Seq(Picture)
  BY <1>1, GopsType DEF DInv, StreamInv
<1>3. eng' = eng /\ live' = live /\ epoch' = epoch /\ data' = data /\ at' = 1 /\ base' = base + Len(gop)
  BY DEF NextGop
<1>4. budget' \in [gops : Int, flush : Int, fail : Int]
  BY DEF NextGop, DInv, StreamInv
<1>5. base' \in Nat
  BY <1>3, BaseMoves
<1>6. epoch' \in Nat
  BY <1>3 DEF DInv, StreamInv
<1>7. StreamInv'
  BY <1>2, <1>3, <1>4, <1>5, <1>6, StreamMoves
<1>8. FramesIntact'
  BY <1>3 DEF DInv, FramesIntact, Queued
<1>9. ReorderInv'
  BY <1>3 DEF DInv, ReorderInv, MaxReorder
<1> QED BY <1>3, <1>7, <1>8, <1>9 DEF DInv, Ended

\* The stream rests.
LEMMA StreamRests ==
    ASSUME DInv, eng'.codec = eng.codec, UNCHANGED <<gop, at, base, epoch, budget>>
    PROVE  StreamInv'
BY DEF DInv, StreamInv

LEMMA DPoll ==
    ASSUME DInv, PollFrame
    PROVE  DInv'
<1>0. PICK ep \in Nat : EngSafe(eng, {}, live, ep)
  BY RunningSafe DEF PollFrame
<1>1. EngSafe(eng, {}, live, ep) /\ live \in SUBSET Entry /\ eng.ready_q # <<>>
  BY <1>0 DEF DInv, PollFrame
<1>2. PICK x : x = Head(eng.ready_q)
  OBVIOUS
<1>3. eng' = Polled(eng) /\ live' = live \cup {x}
  BY <1>2 DEF PollFrame, Polled
<1>4. UNCHANGED <<gop, at, base, epoch, budget, data>>
  BY DEF PollFrame
<1>5. EngSafe(eng', {}, live \cup {x}, ep)
  BY <1>1, <1>2, <1>3, PolledSafe
<1>6. x \in Waiting(eng) /\ Waiting(eng') \subseteq Waiting(eng) /\ x \in Entry
  BY <1>1, <1>2, <1>3, PolledSafe
<1>7. eng'.reorder_q = eng.reorder_q /\ eng'.codec = eng.codec /\ eng'.max_num_reorder_pics = eng.max_num_reorder_pics
  BY <1>1, <1>2, <1>3, PolledSafe
<1>8. StreamInv'
  BY <1>4, <1>7, StreamRests
<1>9. Len(eng'.reorder_q) <= eng'.max_num_reorder_pics /\ eng'.max_num_reorder_pics \in {0, MaxReorder(eng')}
  BY <1>7 DEF DInv, ReorderInv, MaxReorder
<1>10. FramesIntact'
  <2>1. \A z \in Waiting(eng) \cup live : data[z.slot] = z.id
    BY IntactWaiting DEF DInv
  <2>2. \A z \in Waiting(eng') \cup live' : data'[z.slot] = z.id
    BY <1>3, <1>4, <1>6, <2>1
  <2> QED BY <2>2, IntactWaitingNext
<1>11. live' \in SUBSET Entry /\ data' \in [Slot -> Int] /\ epoch' = epoch
  BY <1>1, <1>3, <1>4, <1>6 DEF DInv
<1> QED BY <1>3, <1>5, <1>8, <1>9, <1>10, <1>11, SafeNext

LEMMA DRelease ==
    ASSUME DInv, ReleaseFrame
    PROVE  DInv'
<1>0. PICK ep \in Nat : EngSafe(eng, {}, live, ep)
  BY RunningSafe DEF ReleaseFrame
<1>1. EngSafe(eng, {}, live, ep) /\ live \in SUBSET Entry
  BY <1>0 DEF DInv
<1>2. PICK x \in live : eng' = Freed(eng, x) /\ live' = live \ {x}
  BY DEF ReleaseFrame, Freed
<1>3. UNCHANGED <<gop, at, base, epoch, budget, data>>
  BY DEF ReleaseFrame
<1>4. EngSafe(eng', {}, live \ {x}, ep) /\ Idle(eng, eng')
  BY <1>1, <1>2, FreedSafe
<1>5. StreamInv'
  BY <1>3, <1>4, StreamRests DEF Idle
<1>6. Len(eng'.reorder_q) <= eng'.max_num_reorder_pics /\ eng'.max_num_reorder_pics \in {0, MaxReorder(eng')}
  BY <1>4 DEF DInv, ReorderInv, MaxReorder, Idle
<1>7. FramesIntact'
  <2>1. \A z \in Waiting(eng) \cup live : data[z.slot] = z.id
    BY IntactWaiting DEF DInv
  <2>2. \A z \in Waiting(eng') \cup live' : data'[z.slot] = z.id
    BY <1>2, <1>3, <1>4, <2>1 DEF Idle, Waiting
  <2> QED BY <2>2, IntactWaitingNext
<1>8. live' \in SUBSET Entry /\ data' \in [Slot -> Int] /\ epoch' = epoch
  BY <1>1, <1>2, <1>3 DEF DInv
<1> QED BY <1>2, <1>4, <1>5, <1>6, <1>7, <1>8, SafeNext

LEMMA DDrain ==
    ASSUME DInv, Drain
    PROVE  DInv'
<1>0. PICK ep \in Nat : EngSafe(eng, {}, live, ep)
  BY RunningSafe DEF Drain
<1>1. EngSafe(eng, {}, live, ep) /\ Len(eng.reorder_q) \in Nat
  BY <1>0 DEF DInv, EngSafe, EngType
<1>2. eng' = DrainAll(eng) /\ UNCHANGED <<gop, at, base, epoch, budget, data, live>>
  BY DEF Drain
<1>3. EngSafe(eng', {}, live, ep)
  BY <1>1, <1>2, DrainSafe
<1>4. Bumped(eng, eng', Len(eng.reorder_q))
  BY <1>1, <1>2, DrainSafe
<1>5. eng'.codec = eng.codec /\ Waiting(eng') = Waiting(eng) /\ eng'.max_num_reorder_pics = eng.max_num_reorder_pics
  BY <1>4 DEF Bumped, Waiting
<1>6. Len(eng'.reorder_q) \in Nat /\ Len(eng'.reorder_q) + Len(eng.reorder_q) = Len(eng.reorder_q)
  BY <1>3, <1>4 DEF Bumped, EngSafe, EngType
<1>7. Len(eng'.reorder_q) = 0 /\ eng'.max_num_reorder_pics \in Nat
  BY <1>1, <1>3, <1>6 DEF EngSafe, EngType
<1>8. StreamInv'
  BY <1>2, <1>5, StreamRests
<1>9. Len(eng'.reorder_q) <= eng'.max_num_reorder_pics /\ eng'.max_num_reorder_pics \in {0, MaxReorder(eng')}
  BY <1>5, <1>7 DEF DInv, ReorderInv, MaxReorder
<1>10. FramesIntact'
  BY <1>2, <1>5, IntactWaiting, IntactWaitingNext DEF DInv
<1>11. live' = live /\ live \in SUBSET Entry /\ data' \in [Slot -> Int]
  BY <1>2 DEF DInv
<1> QED BY <1>3, <1>8, <1>9, <1>10, <1>11, SafeNext

LEMMA DFlush ==
    ASSUME DInv, Flush
    PROVE  DInv'
<1>0. PICK ep \in Nat : EngSafe(eng, {}, live, ep)
  BY RunningSafe DEF Flush
<1>1. epoch \in Nat
  BY DEF DInv, StreamInv
<1>3. eng' = Flushed(eng) /\ epoch' = epoch + 1 /\ base' = base + Len(gop) /\ live' = live /\ data' = data
  BY DEF Flush
<1>4. EngSafe(eng', {}, live, SlotEpoch(eng'))
  BY <1>0, <1>3, FlushedSafe
<1>5. Waiting(eng') = {} /\ eng'.codec = eng.codec /\ eng'.max_num_reorder_pics = 0 /\ eng'.reorder_q = <<>>
  BY <1>0, <1>3, FlushedSafe
<1>6. PICK g \in Gops[eng.codec] : gop' = g /\ at' \in DOMAIN g
  BY DEF Flush
<1>7. g \in Seq(Picture)
  BY <1>6, GopsType DEF DInv, StreamInv
<1>8. at' \in Nat \ {0}
  BY <1>6, <1>7
<1>9. budget' \in [gops : Int, flush : Int, fail : Int]
  BY DEF Flush, DInv, StreamInv
<1>10. base' \in Nat /\ epoch' \in Nat
  BY <1>1, <1>3, BaseMoves
<1>11. StreamInv'
  BY <1>5, <1>6, <1>7, <1>8, <1>9, <1>10, StreamMoves
<1>12. Len(eng'.reorder_q) <= eng'.max_num_reorder_pics /\ eng'.max_num_reorder_pics \in {0, MaxReorder(eng')}
  BY <1>5
<1>13. FramesIntact'
  <2>1. \A z \in live : data[z.slot] = z.id
    BY IntactWaiting DEF DInv
  <2> QED BY <1>3, <1>5, <2>1, IntactWaitingNext
<1>14. live' = live /\ live \in SUBSET Entry /\ data' \in [Slot -> Int]
  BY <1>3 DEF DInv
<1> QED BY <1>4, <1>11, <1>12, <1>13, <1>14, SafeNext

LEMMA DRestart ==
    ASSUME DInv, Restart
    PROVE  DInv'
<1>1. PICK c \in Codecs : c = eng.codec /\ c \in {"H264", "H265"}
  BY EngineAssumption DEF DInv, StreamInv
<1>2. eng' = EngineInit(c) /\ live' = {} /\ at' = 1 /\ base' = 0 /\ data' = [i \in Slot |-> Garbage]
  BY <1>1 DEF Restart
<1>3. /\ EngSafe(eng', {}, {}, 0) /\ Waiting(eng') = {}
      /\ eng'.reorder_q = <<>> /\ eng'.max_num_reorder_pics = 0 /\ eng'.codec = eng.codec
  BY <1>1, <1>2, InitEngine
<1>4. PICK k \in 0 .. budget.flush : /\ epoch' = epoch + k
                                     /\ budget' = [budget EXCEPT !.gops = @ - 1, !.flush = @ - k]
  BY DEF Restart
<1>11. PICK y \in [gops : Int, flush : Int, fail : Int] : y = budget
  BY DEF DInv, StreamInv
<1>12. k \in Nat /\ y.gops - 1 \in Int /\ y.flush - k \in Int /\ budget' = [y EXCEPT !.gops = @ - 1, !.flush = @ - k]
  BY <1>4, <1>11
<1>13. PICK m \in Int, n \in Int : m = y.gops - 1 /\ n = y.flush - k
  BY <1>12
<1>14. budget' = [y EXCEPT !.gops = m, !.flush = n]
  BY <1>12, <1>13
<1>15. epoch' \in Nat
  BY <1>4, <1>12 DEF DInv, StreamInv
<1>5. epoch' \in Nat /\ budget' \in [gops : Int, flush : Int, fail : Int]
  BY <1>14, <1>15
<1>6. gop' \in Seq(Picture)
  BY <1>1, GopsType DEF Restart
<1>7. StreamInv'
  BY <1>2, <1>3, <1>5, <1>6, StreamMoves
<1>8. FramesIntact'
  BY <1>2, <1>3, IntactWaitingNext
<1>9. Len(eng'.reorder_q) <= eng'.max_num_reorder_pics /\ live' \in SUBSET Entry
  BY <1>2, <1>3
<1>10. data' \in [Slot -> Int]
  BY <1>2 DEF Garbage
<1> QED BY <1>2, <1>3, <1>7, <1>8, <1>9, <1>10, SafeNext

LEMMA DStutter ==
    ASSUME DInv, UNCHANGED vars
    PROVE  DInv'
<1>1. eng' = eng /\ live' = live /\ data' = data /\ UNCHANGED <<gop, at, base, epoch, budget>>
  BY DEF vars
<1>2. StreamInv'
  BY <1>1, StreamRests
<1>3. FramesIntact'
  BY <1>1 DEF DInv, FramesIntact, Queued
<1>4. ReorderInv'
  BY <1>1 DEF DInv, ReorderInv, MaxReorder
<1> QED BY <1>1, <1>2, <1>3, <1>4 DEF DInv, Ended

LEMMA DNext == DInv /\ [Next]_vars => DInv'
<1> SUFFICES ASSUME DInv, [Next]_vars PROVE DInv'
  OBVIOUS
<1>1. CASE Submit
  BY <1>1, DSubmit
<1>2. CASE NextGop
  BY <1>2, DNextGop
<1>3. CASE PollFrame
  BY <1>3, DPoll
<1>4. CASE ReleaseFrame
  BY <1>4, DRelease
<1>5. CASE Drain
  BY <1>5, DDrain
<1>6. CASE Flush
  BY <1>6, DFlush
<1>7. CASE UNCHANGED vars
  BY <1>7, DStutter
<1>8. CASE Restart
  BY <1>8, DRestart
<1> QED BY <1>1, <1>2, <1>3, <1>4, <1>5, <1>6, <1>7, <1>8 DEF Next

LEMMA DAlways == Spec => []DInv
BY DInit, DNext, PTL DEF Spec

-----------------------------------------------------------------------------
\* Theorems.

\* RKMPP_VERIFY ends the process on one condition only (dpb.cpp:205, 778): a decode carries a
\* stream epoch that is not its slot's.  Whatever the order of decodes, failures, IDRs, bumps, polls,
\* releases, drains, seeks and restarts, each hold is taken once, released once, and by an entry of
\* the epoch in which its slot was selected, also once the two epochs have parted.
THEOREM TrapsOnlyOnTags == Spec => []TrapsOnTagOnly
<1>1. DInv => TrapsOnTagOnly
  BY DEF DInv, EngSafe, Ended, TrapsOnTagOnly
<1> QED BY <1>1, DAlways, PTL

\* No decode writes the buffer of a picture that waits in reorder_q or ready_q or that the caller
\* has not released, although marking, sliding window, IDR and flush free slots without looking
\* at the queues (dpb.cpp, decode_engine.cpp).
THEOREM PicturesSurvive == Spec => []FramesIntact
<1>1. DInv => FramesIntact
  BY DEF DInv
<1> QED BY <1>1, DAlways, PTL

\* The reorder depth of every stream is less than the number of frames the pool can queue.
Roomy == \A c \in Codecs : MaxReorder(EngineInit(c)) < PoolSize - 1

LEMMA MaxOfTwo ==
    ASSUME NEW a \in Nat, NEW b \in Nat
    PROVE  Max({a, b}) \in Nat /\ a <= Max({a, b})
<1>1. \E x \in {a, b} : \A y \in {a, b} : x >= y
  <2>1. CASE a >= b
    BY <2>1
  <2>2. CASE ~(a >= b)
    BY <2>2
  <2> QED BY <2>1, <2>2
<1>2. PICK x : x = Max({a, b}) /\ x \in {a, b} /\ \A y \in {a, b} : x >= y
  BY <1>1 DEF Max
<1> QED BY <1>2

\* For such streams input is refused for full queues only when a frame is ready
\* (decode_engine.cpp, DecodeEngine_InputQueueCapacity): never do the caller's input and output
\* wait for each other.
THEOREM QueuesMove == Roomy => (Spec => []NoStall)
<1>1. ASSUME Roomy PROVE DInv => NoStall
  <2> SUFFICES ASSUME DInv, eng.ready_q = <<>> PROVE ~(QueueDepth(eng) >= InputQueueCapacity(eng))
    BY DEF NoStall
  <2>1. Len(eng.reorder_q) \in Nat /\ eng.max_num_reorder_pics \in Nat /\ eng.codec \in Codecs
    BY DEF DInv, StreamInv, ReorderInv, EngType
  <2>2. PICK n \in Nat, m \in Nat : /\ n = Len(eng.reorder_q) /\ m = eng.max_num_reorder_pics
                                    /\ n <= m /\ m \in {0, MaxReorder(eng)}
    BY <2>1 DEF DInv, ReorderInv
  <2>3. QueueDepth(eng) = n
    BY <2>1, <2>2 DEF QueueDepth
  <2>4. PICK h \in Nat : h = MaxReorder(eng) /\ h < PoolSize - 1
    <3>1. MaxReorder(eng) = MaxReorder(EngineInit(eng.codec))
      BY DEF MaxReorder, EngineInit
    <3> QED BY <1>1, <2>1, <3>1, ReorderNat DEF Roomy
  <2>5. PICK p \in Nat : p = PoolSize - 1 /\ n < p
    BY <2>2, <2>4, PoolAssumption
  <2>6. PICK k \in Nat : k = Max({m + 1, 4}) /\ n < k
    <3>1. m + 1 \in Nat /\ 4 \in Nat
      OBVIOUS
    <3>2. Max({m + 1, 4}) \in Nat /\ m + 1 <= Max({m + 1, 4})
      BY <3>1, MaxOfTwo
    <3> QED BY <2>2, <3>2
  <2>7. Min({k, p}) \in {k, p}
    <3>1. {k, p} \in SUBSET Nat /\ {k, p} # {}
      OBVIOUS
    <3> QED BY <3>1, MinIn
  <2>8. InputQueueCapacity(eng) \in {k, p}
    BY <2>2, <2>5, <2>6, <2>7 DEF InputQueueCapacity
  <2> QED BY <2>3, <2>5, <2>6, <2>8
<1> SUFFICES ASSUME Roomy PROVE Spec => []NoStall
  OBVIOUS
<1>2. DInv => NoStall
  BY <1>1
<1>3. Spec => []DInv
  BY DAlways
<1> QED BY <1>2, <1>3, PTL
=============================================================================
