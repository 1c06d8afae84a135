-------------------------- MODULE BufferPoolProofs --------------------------
(***************************************************************************)
(* The quotas of the buffer pool, the single owner of every buffer and the *)
(* balance of charges and resources, for any number of files and threads   *)
(* and any limits.                                                         *)
(***************************************************************************)
EXTENDS BufferPool, TLAPS, FiniteSetTheorems

\* A thread about to swap has room below the limit for what it has read.
SwapFits == \A t \in Threads : pc[t] = "swap" => snap[t] + size[t] <= MaxGlobalBytes

QInv == TypeOK /\ QuotaBound /\ SwapFits

LEMMA RoundNat == \A n \in Nat : RoundSize(n) \in Nat
<1> SUFFICES ASSUME NEW n \in Nat PROVE RoundSize(n) \in Nat
  OBVIOUS
<1>1. PageSize \in Nat /\ PageSize > 0 /\ n + PageSize - 1 \in Nat
  BY PoolAssumption
<1>2. (n + PageSize - 1) \div PageSize \in Nat
  BY <1>1
<1> QED BY <1>1, <1>2 DEF RoundSize

LEMMA FileOfType == \A t \in Threads : FileOf[t] \in Files
BY PoolAssumption

LEMMA QInit == Init => QInv
<1> SUFFICES ASSUME Init PROVE QInv
  OBVIOUS
<1>1. TypeOK
  BY DEF Init, TypeOK, Points, Stages, Kinds
<1>2. QuotaBound /\ SwapFits
  BY PoolAssumption DEF Init, QuotaBound, SwapFits
<1> QED BY <1>1, <1>2 DEF QInv

\* Entering, leaving and the file context: nothing is charged.
LEMMA QEntry ==
    ASSUME QInv, NEW t \in Threads,
           \/ AllocStart(t) \/ Claim(t) \/ FileCtxInit(t) \/ Publish(t) \/ Spin(t)
           \/ FreeStart(t) \/ Close(t)
    PROVE  QInv'
<1> USE FileOfType DEF QInv, ctxVars, Goto, ToReserve
<1>1. CASE AllocStart(t)
  <2>1. PICK n \in Requests : AllocStart(t)!(n)
    BY <1>1 DEF AllocStart
  <2>2. n \in Nat /\ RoundSize(n) \in Nat
    BY RoundNat, PoolAssumption
  <2>3. size' \in [Threads -> Nat]
    BY <2>1, <2>2 DEF TypeOK
  <2>4. TypeOK'
    BY <2>1, <2>3 DEF TypeOK, Points
  <2> QED BY <2>1, <2>4 DEF QuotaBound, SwapFits, TypeOK
<1>2. CASE Claim(t)
  BY <1>2 DEF Claim, TypeOK, Points, QuotaBound, SwapFits
<1>3. CASE FileCtxInit(t)
  <2>1. TypeOK'
    BY <1>3 DEF FileCtxInit, TypeOK, Points
  <2> QED BY <1>3, <2>1, PoolAssumption DEF FileCtxInit, TypeOK, QuotaBound, SwapFits
<1>4. CASE Publish(t)
  BY <1>4 DEF Publish, TypeOK, Points, QuotaBound, SwapFits
<1>5. CASE Spin(t)
  BY <1>5 DEF Spin, TypeOK, Points, QuotaBound, SwapFits
<1>6. CASE FreeStart(t)
  BY <1>6 DEF FreeStart, TypeOK, Points, QuotaBound, SwapFits
<1>7. CASE Close(t)
  BY <1>7 DEF Close, TypeOK, Points, QuotaBound, SwapFits
<1> QED BY <1>1, <1>2, <1>3, <1>4, <1>5, <1>6, <1>7

\* The charges go up, each below its limit.
LEMMA QReserve ==
    ASSUME QInv, NEW t \in Threads, ReserveFile(t) \/ ReserveRead(t) \/ ReserveSwap(t)
    PROVE  QInv'
<1> USE FileOfType, PoolAssumption DEF QInv, ctxVars, Goto
<1>1. CASE ReserveFile(t)
  <2> DEFINE f == FileOf[t]
  <2>1. CASE OverQuota(f, size[t])
    BY <1>1, <2>1 DEF ReserveFile, Finish, TypeOK, Points, QuotaBound, SwapFits
  <2>2. CASE ~OverQuota(f, size[t])
    <3>1. /\ AllocatedBytes' = [AllocatedBytes EXCEPT ![f] = @ + size[t]]
          /\ BufferCount' = [BufferCount EXCEPT ![f] = @ + 1]
          /\ pc' = [pc EXCEPT ![t] = "global"]
          /\ UNCHANGED <<Device, Buffers, total, nextCookie, live, closing, snap, own, size>>
      BY <1>1, <2>2 DEF ReserveFile
    <3>2. /\ AllocatedBytes[f] \in Nat /\ BufferCount[f] \in Nat /\ size[t] \in Nat
          /\ AllocatedBytes[f] + size[t] <= MaxFileBytes
          /\ BufferCount[f] + 1 <= MaxFileBufferCount
      BY <2>2 DEF OverQuota, TypeOK
    <3>3. TypeOK'
      BY <3>1, <3>2 DEF TypeOK, Points
    <3>4. QuotaBound'
      BY <3>1, <3>2 DEF TypeOK, QuotaBound
    <3> QED BY <3>1, <3>3, <3>4 DEF TypeOK, SwapFits
  <2> QED BY <2>1, <2>2
<1>2. CASE ReserveRead(t)
  <2>1. TypeOK'
    BY <1>2 DEF ReserveRead, TypeOK, Points
  <2> QED BY <1>2, <2>1 DEF ReserveRead, TypeOK, QuotaBound, SwapFits
<1>3. CASE ReserveSwap(t)
  <2>1. TypeOK'
    BY <1>3 DEF ReserveSwap, TypeOK, Points, Stages, Kinds
  <2>2. total' <= MaxGlobalBytes
    BY <1>3 DEF ReserveSwap, TypeOK, QuotaBound, SwapFits
  <2> QED BY <1>3, <2>1, <2>2 DEF ReserveSwap, TypeOK, QuotaBound, SwapFits
<1> QED BY <1>1, <1>2, <1>3

\* The charges go down; the clamp keeps them natural numbers.
LEMMA QRelease ==
    ASSUME QInv, NEW t \in Threads, ReserveRollback(t) \/ ReleaseFile(t) \/ ReleaseGlobal(t)
    PROVE  QInv'
<1> USE FileOfType, PoolAssumption DEF QInv, ctxVars, Goto, Finish
<1>1. ASSUME Uncharge(FileOf[t], size[t])
      PROVE  /\ AllocatedBytes' \in [Files -> Nat] /\ BufferCount' \in [Files -> Nat]
             /\ \A f \in Files : /\ AllocatedBytes'[f] <= AllocatedBytes[f]
                                 /\ BufferCount'[f] <= BufferCount[f]
  BY <1>1 DEF Uncharge, TypeOK
<1>2. CASE ReserveRollback(t)
  <2>1. TypeOK'
    BY <1>1, <1>2 DEF ReserveRollback, TypeOK, Points
  <2>2. QuotaBound'
    BY <1>1, <1>2 DEF ReserveRollback, TypeOK, QuotaBound
  <2> QED BY <1>2, <2>1, <2>2 DEF ReserveRollback, TypeOK, SwapFits
<1>3. CASE ReleaseFile(t)
  <2>1. TypeOK'
    BY <1>1, <1>3 DEF ReleaseFile, TypeOK, Points
  <2>2. QuotaBound'
    BY <1>1, <1>3 DEF ReleaseFile, TypeOK, QuotaBound
  <2> QED BY <1>3, <2>1, <2>2 DEF ReleaseFile, TypeOK, SwapFits
<1>4. CASE ReleaseGlobal(t)
  <2>1. TypeOK'
    BY <1>4 DEF ReleaseGlobal, TypeOK, Points
  <2> QED BY <1>4, <2>1 DEF ReleaseGlobal, TypeOK, QuotaBound, SwapFits
<1> QED BY <1>2, <1>3, <1>4

\* Resources and lists: no charge moves.
LEMMA QBuffers ==
    ASSUME QInv, NEW t \in Threads,
           \/ Acquire(t) \/ AcquireNode(t) \/ AcquireFails(t) \/ Insert(t)
           \/ Unlink(t) \/ FreeOne(t) \/ FreeAll(t)
    PROVE  QInv'
<1> USE FileOfType DEF QInv, ctxVars, Goto, Finish
<1>1. CASE Acquire(t)
  BY <1>1 DEF Acquire, After, TypeOK, Points, Stages, Kinds, QuotaBound, SwapFits
<1>2. CASE AcquireNode(t)
  BY <1>2 DEF AcquireNode, Release, TypeOK, Points, QuotaBound, SwapFits
<1>3. CASE AcquireFails(t)
  BY <1>3 DEF AcquireFails, Release, TypeOK, Points, QuotaBound, SwapFits
<1>4. CASE Insert(t)
  <2>1. [cookie |-> own[t], size |-> size[t]] \in Buffer
    BY DEF TypeOK, Buffer
  <2> QED BY <1>4, <2>1 DEF Insert, TypeOK, Points, QuotaBound, SwapFits
<1>5. ASSUME NEW b \in Buffers[FileOf[t]], Take(t, b),
             UNCHANGED <<Device, AllocatedBytes, BufferCount, total, nextCookie, live, closing,
                         snap>>
      PROVE  QInv'
  <2>1. b.cookie \in Nat /\ b.size \in Nat
    BY DEF TypeOK, Buffer
  <2>2. TypeOK'
    BY <1>5, <2>1 DEF Take, TypeOK, Points
  <2> QED BY <1>5, <2>2 DEF Take, TypeOK, QuotaBound, SwapFits
<1>6. CASE Unlink(t)
  BY <1>5, <1>6 DEF Unlink, TypeOK, Points, QuotaBound, SwapFits
<1>7. CASE FreeOne(t)
  BY <1>7 DEF FreeOne, Release, TypeOK, Points, QuotaBound, SwapFits
<1>8. CASE FreeAll(t)
  BY <1>5, <1>8 DEF FreeAll, TypeOK, Points, QuotaBound, SwapFits
<1> QED BY <1>1, <1>2, <1>3, <1>4, <1>6, <1>7, <1>8

LEMMA QNext == QInv /\ [Next]_vars => QInv'
<1> SUFFICES ASSUME QInv, [Next]_vars PROVE QInv'
  OBVIOUS
<1>1. CASE UNCHANGED vars
  BY <1>1 DEF QInv, TypeOK, QuotaBound, SwapFits, vars, ctxVars
<1>2. CASE Next
  BY <1>2, QEntry, QReserve, QRelease, QBuffers DEF Next, AllocStep, FreeStep
<1> QED BY <1>1, <1>2

\* Neither quota is exceeded in any state, whatever reservations race.
THEOREM QuotasHold == Spec => []QuotaBound
<1>1. QInv => QuotaBound
  BY DEF QInv
<1> QED BY <1>1, QInit, QNext, PTL DEF Spec

-----------------------------------------------------------------------------
(***************************************************************************)
(* Every buffer has one owner.                                             *)
(***************************************************************************)

\* Cookies that exist were handed out.
CookiesIssued ==
    /\ \A f \in Files : \A b \in Buffers[f] : b.cookie <= nextCookie
    /\ \A t \in Threads : own[t] <= nextCookie /\ (pc[t] = "insert" => own[t] # 0)

\* No two listed buffers, of one file or of two, share a cookie.
CookiesDiffer ==
    \A f, g \in Files : \A b \in Buffers[f], c \in Buffers[g] :
        b.cookie = c.cookie => f = g /\ b = c

OwnersDiffer ==
    \A t \in Threads : own[t] # 0 =>
        /\ \A f \in Files : \A b \in Buffers[f] : b.cookie # own[t]
        /\ \A u \in Threads \ {t} : own[u] # own[t]

CInv == CookiesIssued /\ CookiesDiffer /\ OwnersDiffer

LEMMA CInit == Init => CInv
BY DEF Init, CInv, CookiesIssued, CookiesDiffer, OwnersDiffer

\* Steps that move no buffer and no cookie.
LEMMA CKeeps ==
    ASSUME QInv, CInv, NEW t \in Threads, NEW l, Goto(t, l), l # "insert",
           UNCHANGED <<Buffers, nextCookie, own>>
    PROVE  CInv'
BY DEF CInv, CookiesIssued, CookiesDiffer, OwnersDiffer, QInv, TypeOK, Goto

\* A new cookie is larger than all there are.
LEMMA CNode ==
    ASSUME QInv, CInv, NEW t \in Threads, AcquireNode(t)
    PROVE  CInv'
<1> USE DEF QInv, TypeOK, Goto, ctxVars
<1>0. /\ nextCookie' = nextCookie + 1 /\ nextCookie \in Nat /\ Buffers' = Buffers
      /\ \A f \in Files : \A b \in Buffers[f] : b.cookie \in Nat
      /\ \A u \in Threads \ {t} : pc'[u] = pc[u]
  BY DEF AcquireNode, Buffer
<1>1. CASE own' = [own EXCEPT ![t] = nextCookie']
  <2>1. own'[t] = nextCookie + 1 /\ \A u \in Threads \ {t} : own'[u] = own[u]
    BY <1>0, <1>1
  <2>2. CookiesIssued' /\ CookiesDiffer'
    BY <1>0, <2>1 DEF CInv, CookiesIssued, CookiesDiffer
  <2>3. OwnersDiffer'
    BY <1>0, <2>1 DEF CInv, CookiesIssued, OwnersDiffer
  <2> QED BY <2>2, <2>3 DEF CInv
<1>2. CASE own' = own /\ Goto(t, "uncharge")
  BY <1>0, <1>2 DEF CInv, CookiesIssued, CookiesDiffer, OwnersDiffer
<1> QED BY <1>1, <1>2 DEF AcquireNode

\* The buffer goes from the thread to the list ...
LEMMA CInsert ==
    ASSUME QInv, CInv, NEW t \in Threads, Insert(t)
    PROVE  CInv'
<1> DEFINE f == FileOf[t]
           b == [cookie |-> own[t], size |-> size[t]]
<1>1. /\ f \in Files /\ b.cookie = own[t] /\ own[t] # 0
      /\ Buffers' = [Buffers EXCEPT ![f] = @ \cup {b}]
      /\ own' = [own EXCEPT ![t] = 0] /\ pc' = [pc EXCEPT ![t] = "idle"]
      /\ nextCookie' = nextCookie
  BY FileOfType DEF Insert, Finish, Goto, CInv, CookiesIssued
<1> HIDE DEF f, b
<1>2. /\ \A g \in Files : Buffers'[g] = IF g = f THEN Buffers[g] \cup {b} ELSE Buffers[g]
      /\ own'[t] = 0 /\ \A u \in Threads \ {t} : own'[u] = own[u]
      /\ pc'[t] = "idle" /\ \A u \in Threads \ {t} : pc'[u] = pc[u]
  BY <1>1 DEF QInv, TypeOK
<1>3. CookiesIssued'
  BY <1>1, <1>2 DEF CInv, CookiesIssued, QInv, TypeOK
<1>4. CookiesDiffer'
  BY <1>1, <1>2 DEF CInv, CookiesDiffer, OwnersDiffer
<1>5. OwnersDiffer'
  BY <1>1, <1>2 DEF CInv, OwnersDiffer
<1> QED BY <1>3, <1>4, <1>5 DEF CInv

\* ... and back.
LEMMA CTake ==
    ASSUME QInv, CInv, NEW t \in Threads, NEW b \in Buffers[FileOf[t]], Take(t, b),
           nextCookie' = nextCookie
    PROVE  CInv'
<1> DEFINE f == FileOf[t]
<1>1. /\ f \in Files /\ b \in Buffers[f]
      /\ Buffers' = [Buffers EXCEPT ![f] = @ \ {b}]
      /\ own' = [own EXCEPT ![t] = b.cookie] /\ pc' = [pc EXCEPT ![t] = "uncharge"]
  BY FileOfType DEF Take, Goto
<1> HIDE DEF f
<1>2. /\ \A g \in Files : Buffers'[g] = IF g = f THEN Buffers[g] \ {b} ELSE Buffers[g]
      /\ own'[t] = b.cookie /\ \A u \in Threads \ {t} : own'[u] = own[u]
      /\ pc'[t] = "uncharge" /\ \A u \in Threads \ {t} : pc'[u] = pc[u]
  BY <1>1 DEF QInv, TypeOK
<1>3. CookiesIssued'
  BY <1>1, <1>2 DEF CInv, CookiesIssued
<1>4. CookiesDiffer'
  BY <1>1, <1>2 DEF CInv, CookiesDiffer
<1>5. OwnersDiffer'
  BY <1>1, <1>2 DEF CInv, CookiesDiffer, OwnersDiffer
<1> QED BY <1>3, <1>4, <1>5 DEF CInv

\* A thread without a buffer, or a context whose list is emptied.
LEMMA COther ==
    ASSUME QInv, CInv, NEW t \in Threads, FileCtxInit(t) \/ FreeOne(t)
    PROVE  CInv'
<1> USE FileOfType DEF QInv, TypeOK, Goto, ctxVars
<1>1. CASE FileCtxInit(t)
  <2>1. \A g \in Files : Buffers'[g] \subseteq Buffers[g]
    BY <1>1 DEF FileCtxInit
  <2>2. own' = own /\ nextCookie' = nextCookie /\ pc' = [pc EXCEPT ![t] = "publish"]
    BY <1>1 DEF FileCtxInit
  <2> QED BY <2>1, <2>2 DEF CInv, CookiesIssued, CookiesDiffer, OwnersDiffer
<1>2. CASE FreeOne(t)
  <2>1. /\ own' = [own EXCEPT ![t] = 0] /\ Buffers' = Buffers /\ nextCookie' = nextCookie
        /\ \A u \in Threads : pc'[u] = "insert" => u # t /\ pc[u] = "insert"
    BY <1>2 DEF FreeOne
  <2> QED BY <2>1 DEF CInv, CookiesIssued, CookiesDiffer, OwnersDiffer
<1> QED BY <1>1, <1>2

LEMMA CNext == QInv /\ CInv /\ [Next]_vars => CInv'
<1> SUFFICES ASSUME QInv, CInv, [Next]_vars PROVE CInv'
  OBVIOUS
<1> USE DEF ctxVars
<1>1. CASE UNCHANGED vars
  BY <1>1 DEF CInv, CookiesIssued, CookiesDiffer, OwnersDiffer, vars
<1>2. ASSUME NEW t \in Threads, AllocStep(t) PROVE CInv'
  <2>1. CASE AllocStart(t) \/ Claim(t) \/ Publish(t) \/ Spin(t)
    BY <2>1, CKeeps DEF AllocStart, Claim, Publish, Spin, ToReserve
  <2>2. CASE ReserveFile(t) \/ ReserveRead(t) \/ ReserveSwap(t) \/ ReserveRollback(t)
    BY <2>2, CKeeps DEF ReserveFile, ReserveRead, ReserveSwap, ReserveRollback, Finish
  <2>3. CASE Acquire(t) \/ AcquireFails(t)
    BY <2>3, CKeeps DEF Acquire, AcquireFails, After, Kinds
  <2> QED BY <1>2, <2>1, <2>2, <2>3, CNode, CInsert, COther DEF AllocStep
<1>3. ASSUME NEW t \in Threads, FreeStep(t) PROVE CInv'
  <2>1. CASE FreeStart(t) \/ ReleaseFile(t) \/ ReleaseGlobal(t) \/ Close(t)
    BY <2>1, CKeeps DEF FreeStart, ReleaseFile, ReleaseGlobal, Close
  <2>2. CASE Unlink(t)
    BY <2>2, CKeeps, CTake DEF Unlink
  <2>3. CASE FreeAll(t)
    BY <2>3, CKeeps, CTake DEF FreeAll
  <2> QED BY <1>3, <2>1, <2>2, <2>3, COther DEF FreeStep
<1> QED BY <1>1, <1>2, <1>3 DEF Next

\* A buffer is on one list or being freed by one request, however FREE_BUFFER,
\* ALLOC_BUFFER and the closing of handles overlap.
THEOREM BuffersFreedOnce == Spec => []FreedOnce
<1>1. CInv => FreedOnce
  BY DEF CInv, OwnersDiffer, FreedOnce, Listed
<1> QED BY <1>1, QInit, QNext, CInit, CNext, PTL DEF Spec

-----------------------------------------------------------------------------
(***************************************************************************)
(* The file contexts, when no request begins during the initialisation of  *)
(* its file's context.                                                     *)
(***************************************************************************)
Apart == "sentinel" \notin Overlap

\* Where a request may have put a charge or a buffer on its file's books.
AtWork == Stages \cup {"reserve", "global", "swap", "rollback", "insert", "uncharge"}

\* One thread initialises a context; before that it has no buffers, and no
\* request is past it.
CtxInv ==
    /\ \A f \in Files : Device[f] # "ready" => Buffers[f] = {}
    /\ \A t \in Threads : pc[t] \in {"init", "publish"} => Device[FileOf[t]] = "sentinel"
    /\ \A t, u \in Threads :
          ({pc[t], pc[u]} \subseteq {"init", "publish"} /\ FileOf[t] = FileOf[u]) => t = u
    /\ \A t \in Threads : pc[t] \in AtWork => Device[FileOf[t]] = "ready"

LEMMA CtxInit == Init => CtxInv
BY DEF Init, CtxInv, AtWork, Stages, Kinds

\* Steps that leave the contexts alone and enter no critical place.
LEMMA CtxKeeps ==
    ASSUME QInv, CtxInv, NEW t \in Threads, NEW l, Goto(t, l), UNCHANGED <<Device, Buffers>>,
           l \notin {"init", "publish"}, l \in AtWork => Device[FileOf[t]] = "ready"
    PROVE  CtxInv'
BY DEF CtxInv, QInv, TypeOK, Goto

LEMMA CtxDevice ==
    ASSUME QInv, CtxInv, NEW t \in Threads, Claim(t) \/ FileCtxInit(t) \/ Publish(t)
    PROVE  CtxInv'
<1> USE FileOfType DEF QInv, TypeOK, Goto, AtWork, Stages, Kinds
<1>1. CASE Claim(t)
  <2>1. CASE Device[FileOf[t]] = "null"
    <3>1. /\ Device' = [Device EXCEPT ![FileOf[t]] = "sentinel"] /\ Buffers' = Buffers
          /\ pc' = [pc EXCEPT ![t] = "init"]
      BY <1>1, <2>1 DEF Claim
    <3> QED BY <2>1, <3>1 DEF CtxInv
  <2>2. CASE Device[FileOf[t]] # "null"
    BY <1>1, <2>2, CtxKeeps DEF Claim
  <2> QED BY <2>1, <2>2
<1>2. CASE FileCtxInit(t)
  <2>1. /\ Buffers' = [Buffers EXCEPT ![FileOf[t]] = {}] /\ Device' = Device
        /\ pc' = [pc EXCEPT ![t] = "publish"] /\ pc[t] = "init"
    BY <1>2 DEF FileCtxInit
  <2> QED BY <2>1 DEF CtxInv
<1>3. CASE Publish(t)
  <2>1. /\ Device' = [Device EXCEPT ![FileOf[t]] = "ready"] /\ Buffers' = Buffers
        /\ pc' = [pc EXCEPT ![t] = IF size[t] = 0 THEN "idle" ELSE "reserve"]
        /\ pc[t] = "publish"
    BY <1>3 DEF Publish, ToReserve
  <2> QED BY <2>1 DEF CtxInv
<1> QED BY <1>1, <1>2, <1>3

LEMMA CtxBuffers ==
    ASSUME QInv, CtxInv, NEW t \in Threads,
           \/ Insert(t)
           \/ \E b \in Buffers[FileOf[t]] : Take(t, b) /\ Device' = Device
    PROVE  CtxInv'
<1> USE FileOfType DEF QInv, TypeOK
<1>1. CASE Insert(t)
  <2>1. /\ \A g \in Files : Device[g] # "ready" => Buffers'[g] = Buffers[g]
        /\ Device' = Device /\ pc' = [pc EXCEPT ![t] = "idle"]
    BY <1>1 DEF Insert, Finish, Goto, CtxInv, AtWork
  <2> QED BY <2>1 DEF CtxInv, AtWork, Stages, Kinds
<1>2. ASSUME NEW b \in Buffers[FileOf[t]], Take(t, b), Device' = Device PROVE CtxInv'
  <2>1. /\ \A g \in Files : Buffers'[g] \subseteq Buffers[g]
        /\ pc' = [pc EXCEPT ![t] = "uncharge"] /\ Device[FileOf[t]] = "ready"
    BY <1>2 DEF Take, Goto, CtxInv
  <2> QED BY <1>2, <2>1 DEF CtxInv, AtWork, Stages, Kinds
<1> QED BY <1>1, <1>2

LEMMA CtxNext == Apart /\ QInv /\ CtxInv /\ [Next]_vars => CtxInv'
<1> SUFFICES ASSUME Apart, QInv, CtxInv, [Next]_vars PROVE CtxInv'
  OBVIOUS
<1> USE DEF ctxVars
<1>1. CASE UNCHANGED vars
  BY <1>1 DEF CtxInv, vars
<1>w. \A t \in Threads : pc[t] \in AtWork => Device[FileOf[t]] = "ready"
  BY DEF CtxInv
<1>2. ASSUME NEW t \in Threads, AllocStep(t) PROVE CtxInv'
  <2>1. CASE AllocStart(t) \/ Spin(t)
    <3>1. Device[FileOf[t]] \in {"null", "sentinel", "ready"}
      BY FileOfType DEF QInv, TypeOK
    <3> QED BY <2>1, <3>1, CtxKeeps
            DEF AllocStart, MayEnter, Apart, Spin, ToReserve, AtWork, Stages, Kinds
  <2>2. CASE ReserveFile(t) \/ ReserveRead(t) \/ ReserveSwap(t) \/ ReserveRollback(t)
    BY <1>w, <2>2, CtxKeeps
    DEF ReserveFile, ReserveRead, ReserveSwap, ReserveRollback, Finish, AtWork
  <2>3. CASE Acquire(t) \/ AcquireFails(t) \/ AcquireNode(t)
    BY <1>w, <2>3, CtxKeeps DEF Acquire, AcquireFails, AcquireNode, After, Kinds, AtWork, Stages
  <2> QED BY <1>2, <2>1, <2>2, <2>3, CtxDevice, CtxBuffers DEF AllocStep
<1>3. ASSUME NEW t \in Threads, FreeStep(t) PROVE CtxInv'
  <2>1. CASE FreeStart(t) \/ ReleaseFile(t) \/ ReleaseGlobal(t) \/ FreeOne(t) \/ Close(t)
    BY <2>1, CtxKeeps DEF FreeStart, ReleaseFile, ReleaseGlobal, FreeOne, Close,
                          AtWork, Stages, Kinds
  <2>2. CASE Unlink(t) \/ FreeAll(t)
    BY <2>2, CtxKeeps, CtxBuffers DEF Unlink, FreeAll, AtWork, Stages, Kinds
  <2> QED BY <1>3, <2>1, <2>2 DEF FreeStep
<1> QED BY <1>1, <1>2, <1>3 DEF Next

-----------------------------------------------------------------------------
(***************************************************************************)
(* No resource is lost.                                                    *)
(***************************************************************************)

\* Who owns a buffer is inserting or freeing it, and a cookie is not 0.
OwnInv ==
    /\ \A t \in Threads : own[t] # 0 => pc[t] \in {"insert", "uncharge", "return", "teardown"}
    /\ \A t \in Threads : pc[t] \in {"insert", "teardown"} => own[t] # 0
    /\ \A f \in Files : \A b \in Buffers[f] : b.cookie # 0

LEMMA OwnInit == Init => OwnInv
BY DEF Init, OwnInv

LEMMA OwnNext == QInv /\ CInv /\ OwnInv /\ [Next]_vars => OwnInv'
<1> SUFFICES ASSUME QInv, CInv, OwnInv, [Next]_vars PROVE OwnInv'
  OBVIOUS
<1> USE FileOfType DEF ctxVars, Goto, QInv, TypeOK
<1>1. CASE UNCHANGED vars
  BY <1>1 DEF OwnInv, vars
<1>2. ASSUME NEW t \in Threads, AllocStep(t) PROVE OwnInv'
  <2>1. CASE AllocStart(t)
    BY <2>1 DEF AllocStart, MayEnter, OwnInv
  <2>2. CASE Claim(t) \/ Publish(t) \/ Spin(t)
    BY <2>2 DEF Claim, Publish, Spin, ToReserve, OwnInv
  <2>3. CASE FileCtxInit(t)
    <3>1. \A f \in Files : Buffers'[f] \subseteq Buffers[f]
      BY <2>3 DEF FileCtxInit
    <3> QED BY <2>3, <3>1 DEF FileCtxInit, OwnInv
  <2>4. CASE ReserveFile(t) \/ ReserveRead(t) \/ ReserveSwap(t) \/ ReserveRollback(t)
    BY <2>4 DEF ReserveFile, ReserveRead, ReserveSwap, ReserveRollback, Finish, OwnInv
  <2>5. CASE Acquire(t) \/ AcquireFails(t)
    BY <2>5 DEF Acquire, AcquireFails, After, Kinds, OwnInv
  <2>6. CASE AcquireNode(t)
    <3>1. nextCookie' # 0
      BY <2>6 DEF AcquireNode
    <3> QED BY <2>6, <3>1 DEF AcquireNode, OwnInv
  <2>7. CASE Insert(t)
    <3>1. own[t] # 0
      BY <2>7 DEF OwnInv, Insert
    <3>2. PICK b : b = [cookie |-> own[t], size |-> size[t]]
      OBVIOUS
    <3>3. \A f \in Files : \A c \in Buffers'[f] : c \in Buffers[f] \/ c = b
      BY <2>7, <3>2 DEF Insert
    <3>4. \A f \in Files : \A c \in Buffers'[f] : c.cookie # 0
      BY <3>1, <3>2, <3>3 DEF OwnInv
    <3> QED BY <2>7, <3>4 DEF Insert, Finish, OwnInv
  <2> QED BY <1>2, <2>1, <2>2, <2>3, <2>4, <2>5, <2>6, <2>7 DEF AllocStep
<1>3. ASSUME NEW t \in Threads, FreeStep(t) PROVE OwnInv'
  <2>1. CASE FreeStart(t) \/ Close(t)
    BY <2>1 DEF FreeStart, Close, MayEnter, OwnInv
  <2>2. CASE ReleaseFile(t) \/ ReleaseGlobal(t) \/ FreeOne(t)
    BY <2>2 DEF ReleaseFile, ReleaseGlobal, FreeOne, OwnInv
  <2>3. ASSUME NEW b \in Buffers[FileOf[t]], Take(t, b) PROVE OwnInv'
    <3>1. /\ \A f \in Files : Buffers'[f] \subseteq Buffers[f]
          /\ b.cookie # 0 /\ own' = [own EXCEPT ![t] = b.cookie]
          /\ pc' = [pc EXCEPT ![t] = "uncharge"]
      BY <2>3 DEF Take, OwnInv
    <3> QED BY <3>1 DEF OwnInv
  <2>4. CASE Unlink(t)
    BY <2>3, <2>4 DEF Unlink, OwnInv
  <2>5. CASE FreeAll(t)
    BY <2>3, <2>5 DEF FreeAll, OwnInv
  <2> QED BY <1>3, <2>1, <2>2, <2>4, <2>5 DEF FreeStep
<1> QED BY <1>1, <1>2, <1>3 DEF Next

\* The books of resource k, and that they are finite.
Booked(k) ==
    /\ IsFiniteSet(Listed) /\ IsFiniteSet(Holders(k))
    /\ live[k] = Cardinality(Listed) + Cardinality(Holders(k))

RInv == \A k \in Kinds : Booked(k)

LEMMA RInit == Init => RInv
<1> SUFFICES ASSUME Init, NEW k \in Kinds PROVE Booked(k)
  BY DEF RInv
<1>1. Listed = {} /\ Holders(k) = {} /\ live[k] = 0
  BY DEF Init, Listed, Holders
<1> QED BY <1>1, FS_EmptySet DEF Booked

\* The four ways a step changes the books of a kind.
LEMMA BookedSame ==
    ASSUME NEW k \in Kinds, Booked(k), Listed' = Listed, Holders(k)' = Holders(k),
           live'[k] = live[k]
    PROVE  Booked(k)'
BY DEF Booked

LEMMA BookedGain ==
    ASSUME NEW k \in Kinds, Booked(k), NEW t, t \notin Holders(k), Listed' = Listed,
           Holders(k)' = Holders(k) \cup {t}, live'[k] = live[k] + 1
    PROVE  Booked(k)'
<1>1. /\ IsFiniteSet(Holders(k)) /\ Cardinality(Holders(k)) \in Nat
      /\ IsFiniteSet(Listed) /\ Cardinality(Listed) \in Nat
  BY FS_CardinalityType DEF Booked
<1>2. IsFiniteSet(Holders(k)') /\ Cardinality(Holders(k)') = Cardinality(Holders(k)) + 1
  BY <1>1, FS_AddElement
<1> QED BY <1>1, <1>2 DEF Booked

LEMMA BookedLoss ==
    ASSUME NEW k \in Kinds, Booked(k), NEW t, t \in Holders(k), Listed' = Listed,
           Holders(k)' = Holders(k) \ {t}, live'[k] = live[k] - 1
    PROVE  Booked(k)'
<1>1. /\ IsFiniteSet(Holders(k)) /\ Cardinality(Holders(k)) \in Nat
      /\ IsFiniteSet(Listed) /\ Cardinality(Listed) \in Nat
  BY FS_CardinalityType DEF Booked
<1>2. IsFiniteSet(Holders(k)') /\ Cardinality(Holders(k)') = Cardinality(Holders(k)) - 1
  BY <1>1, FS_RemoveElement
<1> QED BY <1>1, <1>2 DEF Booked

LEMMA BookedMove ==
    ASSUME NEW k \in Kinds, Booked(k), NEW t, NEW b, live'[k] = live[k],
           \/ /\ t \in Holders(k) /\ Holders(k)' = Holders(k) \ {t}
              /\ b \notin Listed /\ Listed' = Listed \cup {b}
           \/ /\ t \notin Holders(k) /\ Holders(k)' = Holders(k) \cup {t}
              /\ b \in Listed /\ Listed' = Listed \ {b}
    PROVE  Booked(k)'
<1>1. /\ IsFiniteSet(Holders(k)) /\ Cardinality(Holders(k)) \in Nat
      /\ IsFiniteSet(Listed) /\ Cardinality(Listed) \in Nat
  BY FS_CardinalityType DEF Booked
<1>2. CASE t \in Holders(k) /\ b \notin Listed
  <2>1. Holders(k)' = Holders(k) \ {t} /\ Listed' = Listed \cup {b}
    BY <1>2
  <2>2. /\ IsFiniteSet(Holders(k)') /\ Cardinality(Holders(k)') = Cardinality(Holders(k)) - 1
        /\ IsFiniteSet(Listed') /\ Cardinality(Listed') = Cardinality(Listed) + 1
    BY <1>1, <1>2, <2>1, FS_AddElement, FS_RemoveElement
  <2> QED BY <1>1, <2>2 DEF Booked
<1>3. CASE t \notin Holders(k) /\ b \in Listed
  <2>1. Holders(k)' = Holders(k) \cup {t} /\ Listed' = Listed \ {b}
    BY <1>3
  <2>2. /\ IsFiniteSet(Holders(k)') /\ Cardinality(Holders(k)') = Cardinality(Holders(k)) + 1
        /\ IsFiniteSet(Listed') /\ Cardinality(Listed') = Cardinality(Listed) - 1
    BY <1>1, <1>3, <2>1, FS_AddElement, FS_RemoveElement
  <2> QED BY <1>1, <2>2 DEF Booked
<1> QED BY <1>2, <1>3

\* Whether thread t holds a resource of kind k for a buffer off the lists, and
\* what that is at point l with cookie c.
InHand(t, k)  == t \in Holders(k)
HoldsAt(l, c, k) == \/ c # 0
                    \/ l = "node"
                    \/ l = "va" /\ k # "va"
                    \/ l = "iova" /\ k \in {"mem", "mdl"}
                    \/ l = "mdl" /\ k = "mem"

\* A step of thread t changes no other thread's hold.
LEMMA HoldersStep ==
    ASSUME QInv, NEW t \in Threads, NEW l, Goto(t, l), NEW c, own' = [own EXCEPT ![t] = c],
           NEW k \in Kinds
    PROVE  /\ InHand(t, k)' => Holders(k)' = Holders(k) \cup {t}
           /\ ~InHand(t, k)' => Holders(k)' = Holders(k) \ {t}
           /\ InHand(t, k)' <=> HoldsAt(l, c, k)
<1>1. /\ pc'[t] = l /\ own'[t] = c
      /\ \A u \in Threads \ {t} : pc'[u] = pc[u] /\ own'[u] = own[u]
  BY DEF QInv, TypeOK, Goto
<1>2. \A u \in Threads \ {t} : InHand(u, k)' <=> InHand(u, k)
  BY <1>1 DEF InHand, Holders
<1>3. Holders(k) \subseteq Threads /\ Holders(k)' \subseteq Threads
  BY DEF Holders
<1>4. InHand(t, k)' <=> HoldsAt(l, c, k)
  BY <1>1 DEF InHand, Holders, HoldsAt
<1> QED BY <1>2, <1>3, <1>4 DEF InHand

LEMMA InHandNow ==
    ASSUME NEW t \in Threads, NEW k \in Kinds
    PROVE  InHand(t, k) <=> HoldsAt(pc[t], own[t], k)
BY DEF InHand, Holders, HoldsAt

\* Steps that move a thread between places where it holds the same.
LEMMA RKeeps ==
    ASSUME QInv, OwnInv, RInv, NEW t \in Threads, NEW l, Goto(t, l), UNCHANGED <<live, own>>,
           Listed' = Listed, l \notin Stages \ {"mem"}, pc[t] \notin Stages \ {"mem"}
    PROVE  RInv'
<1> SUFFICES ASSUME NEW k \in Kinds PROVE Booked(k)'
  BY DEF RInv
<1>1. own' = [own EXCEPT ![t] = own[t]]
  BY DEF QInv, TypeOK
<1>2. InHand(t, k)' <=> InHand(t, k)
  <2>1. InHand(t, k)' <=> HoldsAt(l, own[t], k)
    BY <1>1, HoldersStep
  <2>2. InHand(t, k) <=> HoldsAt(pc[t], own[t], k)
    BY InHandNow
  <2> QED BY <2>1, <2>2 DEF HoldsAt, Stages, Kinds
<1>3. Holders(k)' = Holders(k)
  <2>1. InHand(t, k)' => Holders(k)' = Holders(k) \cup {t}
    BY <1>1, HoldersStep
  <2>2. ~InHand(t, k)' => Holders(k)' = Holders(k) \ {t}
    BY <1>1, HoldersStep
  <2> QED BY <1>2, <2>1, <2>2 DEF InHand
<1> QED BY <1>3, BookedSame DEF RInv

LEMMA RAcquire ==
    ASSUME QInv, OwnInv, RInv, NEW t \in Threads, Acquire(t)
    PROVE  RInv'
<1> SUFFICES ASSUME NEW k \in Kinds PROVE Booked(k)'
  BY DEF RInv
<1>0. /\ own' = [own EXCEPT ![t] = 0] /\ own[t] = 0 /\ Listed' = Listed
      /\ pc[t] \in Kinds /\ Goto(t, After[pc[t]])
      /\ live'[k] = IF k = pc[t] THEN live[k] + 1 ELSE live[k]
  BY DEF Acquire, OwnInv, QInv, TypeOK, ctxVars, Kinds, Listed
<1>1. InHand(t, k)' <=> InHand(t, k) \/ k = pc[t]
  <2>1. InHand(t, k)' <=> HoldsAt(After[pc[t]], 0, k)
    BY <1>0, HoldersStep
  <2>2. InHand(t, k) <=> HoldsAt(pc[t], 0, k)
    BY <1>0, InHandNow
  <2> QED BY <1>0, <2>1, <2>2 DEF HoldsAt, Kinds, After
<1>2. k = pc[t] => ~InHand(t, k)
  BY <1>0, InHandNow DEF HoldsAt, Kinds
<1>3. /\ InHand(t, k)' => Holders(k)' = Holders(k) \cup {t}
      /\ ~InHand(t, k)' => Holders(k)' = Holders(k) \ {t}
  BY <1>0, HoldersStep
<1>4. CASE k = pc[t]
  BY <1>0, <1>1, <1>2, <1>3, <1>4, BookedGain DEF RInv, InHand
<1>5. CASE k # pc[t]
  <2>1. Holders(k)' = Holders(k)
    BY <1>1, <1>3, <1>5 DEF InHand
  <2> QED BY <1>0, <1>5, <2>1, BookedSame DEF RInv
<1> QED BY <1>4, <1>5

\* The error paths give back what the thread holds and nothing else.
LEMMA RFails ==
    ASSUME QInv, OwnInv, RInv, NEW t \in Threads, Goto(t, "uncharge"), own' = own,
           pc[t] \in Stages, Release(Undo(pc[t])), Listed' = Listed
    PROVE  RInv'
<1> SUFFICES ASSUME NEW k \in Kinds PROVE Booked(k)'
  BY DEF RInv
<1>0. own' = [own EXCEPT ![t] = 0] /\ own[t] = 0
  BY DEF OwnInv, QInv, TypeOK, Stages, Kinds
<1>1. ~InHand(t, k)' /\ (InHand(t, k) <=> k \in Undo(pc[t]))
  <2>1. InHand(t, k)' <=> HoldsAt("uncharge", 0, k)
    BY <1>0, HoldersStep
  <2>2. InHand(t, k) <=> HoldsAt(pc[t], 0, k)
    BY <1>0, InHandNow
  <2> QED BY <2>1, <2>2 DEF HoldsAt, Kinds, Stages, Undo
<1>2. Holders(k)' = Holders(k) \ {t}
  BY <1>0, <1>1, HoldersStep
<1>3. live'[k] = IF k \in Undo(pc[t]) THEN live[k] - 1 ELSE live[k]
  BY DEF Release
<1>4. CASE InHand(t, k)
  BY <1>1, <1>2, <1>3, <1>4, BookedLoss DEF RInv, InHand
<1>5. CASE ~InHand(t, k)
  <2>1. Holders(k)' = Holders(k)
    BY <1>2, <1>5 DEF InHand
  <2> QED BY <1>1, <1>3, <1>5, <2>1, BookedSame DEF RInv
<1> QED BY <1>4, <1>5

LEMMA RNode ==
    ASSUME QInv, OwnInv, RInv, NEW t \in Threads, AcquireNode(t)
    PROVE  RInv'
<1>0. pc[t] = "node" /\ Listed' = Listed /\ nextCookie' # 0
  BY DEF AcquireNode, ctxVars, Listed, QInv, TypeOK
<1>1. CASE own' = own
  <2>1. Goto(t, "uncharge") /\ Release(Undo(pc[t]))
    <3>1. own[t] = 0
      BY <1>0 DEF OwnInv
    <3>2. own' # [own EXCEPT ![t] = nextCookie']
      BY <1>0, <1>1, <3>1 DEF QInv, TypeOK
    <3> QED BY <1>0, <3>2 DEF AcquireNode
  <2> QED BY <1>0, <1>1, <2>1, RFails DEF Stages
<1>2. CASE own' = [own EXCEPT ![t] = nextCookie'] /\ Goto(t, "insert") /\ UNCHANGED live
  <2> SUFFICES ASSUME NEW k \in Kinds PROVE Booked(k)'
    BY DEF RInv
  <2>1. InHand(t, k) /\ InHand(t, k)'
    <3>1. InHand(t, k)' <=> HoldsAt("insert", nextCookie', k)
    BY <1>2, HoldersStep
  <3>2. InHand(t, k) <=> HoldsAt("node", own[t], k)
    BY <1>0, InHandNow
  <3> QED BY <1>0, <3>1, <3>2 DEF HoldsAt
  <2>2. Holders(k)' = Holders(k) \cup {t}
    BY <1>2, <2>1, HoldersStep
  <2>3. Holders(k)' = Holders(k)
    BY <2>1, <2>2 DEF InHand
  <2> QED BY <1>0, <1>2, <2>3, BookedSame DEF RInv
<1> QED BY <1>1, <1>2 DEF AcquireNode

LEMMA RInsert ==
    ASSUME QInv, CInv, OwnInv, RInv, NEW t \in Threads, Insert(t)
    PROVE  RInv'
<1> SUFFICES ASSUME NEW k \in Kinds PROVE Booked(k)'
  BY DEF RInv
<1>0. PICK b : b = [cookie |-> own[t], size |-> size[t]]
  OBVIOUS
<1>1. /\ own[t] # 0 /\ own' = [own EXCEPT ![t] = 0] /\ Goto(t, "idle") /\ live'[k] = live[k]
      /\ b.cookie = own[t] /\ FileOf[t] \in Files
      /\ Buffers' = [Buffers EXCEPT ![FileOf[t]] = @ \cup {b}]
  BY <1>0, FileOfType DEF Insert, Finish, OwnInv
<1>2. b \notin Listed
  BY <1>1 DEF CInv, OwnersDiffer, Listed
<1>3. Listed' = Listed \cup {b}
  BY <1>1 DEF Listed, QInv, TypeOK
<1>4. InHand(t, k) /\ ~InHand(t, k)'
  <2>1. InHand(t, k)' <=> HoldsAt("idle", 0, k)
    BY <1>1, HoldersStep
  <2> QED BY <1>1, <2>1, InHandNow DEF HoldsAt
<1>5. Holders(k)' = Holders(k) \ {t}
  BY <1>1, <1>4, HoldersStep
<1> QED BY <1>1, <1>2, <1>3, <1>4, <1>5, BookedMove DEF RInv, InHand

LEMMA RTake ==
    ASSUME QInv, CInv, OwnInv, RInv, NEW t \in Threads, pc[t] \in {"unlink", "drain"},
           NEW b \in Buffers[FileOf[t]], Take(t, b), live' = live
    PROVE  RInv'
<1> SUFFICES ASSUME NEW k \in Kinds PROVE Booked(k)'
  BY DEF RInv
<1>1. /\ b.cookie # 0 /\ own' = [own EXCEPT ![t] = b.cookie] /\ Goto(t, "uncharge")
      /\ own[t] = 0 /\ FileOf[t] \in Files
      /\ Buffers' = [Buffers EXCEPT ![FileOf[t]] = @ \ {b}]
  BY FileOfType DEF Take, OwnInv
<1>2. b \in Listed
  BY <1>1 DEF Listed
<1>3. \A g \in Files : g # FileOf[t] => b \notin Buffers[g]
  BY <1>1 DEF CInv, CookiesDiffer
<1>4. \A g \in Files : Buffers'[g] = Buffers[g] \ {b}
  BY <1>1, <1>3 DEF QInv, TypeOK
<1>5. Listed' = Listed \ {b}
  BY <1>4 DEF Listed
<1>6. ~InHand(t, k) /\ InHand(t, k)'
  <2>1. InHand(t, k)' <=> HoldsAt("uncharge", b.cookie, k)
    BY <1>1, HoldersStep
  <2> QED BY <1>1, <2>1, InHandNow DEF HoldsAt
<1>7. Holders(k)' = Holders(k) \cup {t}
  BY <1>1, <1>6, HoldersStep
<1> QED BY <1>2, <1>5, <1>6, <1>7, BookedMove DEF RInv, InHand

LEMMA RFreeOne ==
    ASSUME QInv, OwnInv, RInv, NEW t \in Threads, FreeOne(t)
    PROVE  RInv'
<1> SUFFICES ASSUME NEW k \in Kinds PROVE Booked(k)'
  BY DEF RInv
<1>1. PICK l \in {"drain", "idle"} : Goto(t, l)
  BY DEF FreeOne
<1>2. /\ own[t] # 0 /\ own' = [own EXCEPT ![t] = 0] /\ live'[k] = live[k] - 1
      /\ Listed' = Listed
  BY DEF FreeOne, Release, OwnInv, ctxVars, Listed
<1>3. InHand(t, k) /\ ~InHand(t, k)'
  <2>1. InHand(t, k)' <=> HoldsAt(l, 0, k)
    BY <1>1, <1>2, HoldersStep
  <2> QED BY <1>1, <1>2, <2>1, InHandNow DEF HoldsAt
<1>4. Holders(k)' = Holders(k) \ {t}
  BY <1>1, <1>2, <1>3, HoldersStep
<1> QED BY <1>2, <1>3, <1>4, BookedLoss DEF RInv, InHand

LEMMA RNext == QInv /\ CInv /\ CtxInv /\ OwnInv /\ RInv /\ [Next]_vars => RInv'
<1> SUFFICES ASSUME QInv, CInv, CtxInv, OwnInv, RInv, [Next]_vars PROVE RInv'
  OBVIOUS
<1> USE DEF ctxVars
<1>1. CASE UNCHANGED vars
  BY <1>1 DEF RInv, Booked, Listed, Holders, vars
<1>2. ASSUME NEW t \in Threads, AllocStep(t) PROVE RInv'
  <2>1. CASE AllocStart(t) \/ Claim(t) \/ Publish(t) \/ Spin(t)
    BY <2>1, RKeeps
    DEF AllocStart, MayEnter, Claim, Publish, Spin, ToReserve, Listed, Stages, Kinds
  <2>2. CASE FileCtxInit(t)
    <3>1. Device[FileOf[t]] = "sentinel" /\ FileOf[t] \in Files
      BY <2>2, FileOfType DEF FileCtxInit, CtxInv
    <3>2. Buffers' = Buffers
      BY <2>2, <3>1 DEF FileCtxInit, CtxInv, QInv, TypeOK
    <3> QED BY <2>2, <3>2, RKeeps DEF FileCtxInit, Listed, Stages, Kinds
  <2>3. CASE ReserveFile(t) \/ ReserveRead(t) \/ ReserveSwap(t) \/ ReserveRollback(t)
    BY <2>3, RKeeps
    DEF ReserveFile, ReserveRead, ReserveSwap, ReserveRollback, Finish, Listed, Stages, Kinds
  <2>4. CASE AcquireFails(t)
    BY <2>4, RFails DEF AcquireFails, Listed, Stages
  <2> QED BY <1>2, <2>1, <2>2, <2>3, <2>4, RAcquire, RNode, RInsert DEF AllocStep
<1>3. ASSUME NEW t \in Threads, FreeStep(t) PROVE RInv'
  <2>1. CASE FreeStart(t) \/ Close(t) \/ ReleaseFile(t) \/ ReleaseGlobal(t)
    BY <2>1, RKeeps
    DEF FreeStart, MayEnter, Close, ReleaseFile, ReleaseGlobal, Listed, Stages, Kinds
  <2>2. CASE Unlink(t)
    BY <2>2, RKeeps, RTake DEF Unlink, Listed, Stages, Kinds
  <2>3. CASE FreeAll(t)
    BY <2>3, RKeeps, RTake DEF FreeAll, Listed, Stages, Kinds
  <2> QED BY <1>3, <2>1, <2>2, <2>3, RFreeOne DEF FreeStep
<1> QED BY <1>1, <1>2, <1>3 DEF Next

\* Every allocation, MDL, IOMMU and user mapping belongs to a listed buffer or
\* to the request that is making or freeing it (NoResourceLost), on every error
\* path and for every number of threads, as long as no request begins while
\* its file's context is being initialised: FileCtxInit would empty the list
\* of a request that did not wait for it.
THEOREM ResourcesAccounted == Apart => (Spec => []NoResourceLost)
<1> SUFFICES ASSUME Apart PROVE Spec => []NoResourceLost
  OBVIOUS
<1>1. RInv => NoResourceLost
  BY DEF RInv, Booked, NoResourceLost
<1>2. Init => QInv /\ CInv /\ CtxInv /\ OwnInv /\ RInv
  BY QInit, CInit, CtxInit, OwnInit, RInit
<1>3. QInv /\ CInv /\ CtxInv /\ OwnInv /\ RInv /\ [Next]_vars
        => (QInv /\ CInv /\ CtxInv /\ OwnInv /\ RInv)'
  BY QNext, CNext, CtxNext, OwnNext, RNext
<1> QED BY <1>1, <1>2, <1>3, PTL DEF Spec

-----------------------------------------------------------------------------
(***************************************************************************)
(* Sums over finite sets.  SumFunctionOnSet takes the elements in an order *)
(* nobody knows; least counterexamples stand in for induction.             *)
(***************************************************************************)

\* A nonempty set of naturals has a least element.
LEMMA LeastNat ==
    ASSUME NEW S \in SUBSET Nat, S # {}
    PROVE  \E x \in S : \A y \in S : x <= y
<1>1. PICK x \in S : \A y \in S : ~ (<<y, x>> \in OpToRel(<, Nat))
  BY NatLessThanWellFounded, WFMin
<1>2. \A y \in S : ~ (y < x)
  BY <1>1 DEF OpToRel
<1> QED BY <1>2

\* One step of the fold, and the functions that are closed under it.
AnyOf(s)         == CHOOSE x \in s : TRUE
SumStep(w, g, s) == IF s = {} THEN 0 ELSE w[AnyOf(s)] + g[s \ {AnyOf(s)}]
IsFold(w, g, D)  == g = [s \in D |-> SumStep(w, g, s)]
Upto(S, n)       == {s \in SUBSET S : Cardinality(s) <= n}

LEMMA AnyOfIn == ASSUME NEW s, s # {} PROVE AnyOf(s) \in s
BY DEF AnyOf

\* Taking an element from a finite set.
LEMMA Smaller ==
    ASSUME NEW S, IsFiniteSet(S), NEW x \in S
    PROVE  /\ IsFiniteSet(S \ {x}) /\ Cardinality(S) \in Nat /\ Cardinality(S \ {x}) \in Nat
           /\ Cardinality(S \ {x}) = Cardinality(S) - 1
<1>1. IsFiniteSet(S \ {x}) /\ Cardinality(S \ {x}) = Cardinality(S) - 1
  BY FS_RemoveElement
<1> QED BY <1>1, FS_CardinalityType

LEMMA FoldExists ==
    ASSUME NEW w, NEW S, IsFiniteSet(S)
    PROVE  \E g : IsFold(w, g, SUBSET S)
<1> DEFINE P(n) == \E g : IsFold(w, g, Upto(S, n))
           Bad  == {n \in Nat : ~ P(n)}
<1>f. \A s \in SUBSET S : IsFiniteSet(s) /\ Cardinality(s) \in Nat
                           /\ Cardinality(s) <= Cardinality(S)
  BY FS_Subset, FS_CardinalityType
<1>1. \A n \in Nat : P(n)
  <2> SUFFICES ASSUME Bad # {} PROVE FALSE
    OBVIOUS
  <2>1. PICK n \in Bad : \A m \in Bad : n <= m
    BY LeastNat
  <2>2. CASE n = 0
    <3> DEFINE g == [s \in Upto(S, 0) |-> 0]
    <3>1. \A s \in Upto(S, 0) : s = {}
      BY <1>f, FS_EmptySet DEF Upto
    <3>2. \A s \in Upto(S, 0) : g[s] = SumStep(w, g, s)
      BY <3>1 DEF SumStep
    <3>3. IsFold(w, g, Upto(S, 0))
      BY <3>2 DEF IsFold
    <3> QED BY <2>1, <2>2, <3>3
  <2>3. CASE n # 0
    <3>1. n \in Nat /\ n - 1 \in Nat /\ n - 1 \notin Bad
      BY <2>1, <2>3
    <3>2. PICK h : IsFold(w, h, Upto(S, n - 1))
      BY <3>1
    <3> DEFINE g == [s \in Upto(S, n) |-> IF Cardinality(s) = n THEN SumStep(w, h, s) ELSE h[s]]
    <3>3. \A s \in Upto(S, n) : s # {} => s \ {AnyOf(s)} \in Upto(S, n - 1)
      BY <1>f, <3>1, AnyOfIn, Smaller DEF Upto
    <3>4. \A s \in Upto(S, n - 1) : s \in Upto(S, n) /\ g[s] = h[s]
      BY <1>f, <3>1 DEF Upto
    <3>5. ASSUME NEW s \in Upto(S, n) PROVE g[s] = SumStep(w, g, s)
      <4>1. SumStep(w, g, s) = SumStep(w, h, s)
        BY <3>3, <3>4 DEF SumStep
      <4>2. Cardinality(s) # n => s \in Upto(S, n - 1)
        BY <1>f, <3>1 DEF Upto
      <4>3. Cardinality(s) # n => h[s] = SumStep(w, h, s)
        BY <3>2, <4>2 DEF IsFold
      <4> QED BY <4>1, <4>3
    <3>6. IsFold(w, g, Upto(S, n))
      BY <3>5 DEF IsFold
    <3> QED BY <2>1, <3>6
  <2> QED BY <2>2, <2>3
<1>2. Cardinality(S) \in Nat
  BY FS_CardinalityType
<1>3. Upto(S, Cardinality(S)) = SUBSET S
  BY <1>f DEF Upto
<1>4. P(Cardinality(S))
  BY <1>1, <1>2
<1> QED BY <1>3, <1>4

\* Two folds agree where both are defined.
LEMMA FoldAgrees ==
    ASSUME NEW w, NEW S, IsFiniteSet(S), NEW T \in SUBSET S
    PROVE  \A g, h : IsFold(w, g, SUBSET S) /\ IsFold(w, h, SUBSET T) => g[T] = h[T]
<1> SUFFICES ASSUME NEW g, IsFold(w, g, SUBSET S), NEW h, IsFold(w, h, SUBSET T)
             PROVE  g[T] = h[T]
  OBVIOUS
<1> DEFINE Bad == {n \in Nat : \E s \in SUBSET T : Cardinality(s) = n /\ g[s] # h[s]}
<1>f. \A s \in SUBSET T : IsFiniteSet(s) /\ Cardinality(s) \in Nat
  BY FS_Subset, FS_CardinalityType
<1> SUFFICES ASSUME g[T] # h[T] PROVE FALSE
  OBVIOUS
<1>1. Cardinality(T) \in Bad
  BY <1>f
<1>2. PICK n \in Bad : \A m \in Bad : n <= m
  BY <1>1, LeastNat
<1>3. PICK s \in SUBSET T : Cardinality(s) = n /\ g[s] # h[s]
  BY <1>2
<1>4. g[s] = SumStep(w, g, s) /\ h[s] = SumStep(w, h, s)
  BY DEF IsFold
<1>5. s # {}
  BY <1>3, <1>4 DEF SumStep
<1>6. PICK r : r = s \ {AnyOf(s)}
  OBVIOUS
<1>7. r \in SUBSET T /\ Cardinality(r) \in Nat /\ Cardinality(r) = n - 1 /\ n \in Nat
  BY <1>f, <1>3, <1>5, <1>6, AnyOfIn, Smaller
<1>8. g[r] # h[r]
  BY <1>3, <1>4, <1>5, <1>6 DEF SumStep
<1>9. n - 1 \in Bad
  BY <1>7, <1>8
<1> QED BY <1>2, <1>7, <1>9

Sum(w, S) == SumFunctionOnSet(w, S)

\* The sum is a fold's value at the whole set.
LEMMA SumFolds ==
    ASSUME NEW w, NEW S, IsFiniteSet(S)
    PROVE  \E g : IsFold(w, g, SUBSET S) /\ Sum(w, S) = g[S]
<1> DEFINE F == CHOOSE g : g = [s \in SUBSET S |-> SumStep(w, g, s)]
<1>1. F = [s \in SUBSET S |-> SumStep(w, F, s)]
  <2>1. \E g : g = [s \in SUBSET S |-> SumStep(w, g, s)]
    BY FoldExists DEF IsFold
  <2> QED BY <2>1
<1>2. Sum(w, S) = F[S]
  BY DEF Sum, SumFunctionOnSet, FoldFunctionOnSet, MapThenFoldSet, SumStep, AnyOf
<1> QED BY <1>1, <1>2 DEF IsFold

LEMMA SumUnfolds ==
    ASSUME NEW w, NEW S, IsFiniteSet(S)
    PROVE  Sum(w, S) = IF S = {} THEN 0 ELSE w[AnyOf(S)] + Sum(w, S \ {AnyOf(S)})
<1>1. PICK g : IsFold(w, g, SUBSET S) /\ Sum(w, S) = g[S]
  BY SumFolds
<1>2. g[S] = SumStep(w, g, S)
  BY <1>1 DEF IsFold
<1>3. CASE S = {}
  BY <1>1, <1>2, <1>3 DEF SumStep
<1>4. CASE S # {}
  <2>1. PICK T : T = S \ {AnyOf(S)}
    OBVIOUS
  <2>2. IsFiniteSet(T) /\ T \in SUBSET S
    BY <1>4, <2>1, AnyOfIn, Smaller
  <2>3. PICK h : IsFold(w, h, SUBSET T) /\ Sum(w, T) = h[T]
    BY <2>2, SumFolds
  <2>4. g[T] = h[T]
    <3>1. \A e, f : IsFold(w, e, SUBSET S) /\ IsFold(w, f, SUBSET T) => e[T] = f[T]
      BY <2>2, FoldAgrees
    <3> QED BY <1>1, <2>3, <3>1
  <2> QED BY <1>1, <1>2, <1>4, <2>1, <2>3, <2>4 DEF SumStep
<1> QED BY <1>3, <1>4

NatOn(w, S) == \A x \in S : w[x] \in Nat

\* The sum of naturals is natural, and does not depend on the order.
LEMMA SumTakes ==
    ASSUME NEW w, NEW S, IsFiniteSet(S), NatOn(w, S)
    PROVE  /\ Sum(w, S) \in Nat
           /\ \A x \in S : Sum(w, S) = w[x] + Sum(w, S \ {x})
<1> DEFINE P(T) == Sum(w, T) \in Nat /\ \A x \in T : Sum(w, T) = w[x] + Sum(w, T \ {x})
           Bad  == {n \in Nat : \E T \in SUBSET S : Cardinality(T) = n /\ ~P(T)}
<1>f. \A T \in SUBSET S : IsFiniteSet(T) /\ Cardinality(T) \in Nat /\ NatOn(w, T)
  BY FS_Subset, FS_CardinalityType DEF NatOn
<1> SUFFICES ASSUME ~P(S) PROVE FALSE
  OBVIOUS
<1>1. Cardinality(S) \in Bad
  BY <1>f
<1>2. PICK n \in Bad : \A m \in Bad : n <= m
  BY <1>1, LeastNat
<1>3. PICK T \in SUBSET S : Cardinality(T) = n /\ ~P(T)
  BY <1>2
<1>4. \A x \in T : P(T \ {x})
  <2> SUFFICES ASSUME NEW x \in T, ~P(T \ {x}) PROVE FALSE
    OBVIOUS
  <2>1. /\ Cardinality(T \ {x}) = n - 1 /\ Cardinality(T \ {x}) \in Nat /\ n \in Nat
        /\ T \ {x} \in SUBSET S
    BY <1>f, <1>3, Smaller
  <2>2. n - 1 \in Bad
    BY <2>1
  <2> QED BY <1>2, <2>1, <2>2
<1>5. IsFiniteSet(T) /\ \A x \in T : w[x] \in Nat /\ IsFiniteSet(T \ {x})
  BY <1>f, Smaller DEF NatOn
<1>6. CASE T = {}
  <2>1. Sum(w, T) = 0
    BY <1>5, <1>6, SumUnfolds
  <2> QED BY <1>3, <1>6, <2>1
<1>7. CASE T # {}
  <2>1. PICK y \in T : Sum(w, T) = w[y] + Sum(w, T \ {y})
    BY <1>5, <1>7, SumUnfolds, AnyOfIn
  <2>2. Sum(w, T) \in Nat
    BY <1>4, <1>5, <2>1
  <2>3. ASSUME NEW x \in T PROVE Sum(w, T) = w[x] + Sum(w, T \ {x})
    <3>1. CASE x = y
      BY <2>1, <3>1
    <3>2. CASE x # y
      <4>1. PICK R : R = (T \ {x}) \ {y} /\ R = (T \ {y}) \ {x}
        OBVIOUS
      <4>2. Sum(w, T \ {y}) = w[x] + Sum(w, R)
        BY <1>4, <3>2, <4>1
      <4>3. Sum(w, T \ {x}) = w[y] + Sum(w, R)
        BY <1>4, <3>2, <4>1
      <4>4. P(T \ {x})
        BY <1>4
      <4>5. Sum(w, R) \in Nat
        <5>1. y \in T \ {x} /\ T \ {x} \in SUBSET S
          BY <3>2
        <5>2. Sum(w, T \ {x}) \in Nat
          BY <4>4
        <5>3. R \in SUBSET S /\ Cardinality(R) \in Nat /\ Cardinality(R) = n - 2 /\ n \in Nat
          <6>1. /\ IsFiniteSet(T \ {x}) /\ Cardinality(T \ {x}) = n - 1 /\ n \in Nat
            BY <1>f, <1>3, Smaller
          <6>2. Cardinality(R) = Cardinality(T \ {x}) - 1 /\ Cardinality(R) \in Nat
            BY <4>1, <5>1, <6>1, Smaller
          <6> QED BY <4>1, <6>1, <6>2
        <5>4. ~P(R) => n - 2 \in Bad
          BY <5>3
        <5> QED BY <1>2, <5>3, <5>4
      <4>6. w[x] \in Nat /\ w[y] \in Nat
        BY <1>5
      <4> QED BY <2>1, <4>2, <4>3, <4>5, <4>6
    <3> QED BY <3>1, <3>2
  <2>4. P(T)
    BY <2>2, <2>3
  <2> QED BY <1>3, <2>4
<1> QED BY <1>6, <1>7

\* Only the weights of the elements matter.
LEMMA SumSame ==
    ASSUME NEW w, NEW v, NEW S, IsFiniteSet(S), \A x \in S : w[x] = v[x]
    PROVE  Sum(w, S) = Sum(v, S)
<1> DEFINE P(T) == Sum(w, T) = Sum(v, T)
           Bad  == {n \in Nat : \E T \in SUBSET S : Cardinality(T) = n /\ ~P(T)}
<1>f. \A T \in SUBSET S : IsFiniteSet(T) /\ Cardinality(T) \in Nat
  BY FS_Subset, FS_CardinalityType
<1> SUFFICES ASSUME ~P(S) PROVE FALSE
  OBVIOUS
<1>1. Cardinality(S) \in Bad
  BY <1>f
<1>2. PICK n \in Bad : \A m \in Bad : n <= m
  BY <1>1, LeastNat
<1>3. PICK T \in SUBSET S : Cardinality(T) = n /\ ~P(T)
  BY <1>2
<1>4. T # {}
  BY <1>f, <1>3, SumUnfolds
<1>5. PICK x : x = AnyOf(T) /\ x \in T
  BY <1>4, AnyOfIn
<1>6. /\ Cardinality(T \ {x}) = n - 1 /\ Cardinality(T \ {x}) \in Nat /\ n \in Nat
      /\ T \ {x} \in SUBSET S
  BY <1>f, <1>3, <1>5, Smaller
<1>7. P(T \ {x})
  <2>1. ~P(T \ {x}) => n - 1 \in Bad
    BY <1>6
  <2> QED BY <1>2, <1>6, <2>1
<1>8. P(T)
  <2>1. Sum(w, T) = w[x] + Sum(w, T \ {x})
    BY <1>f, <1>4, <1>5, SumUnfolds
  <2>2. Sum(v, T) = v[x] + Sum(v, T \ {x})
    BY <1>f, <1>4, <1>5, SumUnfolds
  <2>3. w[x] = v[x]
    BY <1>5
  <2> QED BY <1>7, <2>1, <2>2, <2>3
<1> QED BY <1>3, <1>8

\* What x adds to a sum over S if its weight is n.
Due(x, S, n) == IF x \in S THEN n ELSE 0

\* Sets C and D with weights w and v that differ in element t only.
DifferIn(t, C, w, D, v) ==
    /\ IsFiniteSet(C) /\ D \ {t} = C \ {t} /\ NatOn(w, C) /\ NatOn(v, D)
    /\ \A x \in C \ {t} : w[x] = v[x]

Balanced(t, C, w, D, v) ==
    /\ IsFiniteSet(D) /\ Sum(w, C) \in Nat /\ Sum(v, D) \in Nat
    /\ Cardinality(C) \in Nat /\ Cardinality(D) \in Nat
    /\ Sum(v, D) - Due(t, D, v[t]) = Sum(w, C) - Due(t, C, w[t])
    /\ Cardinality(D) - Due(t, D, 1) = Cardinality(C) - Due(t, C, 1)
    /\ t \in C => Sum(w, C) >= w[t] /\ Cardinality(C) > 0

LEMMA SumShifts ==
    ASSUME NEW t, NEW C, NEW w, NEW D, NEW v, DifferIn(t, C, w, D, v)
    PROVE  Balanced(t, C, w, D, v)
<1> USE DEF DifferIn
<1>1. PICK B : B = C \ {t} /\ B = D \ {t}
  OBVIOUS
<1>2. IsFiniteSet(B)
  BY <1>1, FS_RemoveElement
<1>3. D = B \/ D = B \cup {t}
  BY <1>1
<1>4. IsFiniteSet(D)
  BY <1>2, <1>3, FS_AddElement
<1>5. NatOn(w, B) /\ NatOn(v, B)
  BY <1>1 DEF NatOn
<1>6. Sum(w, B) = Sum(v, B) /\ Sum(w, B) \in Nat
  BY <1>1, <1>2, <1>5, SumSame, SumTakes
<1>7. Sum(w, C) \in Nat /\ Sum(v, D) \in Nat
  BY <1>4, SumTakes
<1>8. t \in C => Sum(w, C) = w[t] + Sum(w, B) /\ w[t] \in Nat
  BY <1>1, SumTakes DEF NatOn
<1>9. t \in D => Sum(v, D) = v[t] + Sum(v, B) /\ v[t] \in Nat
  BY <1>1, <1>4, SumTakes DEF NatOn
<1>10. (t \notin C => C = B) /\ (t \notin D => D = B)
  BY <1>1
<1>11. Cardinality(C) \in Nat /\ Cardinality(D) \in Nat /\ Cardinality(B) \in Nat
  BY <1>2, <1>4, FS_CardinalityType
<1>12. /\ t \in C => Cardinality(B) = Cardinality(C) - 1
       /\ t \in D => Cardinality(B) = Cardinality(D) - 1
  BY <1>1, <1>4, FS_RemoveElement
<1>13. Sum(v, D) - Due(t, D, v[t]) = Sum(w, C) - Due(t, C, w[t])
  <2>1. Sum(w, C) - Due(t, C, w[t]) = Sum(w, B)
    BY <1>6, <1>8, <1>10 DEF Due
  <2>2. Sum(v, D) - Due(t, D, v[t]) = Sum(v, B)
    BY <1>6, <1>9, <1>10 DEF Due
  <2> QED BY <1>6, <2>1, <2>2
<1>14. Cardinality(D) - Due(t, D, 1) = Cardinality(C) - Due(t, C, 1)
  BY <1>10, <1>11, <1>12 DEF Due
<1>15. t \in C => Sum(w, C) >= w[t] /\ Cardinality(C) > 0
  BY <1>6, <1>8, <1>11, <1>12
<1> QED BY <1>4, <1>7, <1>11, <1>13, <1>14, <1>15 DEF Balanced

-----------------------------------------------------------------------------
(***************************************************************************)
(* The charges agree with the buffers.                                     *)
(***************************************************************************)
FilePoints   == Stages \cup {"global", "swap", "rollback", "insert", "uncharge"}
DriverPoints == Stages \cup {"insert", "uncharge", "return"}

\* The points at which thread t is charged to file f.
PointsOf(f, t) == IF FileOf[t] = f THEN FilePoints ELSE {}

\* One more buffer.
LEMMA BytesOf ==
    ASSUME NEW S, IsFiniteSet(S), NEW b, S \cup {b} \in SUBSET Buffer
    PROVE  Bytes(S) \in Nat /\ (b \notin S => Bytes(S \cup {b}) = Bytes(S) + b.size)
<1> DEFINE w == [x \in S |-> x.size]
           D == S \cup {b}
           v == [x \in D |-> x.size]
<1>1. NatOn(w, S) /\ NatOn(v, D) /\ (b \notin S => D \ {b} = S \ {b})
  BY DEF NatOn, Buffer
<1>2. Bytes(S) = Sum(w, S) /\ Bytes(S \cup {b}) = Sum(v, D)
  BY DEF Bytes, Sum
<1>3. Bytes(S) \in Nat
  BY <1>1, <1>2, SumTakes
<1>4. ASSUME b \notin S PROVE Bytes(S \cup {b}) = Bytes(S) + b.size
  <2>1. v[b] = b.size /\ b \in D /\ D \ {b} = S /\ IsFiniteSet(D)
    BY <1>4, FS_AddElement
  <2>2. Sum(v, D) = v[b] + Sum(v, S)
    BY <1>1, <2>1, SumTakes
  <2>3. \A x \in S : w[x] = v[x]
    OBVIOUS
  <2>4. Sum(w, S) = Sum(v, S)
    BY <2>3, SumSame
  <2>5. b.size \in Nat
    BY DEF Buffer
  <2> QED BY <1>2, <1>3, <2>1, <2>2, <2>4, <2>5
<1> QED BY <1>3, <1>4

\* What a step of thread t, from where it is to l with size n, does to the
\* requests that are charged to file f ...
LEMMA FileDues ==
    ASSUME QInv, NEW t \in Threads, NEW l, Goto(t, l), NEW n \in Nat,
           size' = [size EXCEPT ![t] = n], NEW f \in Files, IsFiniteSet(FileCharged(f))
    PROVE  /\ IsFiniteSet(FileCharged(f)')
           /\ Sizes(FileCharged(f)) \in Nat /\ Sizes(FileCharged(f))' \in Nat
           /\ Cardinality(FileCharged(f)) \in Nat /\ Cardinality(FileCharged(f)') \in Nat
           /\ Sizes(FileCharged(f))' - Due(l, PointsOf(f, t), n)
                = Sizes(FileCharged(f)) - Due(pc[t], PointsOf(f, t), size[t])
           /\ Cardinality(FileCharged(f)') - Due(l, PointsOf(f, t), 1)
                = Cardinality(FileCharged(f)) - Due(pc[t], PointsOf(f, t), 1)
           /\ pc[t] \in PointsOf(f, t) =>
                Sizes(FileCharged(f)) >= size[t] /\ Cardinality(FileCharged(f)) > 0
<1>1. PICK C, D : C = FileCharged(f) /\ D = FileCharged(f)'
  OBVIOUS
<1>2. /\ pc'[t] = l /\ size'[t] = n
      /\ \A u \in Threads \ {t} : pc'[u] = pc[u] /\ size'[u] = size[u]
  BY DEF QInv, TypeOK, Goto
<1>3. /\ C \subseteq Threads /\ D \subseteq Threads /\ D \ {t} = C \ {t}
      /\ t \in C <=> FileOf[t] = f /\ pc[t] \in FilePoints
      /\ t \in D <=> FileOf[t] = f /\ l \in FilePoints
  BY <1>1, <1>2 DEF FileCharged, FilePoints
<1>4. NatOn(size, C) /\ NatOn(size', D) /\ \A x \in C \ {t} : size[x] = size'[x]
  BY <1>2, <1>3 DEF NatOn, QInv, TypeOK
<1>5. Sizes(FileCharged(f)) = Sum(size, C) /\ Sizes(FileCharged(f))' = Sum(size', D)
  BY <1>1 DEF Sizes, Sum
<1>6. /\ IsFiniteSet(D) /\ Sum(size, C) \in Nat /\ Sum(size', D) \in Nat
      /\ Cardinality(C) \in Nat /\ Cardinality(D) \in Nat
      /\ Sum(size', D) - Due(t, D, size'[t]) = Sum(size, C) - Due(t, C, size[t])
      /\ Cardinality(D) - Due(t, D, 1) = Cardinality(C) - Due(t, C, 1)
      /\ t \in C => Sum(size, C) >= size[t] /\ Cardinality(C) > 0
  <2>1. DifferIn(t, C, size, D, size')
    BY <1>1, <1>3, <1>4 DEF DifferIn
  <2>2. Balanced(t, C, size, D, size')
    BY <2>1, SumShifts
  <2> QED BY <2>2 DEF Balanced
<1>7. Due(t, C, size[t]) = Due(pc[t], PointsOf(f, t), size[t]) /\ Due(t, D, n) = Due(l, PointsOf(f, t), n)
  BY <1>3 DEF Due, PointsOf
<1>8. Due(t, C, 1) = Due(pc[t], PointsOf(f, t), 1) /\ Due(t, D, 1) = Due(l, PointsOf(f, t), 1)
  BY <1>3 DEF Due, PointsOf
<1>9. pc[t] \in PointsOf(f, t) => t \in C
  BY <1>3 DEF PointsOf
<1> QED BY <1>1, <1>2, <1>3, <1>5, <1>6, <1>7, <1>8, <1>9

\* ... and to the driver.
LEMMA DriverDues ==
    ASSUME QInv, NEW t \in Threads, NEW l, Goto(t, l), NEW n \in Nat,
           size' = [size EXCEPT ![t] = n], IsFiniteSet(Charged)
    PROVE  /\ IsFiniteSet(Charged') /\ Sizes(Charged) \in Nat /\ Sizes(Charged)' \in Nat
           /\ Sizes(Charged)' - Due(l, DriverPoints, n)
                = Sizes(Charged) - Due(pc[t], DriverPoints, size[t])
<1>1. PICK C, D : C = Charged /\ D = Charged'
  OBVIOUS
<1>2. /\ pc'[t] = l /\ size'[t] = n
      /\ \A u \in Threads \ {t} : pc'[u] = pc[u] /\ size'[u] = size[u]
  BY DEF QInv, TypeOK, Goto
<1>3. /\ C \subseteq Threads /\ D \subseteq Threads /\ D \ {t} = C \ {t}
      /\ t \in C <=> pc[t] \in DriverPoints
      /\ t \in D <=> l \in DriverPoints
  BY <1>1, <1>2 DEF Charged, DriverPoints
<1>4. NatOn(size, C) /\ NatOn(size', D) /\ \A x \in C \ {t} : size[x] = size'[x]
  BY <1>2, <1>3 DEF NatOn, QInv, TypeOK
<1>5. Sizes(Charged) = Sum(size, C) /\ Sizes(Charged)' = Sum(size', D)
  BY <1>1 DEF Sizes, Sum
<1>6. /\ IsFiniteSet(D) /\ Sum(size, C) \in Nat /\ Sum(size', D) \in Nat
      /\ Sum(size', D) - Due(t, D, size'[t]) = Sum(size, C) - Due(t, C, size[t])
  <2>1. DifferIn(t, C, size, D, size')
    BY <1>1, <1>3, <1>4 DEF DifferIn
  <2>2. Balanced(t, C, size, D, size')
    BY <2>1, SumShifts
  <2> QED BY <2>2 DEF Balanced
<1>7. Due(t, C, size[t]) = Due(pc[t], DriverPoints, size[t]) /\ Due(t, D, n) = Due(l, DriverPoints, n)
  BY <1>3 DEF Due
<1> QED BY <1>1, <1>2, <1>3, <1>5, <1>6, <1>7

ChInv ==
    /\ IsFiniteSet(Listed) /\ IsFiniteSet(Charged)
    /\ \A f \in Files : IsFiniteSet(FileCharged(f))
    /\ ChargesAgree

LEMMA ChInit == Init => ChInv
<1> SUFFICES ASSUME Init PROVE ChInv
  OBVIOUS
<1>1. /\ Listed = {} /\ Charged = {} /\ total = 0
      /\ \A f \in Files : Buffers[f] = {} /\ FileCharged(f) = {} /\ AllocatedBytes[f] = 0
                          /\ BufferCount[f] = 0
  BY DEF Init, Listed, Charged, FileCharged, Stages, Kinds
<1>2. Bytes({}) = 0 /\ Sizes({}) = 0
  <2>1. \A w : Sum(w, {}) = 0
    BY FS_EmptySet, SumUnfolds
  <2> QED BY <2>1 DEF Bytes, Sizes, Sum
<1> QED BY <1>1, <1>2, FS_EmptySet DEF ChInv, ChargesAgree

LEMMA BytesType ==
    ASSUME NEW S, IsFiniteSet(S), S \in SUBSET Buffer
    PROVE  Bytes(S) \in Nat
<1>1. [cookie |-> 0, size |-> 0] \in Buffer
  BY DEF Buffer
<1>2. PICK b : b \in Buffer
  BY <1>1
<1>3. S \cup {b} \in SUBSET Buffer
  BY <1>2
<1> QED BY <1>3, BytesOf

LEMMA BytesNat ==
    ASSUME QInv, ChInv
    PROVE  /\ Bytes(Listed) \in Nat
           /\ \A f \in Files : /\ Bytes(Buffers[f]) \in Nat /\ IsFiniteSet(Buffers[f])
                               /\ Cardinality(Buffers[f]) \in Nat
<1>1. Listed \in SUBSET Buffer /\ \A f \in Files : Buffers[f] \in SUBSET Listed
  BY DEF QInv, TypeOK, Listed
<1>2. \A S \in SUBSET Buffer : IsFiniteSet(S) => Bytes(S) \in Nat
  BY BytesType
<1>3. \A f \in Files : IsFiniteSet(Buffers[f])
  BY <1>1, FS_Subset DEF ChInv
<1>4. \A f \in Files : Cardinality(Buffers[f]) \in Nat
  BY <1>3, FS_CardinalityType
<1> QED BY <1>1, <1>2, <1>3, <1>4 DEF ChInv

\* Thread t goes to l with size n, and the books of its file and of the driver
\* change by what the lists and the thread's own charge change by.
BooksMove(t, l, n) ==
    /\ \A f \in Files :
         /\ AllocatedBytes'[f] = AllocatedBytes[f] + (Bytes(Buffers'[f]) - Bytes(Buffers[f]))
                + (Due(l, PointsOf(f, t), n) - Due(pc[t], PointsOf(f, t), size[t]))
         /\ BufferCount'[f] = BufferCount[f] + (Cardinality(Buffers'[f]) - Cardinality(Buffers[f]))
                + (Due(l, PointsOf(f, t), 1) - Due(pc[t], PointsOf(f, t), 1))
    /\ total' = total + (Bytes(Listed') - Bytes(Listed))
                + (Due(l, DriverPoints, n) - Due(pc[t], DriverPoints, size[t]))

LEMMA ChMoves ==
    ASSUME QInv, QInv', ChInv, NEW t \in Threads, NEW l, Goto(t, l), NEW n \in Nat,
           size' = [size EXCEPT ![t] = n], IsFiniteSet(Listed'), BooksMove(t, l, n)
    PROVE  ChInv'
<1>n. size[t] \in Nat
  BY DEF QInv, TypeOK
<1>1. ASSUME NEW f \in Files
      PROVE  /\ IsFiniteSet(FileCharged(f)')
             /\ AllocatedBytes'[f] = Bytes(Buffers'[f]) + Sizes(FileCharged(f))'
             /\ BufferCount'[f] = Cardinality(Buffers'[f]) + Cardinality(FileCharged(f)')
  <2>1. IsFiniteSet(FileCharged(f))
    BY DEF ChInv
  <2>2. /\ IsFiniteSet(FileCharged(f)')
        /\ Sizes(FileCharged(f)) \in Nat /\ Sizes(FileCharged(f))' \in Nat
        /\ Cardinality(FileCharged(f)) \in Nat /\ Cardinality(FileCharged(f)') \in Nat
        /\ Sizes(FileCharged(f))' - Due(l, PointsOf(f, t), n)
             = Sizes(FileCharged(f)) - Due(pc[t], PointsOf(f, t), size[t])
        /\ Cardinality(FileCharged(f)') - Due(l, PointsOf(f, t), 1)
             = Cardinality(FileCharged(f)) - Due(pc[t], PointsOf(f, t), 1)
    BY <2>1, FileDues
  <2>3. /\ Due(l, PointsOf(f, t), n) \in Nat /\ Due(pc[t], PointsOf(f, t), size[t]) \in Nat
        /\ Due(l, PointsOf(f, t), 1) \in Nat /\ Due(pc[t], PointsOf(f, t), 1) \in Nat
    BY <1>n DEF Due
  <2>4. /\ AllocatedBytes[f] = Bytes(Buffers[f]) + Sizes(FileCharged(f))
        /\ BufferCount[f] = Cardinality(Buffers[f]) + Cardinality(FileCharged(f))
    BY DEF ChInv, ChargesAgree
  <2>5. Bytes(Buffers[f]) \in Nat /\ Cardinality(Buffers[f]) \in Nat
    BY BytesNat
  <2>6. Bytes(Buffers'[f]) \in Nat /\ Cardinality(Buffers'[f]) \in Nat
    <3>1. Buffers'[f] \in SUBSET Listed' /\ Listed' \in SUBSET Buffer
      BY DEF QInv, TypeOK, Listed
    <3>2. IsFiniteSet(Buffers'[f])
      BY <3>1, FS_Subset
    <3>3. Buffers'[f] \in SUBSET Buffer
      BY <3>1
    <3> QED BY <3>2, <3>3, BytesType, FS_CardinalityType
  <2>7. /\ AllocatedBytes'[f] = AllocatedBytes[f] + (Bytes(Buffers'[f]) - Bytes(Buffers[f]))
             + (Due(l, PointsOf(f, t), n) - Due(pc[t], PointsOf(f, t), size[t]))
        /\ BufferCount'[f] = BufferCount[f]
             + (Cardinality(Buffers'[f]) - Cardinality(Buffers[f]))
             + (Due(l, PointsOf(f, t), 1) - Due(pc[t], PointsOf(f, t), 1))
    BY DEF BooksMove
  <2>8. AllocatedBytes'[f] = Bytes(Buffers'[f]) + Sizes(FileCharged(f))'
    BY <2>2, <2>3, <2>4, <2>5, <2>6, <2>7
  <2>9. BufferCount'[f] = Cardinality(Buffers'[f]) + Cardinality(FileCharged(f)')
    <3>1. PICK b, c, d, e, p, r \in Nat :
             /\ b = Cardinality(Buffers[f]) /\ c = Cardinality(Buffers'[f])
             /\ d = Cardinality(FileCharged(f)) /\ e = Cardinality(FileCharged(f)')
             /\ p = Due(pc[t], PointsOf(f, t), 1) /\ r = Due(l, PointsOf(f, t), 1)
      BY <2>2, <2>3, <2>5, <2>6
    <3>2. e - r = d - p /\ BufferCount[f] = b + d /\ BufferCount'[f] = BufferCount[f] + (c - b) + (r - p)
      BY <2>2, <2>4, <2>7, <3>1
    <3>3. BufferCount'[f] = c + e
      BY <3>2
    <3> QED BY <3>1, <3>3
  <2> QED BY <2>2, <2>8, <2>9
<1>2. IsFiniteSet(Charged') /\ total' = Bytes(Listed') + Sizes(Charged)'
  <2>1. IsFiniteSet(Charged) /\ total = Bytes(Listed) + Sizes(Charged)
    BY DEF ChInv, ChargesAgree
  <2>2. /\ IsFiniteSet(Charged') /\ Sizes(Charged) \in Nat /\ Sizes(Charged)' \in Nat
        /\ Sizes(Charged)' - Due(l, DriverPoints, n)
             = Sizes(Charged) - Due(pc[t], DriverPoints, size[t])
    BY <2>1, DriverDues
  <2>3. Due(l, DriverPoints, n) \in Nat /\ Due(pc[t], DriverPoints, size[t]) \in Nat
    BY <1>n DEF Due
  <2>4. Bytes(Listed) \in Nat
    BY BytesNat
  <2>5. Bytes(Listed') \in Nat
    <3>1. Listed' \in SUBSET Buffer
      BY DEF QInv, TypeOK, Listed
    <3> QED BY <3>1, BytesType
  <2>6. total' = total + (Bytes(Listed') - Bytes(Listed))
             + (Due(l, DriverPoints, n) - Due(pc[t], DriverPoints, size[t]))
    BY DEF BooksMove
  <2> QED BY <2>1, <2>2, <2>3, <2>4, <2>5, <2>6
<1>3. /\ \A f \in Files : Bytes(Buffers[f])' = Bytes(Buffers'[f])
      /\ Bytes(Listed)' = Bytes(Listed')
  BY DEF Bytes
<1> QED BY <1>1, <1>2, <1>3 DEF ChInv, ChargesAgree

\* Steps that move a thread between points of equal charge.
LEMMA ChKeeps ==
    ASSUME QInv, QInv', ChInv, NEW t \in Threads, NEW l, Goto(t, l), NEW n \in Nat,
           size' = [size EXCEPT ![t] = n], UNCHANGED <<Buffers, AllocatedBytes, BufferCount, total>>,
           l \in FilePoints <=> pc[t] \in FilePoints, l \in DriverPoints <=> pc[t] \in DriverPoints,
           l \in FilePoints \cup DriverPoints => n = size[t]
    PROVE  ChInv'
<1>1. Listed' = Listed
  BY DEF Listed
<1>2. size[t] \in Nat /\ total \in Int
      /\ \A f \in Files : AllocatedBytes[f] \in Nat /\ BufferCount[f] \in Nat
  BY DEF QInv, TypeOK
<1>3. \A f \in Files : /\ Due(l, PointsOf(f, t), n) = Due(pc[t], PointsOf(f, t), size[t])
                       /\ Due(pc[t], PointsOf(f, t), size[t]) \in Nat
                       /\ Due(l, PointsOf(f, t), 1) = Due(pc[t], PointsOf(f, t), 1)
                       /\ Due(pc[t], PointsOf(f, t), 1) \in Nat
  BY <1>2 DEF Due, PointsOf
<1>4. /\ Due(l, DriverPoints, n) = Due(pc[t], DriverPoints, size[t])
      /\ Due(pc[t], DriverPoints, size[t]) \in Nat
  BY <1>2 DEF Due
<1>5. BooksMove(t, l, n)
  BY <1>1, <1>2, <1>3, <1>4, BytesNat DEF BooksMove
<1> QED BY <1>1, <1>5, ChMoves DEF ChInv

\* The file is charged, and what is left to charge is the driver.
LEMMA ChReserveFile ==
    ASSUME QInv, QInv', ChInv, NEW t \in Threads, ReserveFile(t)
    PROVE  ChInv'
<1>0. size[t] \in Nat /\ FileOf[t] \in Files /\ pc[t] = "reserve"
      /\ AllocatedBytes[FileOf[t]] \in Nat /\ BufferCount[FileOf[t]] \in Nat /\ total \in Int
  BY FileOfType DEF QInv, TypeOK, ReserveFile
<1>1. CASE OverQuota(FileOf[t], size[t])
  BY <1>0, <1>1, ChKeeps DEF ReserveFile, Finish, FilePoints, DriverPoints, Stages, Kinds
<1>2. CASE ~OverQuota(FileOf[t], size[t])
  <2>1. /\ AllocatedBytes' = [AllocatedBytes EXCEPT ![FileOf[t]] = @ + size[t]]
        /\ BufferCount' = [BufferCount EXCEPT ![FileOf[t]] = @ + 1]
        /\ Goto(t, "global") /\ size' = [size EXCEPT ![t] = size[t]]
        /\ Buffers' = Buffers /\ total' = total /\ Listed' = Listed
    BY <1>2 DEF ReserveFile, QInv, TypeOK, Listed
  <2>2. \A f \in Files :
          /\ Due("global", PointsOf(f, t), size[t]) = IF f = FileOf[t] THEN size[t] ELSE 0
          /\ Due("global", PointsOf(f, t), 1) = IF f = FileOf[t] THEN 1 ELSE 0
          /\ Due("reserve", PointsOf(f, t), size[t]) = 0 /\ Due("reserve", PointsOf(f, t), 1) = 0
    BY DEF Due, PointsOf, FilePoints, Stages, Kinds
  <2>3. Due("global", DriverPoints, size[t]) = 0 /\ Due("reserve", DriverPoints, size[t]) = 0
    BY DEF Due, DriverPoints, Stages, Kinds
  <2>4. BooksMove(t, "global", size[t])
    BY <1>0, <2>1, <2>2, <2>3, BytesNat DEF BooksMove, QInv, TypeOK
  <2> QED BY <1>0, <2>1, <2>4, ChMoves DEF ChInv
<1> QED BY <1>1, <1>2

\* The driver is charged when the compare-exchange succeeds ...
LEMMA ChReserveSwap ==
    ASSUME QInv, QInv', ChInv, NEW t \in Threads, ReserveSwap(t)
    PROVE  ChInv'
<1>0. /\ size[t] \in Nat /\ FileOf[t] \in Files /\ pc[t] = "swap" /\ total \in Int
      /\ \A f \in Files : AllocatedBytes[f] \in Nat /\ BufferCount[f] \in Nat
      /\ size' = [size EXCEPT ![t] = size[t]]
  BY FileOfType DEF QInv, TypeOK, ReserveSwap
<1>1. CASE total # snap[t]
  <2>1. Goto(t, "global") /\ UNCHANGED <<Buffers, AllocatedBytes, BufferCount, total>>
    BY <1>1 DEF ReserveSwap, ctxVars
  <2>2. /\ "global" \in FilePoints <=> pc[t] \in FilePoints
        /\ "global" \in DriverPoints <=> pc[t] \in DriverPoints
    BY <1>0 DEF FilePoints, DriverPoints, Stages, Kinds
  <2> QED BY <1>0, <2>1, <2>2, ChKeeps
<1>2. CASE total = snap[t]
  <2>1. /\ total' = total + size[t] /\ Goto(t, "mem")
        /\ UNCHANGED <<AllocatedBytes, BufferCount, Buffers>> /\ Listed' = Listed
    BY <1>2 DEF ReserveSwap, Listed, ctxVars
  <2>2. \A f \in Files :
          /\ Due("mem", PointsOf(f, t), size[t]) = Due("swap", PointsOf(f, t), size[t])
          /\ Due("mem", PointsOf(f, t), 1) = Due("swap", PointsOf(f, t), 1)
          /\ Due("swap", PointsOf(f, t), size[t]) \in Nat /\ Due("swap", PointsOf(f, t), 1) \in Nat
    BY <1>0 DEF Due, PointsOf, FilePoints, Stages, Kinds
  <2>3. Due("mem", DriverPoints, size[t]) = size[t] /\ Due("swap", DriverPoints, size[t]) = 0
    BY DEF Due, DriverPoints, Stages, Kinds
  <2>4. BooksMove(t, "mem", size[t])
    BY <1>0, <2>1, <2>2, <2>3, BytesNat DEF BooksMove
  <2> QED BY <1>0, <2>1, <2>4, ChMoves DEF ChInv
<1> QED BY <1>1, <1>2

\* ... and gets it back at the end.
LEMMA ChReleaseGlobal ==
    ASSUME QInv, QInv', ChInv, NEW t \in Threads, ReleaseGlobal(t)
    PROVE  ChInv'
<1>0. /\ size[t] \in Nat /\ FileOf[t] \in Files /\ pc[t] = "return" /\ total \in Int
      /\ \A f \in Files : AllocatedBytes[f] \in Nat /\ BufferCount[f] \in Nat
  BY FileOfType DEF QInv, TypeOK, ReleaseGlobal
<1>1. PICK l \in {"teardown", "idle"} : Goto(t, l)
  BY DEF ReleaseGlobal
<1>2. /\ total' = total - size[t] /\ size' = [size EXCEPT ![t] = 0]
      /\ UNCHANGED <<AllocatedBytes, BufferCount, Buffers>> /\ Listed' = Listed
  BY DEF ReleaseGlobal, Listed, ctxVars
<1>3. \A f \in Files :
        /\ Due(l, PointsOf(f, t), 0) = 0 /\ Due(l, PointsOf(f, t), 1) = 0
        /\ Due("return", PointsOf(f, t), size[t]) = 0 /\ Due("return", PointsOf(f, t), 1) = 0
  BY <1>1 DEF Due, PointsOf, FilePoints, Stages, Kinds
<1>4. Due(l, DriverPoints, 0) = 0 /\ Due("return", DriverPoints, size[t]) = size[t]
  BY DEF Due, DriverPoints, Stages, Kinds
<1>5. BooksMove(t, l, 0)
  BY <1>0, <1>2, <1>3, <1>4, BytesNat DEF BooksMove
<1> QED BY <1>1, <1>2, <1>5, ChMoves DEF ChInv

\* A file gives back exactly the charge of the request: the clamp never acts.
LEMMA ChUncharge ==
    ASSUME QInv, QInv', ChInv, NEW t \in Threads, ReserveRollback(t) \/ ReleaseFile(t)
    PROVE  ChInv'
<1>0. /\ size[t] \in Nat /\ FileOf[t] \in Files /\ total \in Int
      /\ \A f \in Files : AllocatedBytes[f] \in Nat /\ BufferCount[f] \in Nat
  BY FileOfType DEF QInv, TypeOK
<1>1. PICK f : f = FileOf[t] /\ f \in Files
  BY <1>0
<1>2. pc[t] \in {"rollback", "uncharge"} /\ pc[t] \in FilePoints
  BY DEF ReserveRollback, ReleaseFile, FilePoints
<1>3. PICK l, n : /\ Goto(t, l) /\ size' = [size EXCEPT ![t] = n]
                  /\ (pc[t] = "rollback" /\ l = "idle" /\ n = 0)
                     \/ (pc[t] = "uncharge" /\ l = "return" /\ n = size[t])
  BY DEF ReserveRollback, ReleaseFile, Finish, QInv, TypeOK
<1>4. n \in Nat
  BY <1>0, <1>3
<1>5. AllocatedBytes[f] >= size[t] /\ BufferCount[f] > 0
  <2>1. IsFiniteSet(FileCharged(f)) /\ pc[t] \in PointsOf(f, t)
    BY <1>1, <1>2 DEF ChInv, PointsOf
  <2>2. /\ Sizes(FileCharged(f)) >= size[t] /\ Cardinality(FileCharged(f)) > 0
        /\ Sizes(FileCharged(f)) \in Nat /\ Cardinality(FileCharged(f)) \in Nat
    BY <1>1, <1>3, <1>4, <2>1, FileDues
  <2>3. Bytes(Buffers[f]) \in Nat /\ Cardinality(Buffers[f]) \in Nat
    BY <1>1, BytesNat
  <2>4. /\ AllocatedBytes[f] = Bytes(Buffers[f]) + Sizes(FileCharged(f))
        /\ BufferCount[f] = Cardinality(Buffers[f]) + Cardinality(FileCharged(f))
    BY <1>1 DEF ChInv, ChargesAgree
  <2>5. AllocatedBytes[f] >= size[t]
    BY <1>0, <2>2, <2>3, <2>4
  <2>6. PICK c, d \in Nat : c = Cardinality(Buffers[f]) /\ d = Cardinality(FileCharged(f))
    BY <2>2, <2>3
  <2>7. BufferCount[f] = c + d /\ d > 0
    BY <2>2, <2>4, <2>6
  <2> QED BY <2>5, <2>7
<1>6. /\ AllocatedBytes' = [AllocatedBytes EXCEPT ![f] = @ - size[t]]
      /\ BufferCount' = [BufferCount EXCEPT ![f] = @ - 1]
      /\ Buffers' = Buffers /\ total' = total /\ Listed' = Listed
  BY <1>1, <1>5 DEF ReserveRollback, ReleaseFile, Uncharge, Listed
<1>7. /\ \A g \in Files : g # f =>
            AllocatedBytes'[g] = AllocatedBytes[g] /\ BufferCount'[g] = BufferCount[g]
      /\ AllocatedBytes'[f] = AllocatedBytes[f] - size[t] /\ BufferCount'[f] = BufferCount[f] - 1
  BY <1>1, <1>6 DEF QInv, TypeOK
<1>8. \A g \in Files :
        /\ Due(l, PointsOf(g, t), n) = 0 /\ Due(l, PointsOf(g, t), 1) = 0
        /\ Due(pc[t], PointsOf(g, t), size[t]) = IF g = f THEN size[t] ELSE 0
        /\ Due(pc[t], PointsOf(g, t), 1) = IF g = f THEN 1 ELSE 0
  BY <1>1, <1>2, <1>3 DEF Due, PointsOf, FilePoints, Stages, Kinds
<1>9. /\ Due(l, DriverPoints, n) = Due(pc[t], DriverPoints, size[t])
      /\ Due(l, DriverPoints, n) \in Nat
  BY <1>0, <1>3 DEF Due, DriverPoints, Stages, Kinds
<1>10. BooksMove(t, l, n)
  BY <1>0, <1>6, <1>7, <1>8, <1>9, BytesNat DEF BooksMove
<1> QED BY <1>3, <1>4, <1>6, <1>10, ChMoves DEF ChInv

\* A buffer goes to the list with its charge ...
LEMMA ChInsert ==
    ASSUME QInv, QInv', CInv, OwnInv, ChInv, NEW t \in Threads, Insert(t)
    PROVE  ChInv'
<1>0. /\ size[t] \in Nat /\ own[t] \in Nat /\ total \in Int /\ pc[t] = "insert"
      /\ \A g \in Files : AllocatedBytes[g] \in Nat /\ BufferCount[g] \in Nat
  BY DEF QInv, TypeOK, Insert
<1>1. PICK f \in Files : f = FileOf[t]
  BY FileOfType
<1>2. PICK b : b = [cookie |-> own[t], size |-> size[t]]
  OBVIOUS
<1>3. b \in Buffer /\ b.cookie = own[t] /\ b.size = size[t] /\ own[t] # 0
  BY <1>0, <1>2 DEF Buffer, OwnInv
<1>4. /\ Buffers' = [Buffers EXCEPT ![f] = @ \cup {b}] /\ Goto(t, "idle")
      /\ size' = [size EXCEPT ![t] = 0]
      /\ UNCHANGED <<AllocatedBytes, BufferCount, total>>
  BY <1>1, <1>2 DEF Insert, Finish
<1>5. b \notin Listed /\ Listed' = Listed \cup {b} /\ b \notin Buffers[f]
  BY <1>3, <1>4 DEF CInv, OwnersDiffer, Listed, QInv, TypeOK
<1>6. /\ Buffers'[f] = Buffers[f] \cup {b}
      /\ \A g \in Files : g # f => Buffers'[g] = Buffers[g]
  BY <1>4 DEF QInv, TypeOK
<1>7. /\ Bytes(Listed') = Bytes(Listed) + size[t] /\ IsFiniteSet(Listed')
      /\ Bytes(Listed) \in Nat
  <2>1. Listed \cup {b} \in SUBSET Buffer /\ IsFiniteSet(Listed)
    BY <1>3 DEF QInv, TypeOK, Listed, ChInv
  <2> QED BY <1>3, <1>5, <2>1, BytesOf, FS_AddElement
<1>8. /\ Bytes(Buffers'[f]) = Bytes(Buffers[f]) + size[t]
      /\ Cardinality(Buffers'[f]) = Cardinality(Buffers[f]) + 1
  <2>1. Buffers[f] \cup {b} \in SUBSET Buffer /\ IsFiniteSet(Buffers[f])
    BY <1>3, BytesNat DEF QInv, TypeOK
  <2>2. Bytes(Buffers'[f]) = Bytes(Buffers[f]) + size[t]
    BY <1>3, <1>5, <1>6, <2>1, BytesOf
  <2>3. Cardinality(Buffers[f] \cup {b}) = Cardinality(Buffers[f]) + 1
    BY <1>5, <2>1, FS_AddElement
  <2> QED BY <1>6, <2>2, <2>3
<1>9. \A g \in Files :
        /\ Due("idle", PointsOf(g, t), 0) = 0 /\ Due("idle", PointsOf(g, t), 1) = 0
        /\ Due("insert", PointsOf(g, t), size[t]) = IF g = f THEN size[t] ELSE 0
        /\ Due("insert", PointsOf(g, t), 1) = IF g = f THEN 1 ELSE 0
  BY <1>1 DEF Due, PointsOf, FilePoints, Stages, Kinds
<1>10. Due("idle", DriverPoints, 0) = 0 /\ Due("insert", DriverPoints, size[t]) = size[t]
  BY DEF Due, DriverPoints, Stages, Kinds
<1>11. \A g \in Files : /\ Bytes(Buffers[g]) \in Nat /\ Cardinality(Buffers[g]) \in Nat
  BY BytesNat
<1>12. BooksMove(t, "idle", 0)
  <2>1. ASSUME NEW g \in Files
        PROVE  /\ AllocatedBytes'[g] = AllocatedBytes[g]
                    + (Bytes(Buffers'[g]) - Bytes(Buffers[g]))
                    + (Due("idle", PointsOf(g, t), 0) - Due(pc[t], PointsOf(g, t), size[t]))
               /\ BufferCount'[g] = BufferCount[g]
                    + (Cardinality(Buffers'[g]) - Cardinality(Buffers[g]))
                    + (Due("idle", PointsOf(g, t), 1) - Due(pc[t], PointsOf(g, t), 1))
    <3>1. CASE g = f
      BY <1>0, <1>4, <1>8, <1>9, <1>11, <3>1
    <3>2. CASE g # f
      BY <1>0, <1>4, <1>6, <1>9, <1>11, <3>2
    <3> QED BY <3>1, <3>2
  <2>2. total' = total + (Bytes(Listed') - Bytes(Listed))
                  + (Due("idle", DriverPoints, 0) - Due(pc[t], DriverPoints, size[t]))
    BY <1>0, <1>4, <1>7, <1>10
  <2> QED BY <2>1, <2>2 DEF BooksMove
<1> QED BY <1>4, <1>7, <1>12, ChMoves

\* ... and leaves it with it.
LEMMA ChTake ==
    ASSUME QInv, QInv', CInv, ChInv, NEW t \in Threads, pc[t] \in {"unlink", "drain"},
           NEW b \in Buffers[FileOf[t]], Take(t, b), UNCHANGED <<AllocatedBytes, BufferCount, total>>
    PROVE  ChInv'
<1>0. /\ size[t] \in Nat /\ total \in Int
      /\ \A g \in Files : AllocatedBytes[g] \in Nat /\ BufferCount[g] \in Nat
  BY DEF QInv, TypeOK
<1>1. PICK f \in Files : f = FileOf[t]
  BY FileOfType
<1>2. b \in Buffers[f] /\ b \in Listed /\ b \in Buffer /\ b.size \in Nat
  BY <1>1 DEF QInv, TypeOK, Buffer, Listed
<1>3. PICK n \in Nat : n = b.size
  BY <1>2
<1>4. /\ Buffers' = [Buffers EXCEPT ![f] = @ \ {b}] /\ Goto(t, "uncharge")
      /\ size' = [size EXCEPT ![t] = n]
  BY <1>1, <1>3 DEF Take
<1>5. /\ Buffers'[f] = Buffers[f] \ {b}
      /\ \A g \in Files : g # f => b \notin Buffers[g] /\ Buffers'[g] = Buffers[g]
  BY <1>1, <1>2, <1>4 DEF QInv, TypeOK, CInv, CookiesDiffer
<1>6. Listed' = Listed \ {b}
  BY <1>5 DEF Listed
<1>7. /\ Bytes(Listed) = Bytes(Listed') + n /\ IsFiniteSet(Listed')
      /\ Bytes(Listed') \in Nat
  <2>1. /\ Listed' \cup {b} \in SUBSET Buffer /\ IsFiniteSet(Listed)
        /\ Listed' \cup {b} = Listed /\ b \notin Listed'
    BY <1>2, <1>6 DEF QInv, TypeOK, Listed, ChInv
  <2>2. IsFiniteSet(Listed')
    BY <1>6, <2>1, FS_RemoveElement
  <2> QED BY <1>3, <2>1, <2>2, BytesOf
<1>8. /\ Bytes(Buffers[f]) = Bytes(Buffers'[f]) + n /\ Bytes(Buffers'[f]) \in Nat
      /\ Cardinality(Buffers'[f]) = Cardinality(Buffers[f]) - 1
  <2>1. /\ Buffers'[f] \cup {b} \in SUBSET Buffer /\ IsFiniteSet(Buffers[f])
        /\ Buffers'[f] \cup {b} = Buffers[f] /\ b \notin Buffers'[f]
    BY <1>2, <1>5, BytesNat DEF QInv, TypeOK
  <2>2. IsFiniteSet(Buffers'[f]) /\ Cardinality(Buffers'[f]) = Cardinality(Buffers[f]) - 1
    BY <1>2, <1>5, <2>1, FS_RemoveElement
  <2>3. Bytes(Buffers[f]) = Bytes(Buffers'[f]) + n /\ Bytes(Buffers'[f]) \in Nat
    BY <1>3, <2>1, <2>2, BytesOf
  <2> QED BY <2>2, <2>3
<1>9. \A g \in Files :
        /\ Due(pc[t], PointsOf(g, t), size[t]) = 0 /\ Due(pc[t], PointsOf(g, t), 1) = 0
        /\ Due("uncharge", PointsOf(g, t), n) = IF g = f THEN n ELSE 0
        /\ Due("uncharge", PointsOf(g, t), 1) = IF g = f THEN 1 ELSE 0
  BY <1>1 DEF Due, PointsOf, FilePoints, Stages, Kinds
<1>10. Due(pc[t], DriverPoints, size[t]) = 0 /\ Due("uncharge", DriverPoints, n) = n
  BY DEF Due, DriverPoints, Stages, Kinds
<1>11. \A g \in Files : /\ Bytes(Buffers[g]) \in Nat /\ Cardinality(Buffers[g]) \in Nat
  BY BytesNat
<1>12. BooksMove(t, "uncharge", n)
  <2>1. ASSUME NEW g \in Files
        PROVE  /\ AllocatedBytes'[g] = AllocatedBytes[g]
                    + (Bytes(Buffers'[g]) - Bytes(Buffers[g]))
                    + (Due("uncharge", PointsOf(g, t), n) - Due(pc[t], PointsOf(g, t), size[t]))
               /\ BufferCount'[g] = BufferCount[g]
                    + (Cardinality(Buffers'[g]) - Cardinality(Buffers[g]))
                    + (Due("uncharge", PointsOf(g, t), 1) - Due(pc[t], PointsOf(g, t), 1))
    <3>1. CASE g = f
      BY <1>0, <1>8, <1>9, <1>11, <3>1
    <3>2. CASE g # f
      BY <1>0, <1>5, <1>9, <1>11, <3>2
    <3> QED BY <3>1, <3>2
  <2>2. total' = total + (Bytes(Listed') - Bytes(Listed))
                  + (Due("uncharge", DriverPoints, n) - Due(pc[t], DriverPoints, size[t]))
    BY <1>0, <1>7, <1>10
  <2> QED BY <2>1, <2>2 DEF BooksMove
<1> QED BY <1>4, <1>7, <1>12, ChMoves

\* Initialising a context changes nothing: its books are empty already.
LEMMA ChCtxInit ==
    ASSUME QInv, QInv', CtxInv, ChInv, NEW t \in Threads, FileCtxInit(t)
    PROVE  ChInv'
<1>1. PICK f \in Files : f = FileOf[t]
  BY FileOfType
<1>2. Device[f] = "sentinel" /\ Buffers[f] = {}
  BY <1>1 DEF FileCtxInit, CtxInv
<1>3. FileCharged(f) = {}
  BY <1>1, <1>2 DEF FileCharged, CtxInv, AtWork
<1>4. Bytes({}) = 0 /\ Sizes({}) = 0
  <2>1. \A w : Sum(w, {}) = 0
    BY FS_EmptySet, SumUnfolds
  <2> QED BY <2>1 DEF Bytes, Sizes, Sum
<1>5. AllocatedBytes[f] = 0 /\ BufferCount[f] = 0
  <2>1. /\ AllocatedBytes[f] = Bytes(Buffers[f]) + Sizes(FileCharged(f))
        /\ BufferCount[f] = Cardinality(Buffers[f]) + Cardinality(FileCharged(f))
    BY DEF ChInv, ChargesAgree
  <2> QED BY <1>2, <1>3, <1>4, <2>1, FS_EmptySet
<1>6. UNCHANGED <<Buffers, AllocatedBytes, BufferCount, total>>
  BY <1>1, <1>2, <1>5 DEF FileCtxInit, QInv, TypeOK
<1>7. /\ size' = [size EXCEPT ![t] = size[t]] /\ size[t] \in Nat /\ Goto(t, "publish")
      /\ pc[t] = "init"
  BY DEF FileCtxInit, QInv, TypeOK
<1>8. /\ "publish" \in FilePoints <=> pc[t] \in FilePoints
      /\ "publish" \in DriverPoints <=> pc[t] \in DriverPoints
  BY <1>7 DEF FilePoints, DriverPoints, Stages, Kinds
<1> QED BY <1>6, <1>7, <1>8, ChKeeps

\* Steps that leave size, lists and charges alone.
LEMMA ChQuiet ==
    ASSUME QInv, QInv', ChInv, NEW t \in Threads, NEW l, Goto(t, l), size' = size,
           UNCHANGED <<Buffers, AllocatedBytes, BufferCount, total>>,
           l \in FilePoints <=> pc[t] \in FilePoints, l \in DriverPoints <=> pc[t] \in DriverPoints
    PROVE  ChInv'
<1>1. size' = [size EXCEPT ![t] = size[t]] /\ size[t] \in Nat
  BY DEF QInv, TypeOK
<1> QED BY <1>1, ChKeeps

LEMMA ChAlloc ==
    ASSUME QInv, QInv', ChInv, NEW t \in Threads,
           \/ AllocStart(t) \/ Claim(t) \/ Publish(t) \/ Spin(t) \/ ReserveRead(t)
           \/ Acquire(t) \/ AcquireNode(t) \/ AcquireFails(t)
    PROVE  ChInv'
<1> USE DEF ctxVars
<1>1. CASE AllocStart(t)
  <2>1. PICK n \in Requests : AllocStart(t)!(n)
    BY <1>1 DEF AllocStart
  <2>2. PICK m \in Nat : m = IF SizeValid(n) THEN RoundSize(n) ELSE 0
    BY RoundNat, PoolAssumption
  <2>3. PICK l \in {"claim", "reserve"} : Goto(t, l)
    BY <2>1
  <2>4. /\ size' = [size EXCEPT ![t] = m] /\ pc[t] = "idle"
        /\ UNCHANGED <<Buffers, AllocatedBytes, BufferCount, total>>
    BY <2>1, <2>2 DEF MayEnter
  <2>5. {l, pc[t]} \cap (FilePoints \cup DriverPoints) = {}
    BY <2>3, <2>4 DEF FilePoints, DriverPoints, Stages, Kinds
  <2>6. /\ l \in FilePoints <=> pc[t] \in FilePoints
        /\ l \in DriverPoints <=> pc[t] \in DriverPoints
        /\ l \notin FilePoints \cup DriverPoints
    BY <2>5
  <2> QED BY <2>2, <2>3, <2>4, <2>6, ChKeeps
<1>2. CASE Claim(t) \/ Publish(t) \/ Spin(t) \/ ReserveRead(t)
  <2>1. PICK l : Goto(t, l) /\ (\/ l \in {"init", "spin", "idle", "reserve"}
                                     /\ pc[t] \in {"claim", "publish", "spin"}
                                \/ l \in {"rollback", "swap"} /\ pc[t] = "global")
    BY <1>2 DEF Claim, Publish, Spin, ReserveRead, ToReserve
  <2>2. size' = size /\ UNCHANGED <<Buffers, AllocatedBytes, BufferCount, total>>
    BY <1>2 DEF Claim, Publish, Spin, ReserveRead
  <2>3. /\ l \in FilePoints <=> pc[t] \in FilePoints
        /\ l \in DriverPoints <=> pc[t] \in DriverPoints
    BY <2>1 DEF FilePoints, DriverPoints, Stages, Kinds
  <2> QED BY <2>1, <2>2, <2>3, ChQuiet
<1>3. CASE Acquire(t) \/ AcquireNode(t) \/ AcquireFails(t)
  <2>1. PICK l \in Stages \cup {"insert", "uncharge"} : Goto(t, l) /\ pc[t] \in Stages
    BY <1>3 DEF Acquire, AcquireNode, AcquireFails, After, Stages, Kinds
  <2>2. size' = size /\ UNCHANGED <<Buffers, AllocatedBytes, BufferCount, total>>
    BY <1>3 DEF Acquire, AcquireNode, AcquireFails
  <2>3. /\ l \in FilePoints <=> pc[t] \in FilePoints
        /\ l \in DriverPoints <=> pc[t] \in DriverPoints
    BY <2>1 DEF FilePoints, DriverPoints
  <2> QED BY <2>1, <2>2, <2>3, ChQuiet
<1> QED BY <1>1, <1>2, <1>3

LEMMA ChFree ==
    ASSUME QInv, QInv', CInv, ChInv, NEW t \in Threads,
           FreeStart(t) \/ FreeOne(t) \/ Close(t) \/ Unlink(t) \/ FreeAll(t)
    PROVE  ChInv'
<1> USE DEF ctxVars
<1>1. CASE \E b \in Buffers[FileOf[t]] : Take(t, b) /\ (Unlink(t) \/ FreeAll(t))
  <2>1. pc[t] \in {"unlink", "drain"} /\ UNCHANGED <<AllocatedBytes, BufferCount, total>>
    BY <1>1 DEF Unlink, FreeAll
  <2> QED BY <1>1, <2>1, ChTake
<1>2. CASE ~\E b \in Buffers[FileOf[t]] : Take(t, b) /\ (Unlink(t) \/ FreeAll(t))
  <2>1. PICK l \in {"unlink", "drain", "idle"} : Goto(t, l)
    BY <1>2 DEF FreeStart, FreeOne, Close, Unlink, FreeAll
  <2>2. /\ size' = size /\ UNCHANGED <<Buffers, AllocatedBytes, BufferCount, total>>
        /\ pc[t] \in {"idle", "teardown", "unlink", "drain"}
    BY <1>2 DEF FreeStart, FreeOne, Close, Unlink, FreeAll, MayEnter
  <2>3. /\ l \in FilePoints <=> pc[t] \in FilePoints
        /\ l \in DriverPoints <=> pc[t] \in DriverPoints
    BY <2>1, <2>2 DEF FilePoints, DriverPoints, Stages, Kinds
  <2> QED BY <2>1, <2>2, <2>3, ChQuiet
<1> QED BY <1>1, <1>2

LEMMA ChNext == QInv /\ QInv' /\ CInv /\ CtxInv /\ OwnInv /\ ChInv /\ [Next]_vars => ChInv'
<1> SUFFICES ASSUME QInv, QInv', CInv, CtxInv, OwnInv, ChInv, [Next]_vars PROVE ChInv'
  OBVIOUS
<1>1. CASE UNCHANGED vars
  BY <1>1 DEF ChInv, ChargesAgree, Listed, Charged, FileCharged, Bytes, Sizes, vars, ctxVars
<1>2. ASSUME NEW t \in Threads, AllocStep(t) PROVE ChInv'
  BY <1>2, ChAlloc, ChCtxInit, ChReserveFile, ChReserveSwap, ChUncharge, ChInsert DEF AllocStep
<1>3. ASSUME NEW t \in Threads, FreeStep(t) PROVE ChInv'
  BY <1>3, ChFree, ChUncharge, ChReleaseGlobal DEF FreeStep
<1> QED BY <1>1, <1>2, <1>3 DEF Next

\* What a file and the driver are charged is, at every step, what the listed
\* buffers and the requests under way account for (ChargesAgree): no release is
\* lost, doubled or clamped, whatever reservations, failures, frees and closes
\* race, as long as no request begins while its file's context is being
\* initialised.
THEOREM BooksBalance == Apart => (Spec => []ChargesAgree)
<1> SUFFICES ASSUME Apart PROVE Spec => []ChargesAgree
  OBVIOUS
<1>1. ChInv => ChargesAgree
  BY DEF ChInv
<1>2. Init => QInv /\ CInv /\ CtxInv /\ OwnInv /\ ChInv
  BY QInit, CInit, CtxInit, OwnInit, ChInit
<1>3. QInv /\ CInv /\ CtxInv /\ OwnInv /\ ChInv /\ [Next]_vars
        => (QInv /\ CInv /\ CtxInv /\ OwnInv /\ ChInv)'
  BY QNext, CNext, CtxNext, OwnNext, ChNext
<1> QED BY <1>1, <1>2, <1>3, PTL DEF Spec
=============================================================================
