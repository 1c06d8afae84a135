----------------------------- MODULE BufferPool -----------------------------
(***************************************************************************)
(* The DMA buffer pool (driver/shared/rkmpp/bufpool.c) with its entries in *)
(* ioctl.c: ALLOC_BUFFER, FREE_BUFFER and the freeing of a file's buffers  *)
(* when its handle is closed.                                              *)
(*                                                                         *)
(* A step is one hold of the file's spin lock, one interlocked access to   *)
(* the driver's byte count, one access to the file context's Device, or    *)
(* the acquisition of one resource.  live is the kernel's side: how many   *)
(* allocations, MDLs, IOMMU and user mappings exist.  Whether a job uses a *)
(* buffer is RkvdecJobs' business; here FREE_BUFFER may find it busy.      *)
(***************************************************************************)
EXTENDS Integers, FiniteSets, Functions

CONSTANTS
    Files, Threads, FileOf,  \* handles, user threads, the handle each one uses
    Requests,                \* the sizes ALLOC_BUFFER is called with
    PageSize,                \* PAGE_SIZE
    MaxBufferBytes,          \* RKMPP_MAX_BUFFER_BYTES
    MaxFileBytes,            \* RKMPP_MAX_FILE_BYTES
    MaxGlobalBytes,          \* RKMPP_MAX_GLOBAL_BYTES
    MaxFileBufferCount,      \* RKMPP_MAX_FILE_BUFFER_COUNT
    MaxCookie,               \* bound: no ALLOC_BUFFER begins after this cookie
    Overlap                  \* what else requests of one file may overlap

ASSUME PoolAssumption ==
    /\ FileOf \in [Threads -> Files]
    /\ Requests \subseteq Nat
    /\ PageSize \in Nat \ {0}
    /\ {MaxBufferBytes, MaxFileBytes, MaxGlobalBytes, MaxFileBufferCount, MaxCookie} \subseteq Nat
    /\ MaxBufferBytes <= MaxFileBytes
    /\ Overlap \subseteq {"sentinel", "close"}

VARIABLES
    Device,          \* RKMPP_FILE_CTX.Device: null, the sentinel, or ready
    Buffers,         \* its list: records of cookie and size
    AllocatedBytes,  \* its charge ...
    BufferCount,     \* ... in bytes and buffers
    total,           \* g_totalAllocatedBytes
    nextCookie,      \* g_nextCookie
    live,            \* the kernel resources that exist, by kind
    closing,         \* the threads that have closed their handle
    pc,              \* where each thread is
    size,            \* the size of the buffer it makes or frees
    snap,            \* the total it has read
    own              \* the cookie of the buffer it inserts or frees, or 0

ctxVars == <<Device, Buffers, AllocatedBytes, BufferCount>>
vars == <<ctxVars, total, nextCookie, live, closing, pc, size, snap, own>>

Kinds  == {"mem", "mdl", "iova", "va"}
Stages == Kinds \cup {"node"}
Points == Stages \cup {"idle", "claim", "init", "publish", "spin", "reserve", "global", "swap",
                       "rollback", "insert", "unlink", "drain", "uncharge", "return", "teardown"}

Buffer == [cookie : Nat, size : Nat]

TypeOK ==
    /\ Device \in [Files -> {"null", "sentinel", "ready"}]
    /\ Buffers \in [Files -> SUBSET Buffer]
    /\ AllocatedBytes \in [Files -> Nat] /\ BufferCount \in [Files -> Nat]
    /\ total \in Int
    /\ nextCookie \in Nat
    /\ live \in [Kinds -> Int]
    /\ closing \subseteq Threads
    /\ pc \in [Threads -> Points]
    /\ size \in [Threads -> Nat] /\ snap \in [Threads -> Int]
    /\ own \in [Threads -> Nat]

\* The file contexts come zeroed from the framework.
Init ==
    /\ Device = [f \in Files |-> "null"]
    /\ Buffers = [f \in Files |-> {}]
    /\ AllocatedBytes = [f \in Files |-> 0] /\ BufferCount = [f \in Files |-> 0]
    /\ total = 0 /\ nextCookie = 1
    /\ live = [k \in Kinds |-> 0]
    /\ closing = {}
    /\ pc = [t \in Threads |-> "idle"]
    /\ size = [t \in Threads |-> 0] /\ snap = [t \in Threads |-> 0]
    /\ own = [t \in Threads |-> 0]

Goto(t, l) == pc' = [pc EXCEPT ![t] = l]

\* The request ends and its locals with it.
Finish(t) == Goto(t, "idle") /\ size' = [size EXCEPT ![t] = 0]

IsOpen(f) == \A t \in closing : FileOf[t] # f

OthersIdle(t) == \A u \in Threads \ {t} : FileOf[u] = FileOf[t] => pc[u] = "idle"

\* A request on an open handle.  The queue is parallel, so requests of one
\* file overlap; Overlap says whether one may begin while another initialises
\* the file's context.
MayEnter(t) ==
    /\ pc[t] = "idle" /\ IsOpen(FileOf[t])
    /\ Device[FileOf[t]] # "sentinel" \/ "sentinel" \in Overlap

-----------------------------------------------------------------------------
(***************************************************************************)
(* ALLOC_BUFFER: the file context on first use, the quotas, the resources. *)
(***************************************************************************)

\* RkMppBufRoundSize, for a size it accepts.
RoundSize(n) == ((n + PageSize - 1) \div PageSize) * PageSize

SizeValid(n) == n # 0 /\ n <= MaxBufferBytes /\ RoundSize(n) <= MaxBufferBytes

\* The first test of Device.  A request that RkMppBufRoundSize refuses still
\* initialises the context; it ends here when there is nothing to initialise.
AllocStart(t) ==
    \E n \in Requests :
        /\ MayEnter(t)
        /\ nextCookie < MaxCookie
        /\ SizeValid(n) \/ Device[FileOf[t]] = "null"
        /\ size' = [size EXCEPT ![t] = IF SizeValid(n) THEN RoundSize(n) ELSE 0]
        /\ Goto(t, IF Device[FileOf[t]] = "null" THEN "claim" ELSE "reserve")
        /\ UNCHANGED <<ctxVars, total, nextCookie, live, closing, snap, own>>

\* The interlocked claim of the right to initialise.
Claim(t) ==
    LET f == FileOf[t] IN
    /\ pc[t] = "claim"
    /\ IF Device[f] = "null"
       THEN Device' = [Device EXCEPT ![f] = "sentinel"] /\ Goto(t, "init")
       ELSE UNCHANGED Device /\ Goto(t, "spin")
    /\ UNCHANGED <<Buffers, AllocatedBytes, BufferCount, total, nextCookie, live, closing, size,
                   snap, own>>

\* RkMppBufFileCtxInit by the winner.
FileCtxInit(t) ==
    LET f == FileOf[t] IN
    /\ pc[t] = "init"
    /\ Buffers' = [Buffers EXCEPT ![f] = {}]
    /\ AllocatedBytes' = [AllocatedBytes EXCEPT ![f] = 0]
    /\ BufferCount' = [BufferCount EXCEPT ![f] = 0]
    /\ Goto(t, "publish")
    /\ UNCHANGED <<Device, total, nextCookie, live, closing, size, snap, own>>

\* To the quotas, or out with STATUS_INVALID_PARAMETER.
ToReserve(t) == Goto(t, IF size[t] = 0 THEN "idle" ELSE "reserve")

Publish(t) ==
    /\ pc[t] = "publish"
    /\ Device' = [Device EXCEPT ![FileOf[t]] = "ready"]
    /\ ToReserve(t)
    /\ UNCHANGED <<Buffers, AllocatedBytes, BufferCount, total, nextCookie, live, closing, size,
                   snap, own>>

\* A loser of the claim waits for the real Device.
Spin(t) ==
    /\ pc[t] = "spin" /\ Device[FileOf[t]] = "ready"
    /\ ToReserve(t)
    /\ UNCHANGED <<ctxVars, total, nextCookie, live, closing, size, snap, own>>

OverQuota(f, n) ==
    BufferCount[f] >= MaxFileBufferCount \/ AllocatedBytes[f] > MaxFileBytes - n

\* The file's part of RkMppBufReserveQuota, in one hold of its lock.
ReserveFile(t) ==
    LET f == FileOf[t] IN
    /\ pc[t] = "reserve"
    /\ IF OverQuota(f, size[t])
       THEN UNCHANGED <<AllocatedBytes, BufferCount>> /\ Finish(t)
       ELSE /\ AllocatedBytes' = [AllocatedBytes EXCEPT ![f] = @ + size[t]]
            /\ BufferCount' = [BufferCount EXCEPT ![f] = @ + 1]
            /\ Goto(t, "global") /\ UNCHANGED size
    /\ UNCHANGED <<Device, Buffers, total, nextCookie, live, closing, snap, own>>

\* The driver's part: read the total and test ...
ReserveRead(t) ==
    /\ pc[t] = "global"
    /\ IF total + size[t] > MaxGlobalBytes
       THEN UNCHANGED snap /\ Goto(t, "rollback")
       ELSE snap' = [snap EXCEPT ![t] = total] /\ Goto(t, "swap")
    /\ UNCHANGED <<ctxVars, total, nextCookie, live, closing, size, own>>

\* Mutant: the addition that the compare-exchange replaced.
ReserveAdd(t) ==
    /\ pc[t] = "swap"
    /\ total' = total + size[t]
    /\ snap' = [snap EXCEPT ![t] = 0]
    /\ Goto(t, "mem")
    /\ UNCHANGED <<ctxVars, nextCookie, live, closing, size, own>>

\* ... then swap, or start again when somebody was faster.
ReserveSwap(t) ==
    /\ pc[t] = "swap"
    /\ IF total = snap[t]
       THEN total' = snap[t] + size[t] /\ Goto(t, "mem")
       ELSE UNCHANGED total /\ Goto(t, "global")
    /\ snap' = [snap EXCEPT ![t] = 0]
    /\ UNCHANGED <<ctxVars, nextCookie, live, closing, size, own>>

\* Mutant: the count is not given back.
UnchargeBytes(f, n) ==
    /\ AllocatedBytes' = [AllocatedBytes EXCEPT ![f] = IF @ >= n THEN @ - n ELSE 0]
    /\ UNCHANGED BufferCount

\* The file's charge is given back, clamped.
Uncharge(f, n) ==
    /\ AllocatedBytes' = [AllocatedBytes EXCEPT ![f] = IF @ >= n THEN @ - n ELSE 0]
    /\ BufferCount' = [BufferCount EXCEPT ![f] = IF @ > 0 THEN @ - 1 ELSE 0]

ReserveRollback(t) ==
    /\ pc[t] = "rollback"
    /\ Uncharge(FileOf[t], size[t])
    /\ Finish(t)
    /\ UNCHANGED <<Device, Buffers, total, nextCookie, live, closing, snap, own>>

\* What RkMppBufAlloc takes next, and what it gives back when it cannot.
After == [mem |-> "mdl", mdl |-> "iova", iova |-> "va", va |-> "node"]

\* Mutant: the IOMMU mapping is left behind when the user mapping fails.
UndoKeepsIova(s) ==
    CASE s = "mem" -> {} [] s = "mdl" -> {"mem"} [] s = "iova" -> {"mem", "mdl"}
      [] s = "va" -> {"mem", "mdl"} [] s = "node" -> Kinds

Undo(s) ==
    CASE s = "mem" -> {} [] s = "mdl" -> {"mem"} [] s = "iova" -> {"mem", "mdl"}
      [] s = "va" -> {"mem", "mdl", "iova"} [] s = "node" -> Kinds

Release(kinds) == live' = [k \in Kinds |-> IF k \in kinds THEN live[k] - 1 ELSE live[k]]

\* One resource of the buffer: contiguous memory, its MDL, the IOMMU mapping,
\* the user mapping.
Acquire(t) ==
    /\ pc[t] \in Kinds
    /\ live' = [live EXCEPT ![pc[t]] = @ + 1]
    /\ Goto(t, After[pc[t]])
    /\ UNCHANGED <<ctxVars, total, nextCookie, closing, size, snap, own>>

\* The cookie, then the node that is to carry it.
AcquireNode(t) ==
    /\ pc[t] = "node"
    /\ nextCookie' = nextCookie + 1
    /\ \/ own' = [own EXCEPT ![t] = nextCookie'] /\ Goto(t, "insert") /\ UNCHANGED live
       \/ Release(Undo("node")) /\ Goto(t, "uncharge") /\ UNCHANGED own
    /\ UNCHANGED <<ctxVars, total, closing, size, snap>>

\* No memory, or the IOMMU refuses: undo, then RkMppBufReleaseQuota.
AcquireFails(t) ==
    /\ pc[t] \in Kinds
    /\ Release(Undo(pc[t]))
    /\ Goto(t, "uncharge")
    /\ UNCHANGED <<ctxVars, total, nextCookie, closing, size, snap, own>>

Insert(t) ==
    LET f == FileOf[t] IN
    /\ pc[t] = "insert"
    /\ Buffers' = [Buffers EXCEPT ![f] = @ \cup {[cookie |-> own[t], size |-> size[t]]}]
    /\ own' = [own EXCEPT ![t] = 0]
    /\ Finish(t)
    /\ UNCHANGED <<Device, AllocatedBytes, BufferCount, total, nextCookie, live, closing, snap>>

-----------------------------------------------------------------------------
(***************************************************************************)
(* FREE_BUFFER and the closing of the handle.                              *)
(***************************************************************************)

\* FREE_BUFFER on a file that has a Device.
FreeStart(t) ==
    /\ MayEnter(t)
    /\ Device[FileOf[t]] # "null"
    /\ Goto(t, "unlink")
    /\ UNCHANGED <<ctxVars, total, nextCookie, live, closing, size, snap, own>>

\* Mutant: the buffer stays on the list.
TakeCopies(t, b) ==
    /\ own' = [own EXCEPT ![t] = b.cookie]
    /\ size' = [size EXCEPT ![t] = b.size]
    /\ Goto(t, "uncharge")
    /\ UNCHANGED Buffers

\* Buffer b leaves the list.
Take(t, b) ==
    /\ Buffers' = [Buffers EXCEPT ![FileOf[t]] = @ \ {b}]
    /\ own' = [own EXCEPT ![t] = b.cookie]
    /\ size' = [size EXCEPT ![t] = b.size]
    /\ Goto(t, "uncharge")

\* RkMppBufFreeIfNotInUse under the lock: found and not in use, or not.
Unlink(t) ==
    /\ pc[t] = "unlink"
    /\ \/ \E b \in Buffers[FileOf[t]] : Take(t, b)
       \/ UNCHANGED <<Buffers, own, size>> /\ Goto(t, "idle")
    /\ UNCHANGED <<Device, AllocatedBytes, BufferCount, total, nextCookie, live, closing, snap>>

\* RkMppBufReleaseQuota: the file's charge, then the driver's.
ReleaseFile(t) ==
    /\ pc[t] = "uncharge"
    /\ Uncharge(FileOf[t], size[t])
    /\ Goto(t, "return")
    /\ UNCHANGED <<Device, Buffers, total, nextCookie, live, closing, size, snap, own>>

ReleaseGlobal(t) ==
    /\ pc[t] = "return"
    /\ total' = total - size[t]
    /\ Goto(t, IF own[t] # 0 THEN "teardown" ELSE "idle")
    /\ size' = [size EXCEPT ![t] = 0]
    /\ UNCHANGED <<ctxVars, nextCookie, live, closing, snap, own>>

\* RkMppBufFreeOne; a closing handle goes on with the next buffer.
FreeOne(t) ==
    /\ pc[t] = "teardown"
    /\ Release(Kinds)
    /\ own' = [own EXCEPT ![t] = 0]
    /\ Goto(t, IF t \in closing THEN "drain" ELSE "idle")
    /\ UNCHANGED <<ctxVars, total, nextCookie, closing, size, snap>>

\* EvtFileCleanup.  For a handle opened without FILE_FLAG_OVERLAPPED the I/O
\* manager keeps it apart from the handle's requests.
Close(t) ==
    /\ pc[t] = "idle" /\ IsOpen(FileOf[t])
    /\ OthersIdle(t) \/ "close" \in Overlap
    /\ closing' = closing \cup {t}
    /\ Goto(t, IF Device[FileOf[t]] = "null" THEN "idle" ELSE "drain")
    /\ UNCHANGED <<ctxVars, total, nextCookie, live, size, snap, own>>

\* RkMppBufFreeAll, one buffer at a time (in list order, which nothing sees).
FreeAll(t) ==
    LET f == FileOf[t] IN
    /\ pc[t] = "drain"
    /\ \/ \E b \in Buffers[f] : Take(t, b)
       \/ Buffers[f] = {} /\ UNCHANGED <<Buffers, own, size>> /\ Goto(t, "idle")
    /\ UNCHANGED <<Device, AllocatedBytes, BufferCount, total, nextCookie, live, closing, snap>>

-----------------------------------------------------------------------------
AllocStep(t) ==
    \/ AllocStart(t) \/ Claim(t) \/ FileCtxInit(t) \/ Publish(t) \/ Spin(t)
    \/ ReserveFile(t) \/ ReserveRead(t) \/ ReserveSwap(t) \/ ReserveRollback(t)
    \/ Acquire(t) \/ AcquireNode(t) \/ AcquireFails(t) \/ Insert(t)

FreeStep(t) ==
    \/ FreeStart(t) \/ Unlink(t) \/ ReleaseFile(t) \/ ReleaseGlobal(t) \/ FreeOne(t)
    \/ Close(t) \/ FreeAll(t)

Next == \E t \in Threads : AllocStep(t) \/ FreeStep(t)

Spec == Init /\ [][Next]_vars

-----------------------------------------------------------------------------
(***************************************************************************)
(* Properties.                                                             *)
(***************************************************************************)

\* Neither the driver's nor a file's quota is ever exceeded, not even while
\* reservations race (the compare-exchange loop of RkMppBufReserveQuota).
QuotaBound ==
    /\ total <= MaxGlobalBytes
    /\ \A f \in Files : AllocatedBytes[f] <= MaxFileBytes /\ BufferCount[f] <= MaxFileBufferCount

\* The threads whose buffer is charged to the file, and to the driver.
FileCharged(f) ==
    {t \in Threads : FileOf[t] = f /\ pc[t] \in Stages \cup {"global", "swap", "rollback", "insert",
                                                             "uncharge"}}
Charged ==
    {t \in Threads : pc[t] \in Stages \cup {"insert", "uncharge", "return"}}

Bytes(bs) == SumFunctionOnSet([b \in bs |-> b.size], bs)
Sizes(ts) == SumFunctionOnSet(size, ts)

Listed == UNION {Buffers[f] : f \in Files}

\* The books balance at every step: what a file and the driver are charged is
\* what their listed buffers and the requests under way account for.  A lost
\* or doubled release would use the quota up, or let it be exceeded.
ChargesAgree ==
    /\ \A f \in Files :
          /\ AllocatedBytes[f] = Bytes(Buffers[f]) + Sizes(FileCharged(f))
          /\ BufferCount[f] = Cardinality(Buffers[f]) + Cardinality(FileCharged(f))
    /\ total = Bytes(Listed) + Sizes(Charged)

\* The threads that hold a resource of kind k for a buffer off the lists.
Holders(k) ==
    {t \in Threads :
        \/ own[t] # 0
        \/ pc[t] = "node"
        \/ pc[t] = "va" /\ k # "va"
        \/ pc[t] = "iova" /\ k \in {"mem", "mdl"}
        \/ pc[t] = "mdl" /\ k = "mem"}

\* Every kernel resource belongs to a listed buffer or to the request that is
\* making or freeing it: none leaks on an error path, none is released twice.
NoResourceLost ==
    \A k \in Kinds : live[k] = Cardinality(Listed) + Cardinality(Holders(k))

\* A buffer is on one list or being freed by one request: two FREE_BUFFER of
\* one cookie, or one and the closing of the handle, do not both free it.
FreedOnce ==
    \A t \in Threads : own[t] # 0 =>
        /\ \A b \in Listed : b.cookie # own[t]
        /\ \A u \in Threads \ {t} : own[u] # own[t]

\* No request uses a file context before it is initialised: the list head and
\* the counters that RkMppBufFileCtxInit would overwrite.
CtxReady ==
    \A t \in Threads : pc[t] \in {"reserve", "insert", "unlink", "drain"} =>
        Device[FileOf[t]] = "ready"
=============================================================================
