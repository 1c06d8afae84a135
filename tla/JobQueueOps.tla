---------------------------- MODULE JobQueueOps ----------------------------
(***************************************************************************)
(* The queue record of driver/rkvdec/job.h and the dispatch policy of      *)
(* driver/rkvdec/job.c: which pending job is promoted, to which core, and  *)
(* what a promotion changes.  Everything here runs under RKMPP_JOB_QUEUE's *)
(* Lock, so an operator is a function from queue records to queue records. *)
(*                                                                         *)
(* A linked list is a set here: Pending is the set of its jobs, and        *)
(* Arrival[j], a number that grows with every insertion at the tail, gives *)
(* j's place in list order (0 when j is not on the list).  The order of    *)
(* Completed is never used by the code, so it has no such numbers.         *)
(***************************************************************************)
EXTENDS Integers, Sequences, FiniteSets

CONSTANTS
    Files,      \* open file objects: one per decode session
    MaxJobs,    \* bound on RKMPP_JOB_QUEUE.NextId
    LruSize     \* ARRAYSIZE(OwnerLru): 4 in the code

ASSUME OpsAssumption ==
    /\ MaxJobs \in Nat \ {0}
    /\ LruSize \in Nat \ {0}
    /\ "nofile" \notin Files

NoFile == "nofile"
NoJob  == 0
JobId  == 1 .. MaxJobs
Cores  == 0 .. 1           \* 0: RVD0 itself, 1: the peer RVD1
Slots  == 1 .. LruSize

LruEntry == [File : Files \cup {NoFile}, LastKickId : 0 .. MaxJobs]

(***************************************************************************)
(* RKMPP_JOB_QUEUE: the fields that Lock protects.                         *)
(***************************************************************************)
QueueType ==
    [Pending      : SUBSET JobId,
     Arrival      : [JobId -> Nat],
     Inserted     : Nat,
     Completed    : SUBSET JobId,
     InFlight     : [Cores -> JobId \cup {NoJob}],
     CoreCount    : 1 .. 2,
     CoreIdle     : SUBSET Cores,
     CorePending  : [Cores -> Nat],
     LastKickCore : {-1} \cup Cores,
     OwnerLru     : [Slots -> LruEntry],
     PeerOpen     : BOOLEAN,
     KickActive   : BOOLEAN,
     KickRearm    : BOOLEAN]

\* RkMppJobQueueInit.
RkMppJobQueueInit ==
    [Pending      |-> {},
     Arrival      |-> [j \in JobId |-> 0],
     Inserted     |-> 0,
     Completed    |-> {},
     InFlight     |-> [c \in Cores |-> NoJob],
     CoreCount    |-> 1,
     CoreIdle     |-> {0},
     CorePending  |-> [c \in Cores |-> 0],
     LastKickCore |-> -1,
     OwnerLru     |-> [i \in Slots |-> [File |-> NoFile, LastKickId |-> 0]],
     PeerOpen     |-> FALSE,
     KickActive   |-> FALSE,
     KickRearm    |-> FALSE]

\* The cores every "c < q->CoreCount" loop visits.
VisibleCores(q) == {c \in Cores : c < q.CoreCount}

\* InsertTailList on Pending.
AppendPending(q, j) ==
    [q EXCEPT !.Pending = @ \cup {j},
              !.Arrival[j] = q.Inserted + 1,
              !.Inserted = @ + 1]

\* RemoveEntryList of a set of jobs from Pending.
RemovePending(q, js) ==
    [q EXCEPT !.Pending = @ \ js,
              !.Arrival = [j \in JobId |-> IF j \in js THEN 0 ELSE q.Arrival[j]]]

\* Mutants: the core's count is not taken back; it is taken back below zero.
ReleaseSlotKeepsCount(q, core) ==
    [q EXCEPT !.InFlight[core] = NoJob, !.CoreIdle = @ \cup {core}]

ReleaseSlotUnclamped(q, core) ==
    [q EXCEPT !.InFlight[core] = NoJob, !.CoreIdle = @ \cup {core},
              !.CorePending[core] = @ - 1]

\* A queue record's in-flight slot released: the slot, its idle bit and its
\* clamped CorePending count move together in every completion path.
ReleaseSlot(q, core) ==
    [q EXCEPT !.InFlight[core] = NoJob,
              !.CoreIdle = @ \cup {core},
              !.CorePending[core] = IF @ > 0 THEN @ - 1 ELSE 0]

-----------------------------------------------------------------------------
(***************************************************************************)
(* The pick policy.                                                        *)
(***************************************************************************)

\* OwnerLru's score of a file: the id of the job it was last promoted for,
\* 0 when it is not in the table.
LruScore(q, f) ==
    IF \E i \in Slots : q.OwnerLru[i].File = f
    THEN q.OwnerLru[CHOOSE i \in Slots : q.OwnerLru[i].File = f].LastKickId
    ELSE 0

\* Job j precedes k: its owner's score is lower or, at equal scores, it is
\* nearer to the head of Pending.
PickedBefore(q, owner, j, k) ==
    \/ LruScore(q, owner[j]) < LruScore(q, owner[k])
    \/ /\ LruScore(q, owner[j]) = LruScore(q, owner[k])
       /\ q.Arrival[j] <= q.Arrival[k]

PickPendingByOwnerLru(q, owner) ==
    CHOOSE j \in q.Pending : \A k \in q.Pending : PickedBefore(q, owner, j, k)

\* The cores PickTargetCore may return; empty is its -1.
IdleCores(q) == q.CoreIdle \cap VisibleCores(q)

\* Mutant: alternates between the cores without looking at the idle mask.
PickOtherCore(q) ==
    IF q.CoreCount = 2 THEN 1 - (IF q.LastKickCore = -1 THEN 1 ELSE q.LastKickCore) ELSE 0

\* Fewest jobs first; of two cores with as many, the one not kicked last;
\* then the lower index.
PickTargetCore(q) ==
    CHOOSE c \in IdleCores(q) : \A d \in IdleCores(q) \ {c} :
        \/ q.CorePending[c] < q.CorePending[d]
        \/ /\ q.CorePending[c] = q.CorePending[d]
           /\ \/ d = q.LastKickCore
              \/ c # q.LastKickCore /\ c < d

\* The OwnerLru entry a promotion of f's job overwrites: f's own, else the
\* first of those with the lowest LastKickId.
LruSlot(lru, f) ==
    IF \E i \in Slots : lru[i].File = f
    THEN CHOOSE i \in Slots : lru[i].File = f
    ELSE CHOOSE i \in Slots : \A k \in Slots :
             \/ lru[i].LastKickId < lru[k].LastKickId
             \/ lru[i].LastKickId = lru[k].LastKickId /\ i <= k

(***************************************************************************)
(* PromoteUntilFull.  Its state p is the queue and Out[], the promotions    *)
(* made so far; the loop body runs at most CoreCount <= 2 times.            *)
(***************************************************************************)
Promotion == [job : JobId, core : Cores]

CanPromote(q) == q.Pending # {} /\ IdleCores(q) # {}

PromoteOne(p, owner) ==
    LET q == p.q
        c == PickTargetCore(q)
        j == PickPendingByOwnerLru(q, owner)
        s == LruSlot(q.OwnerLru, owner[j])
    IN  [q   |-> [RemovePending(q, {j}) EXCEPT
                     !.InFlight[c] = j,
                     !.CoreIdle = @ \ {c},
                     !.CorePending[c] = @ + 1,
                     !.LastKickCore = c,
                     !.OwnerLru[s] = [File |-> owner[j], LastKickId |-> j]],
         out |-> Append(p.out, [job |-> j, core |-> c])]

PromoteUntilFull(q, owner) ==
    LET p0 == [q |-> q, out |-> <<>>]
        p1 == IF CanPromote(q) THEN PromoteOne(p0, owner) ELSE p0
    IN  IF q.CoreCount = 2 /\ CanPromote(p1.q) THEN PromoteOne(p1, owner) ELSE p1

-----------------------------------------------------------------------------
\* RkMppJobSubmitDense's two counts: the jobs on Pending, and those of file f
\* that are on Pending or in flight on a visible core.
PendingCount(q) == Cardinality(q.Pending)

OwnerCount(q, owner, f) ==
    Cardinality({j \in q.Pending : owner[j] = f})
    + Cardinality({c \in VisibleCores(q) :
                      q.InFlight[c] # NoJob /\ owner[q.InFlight[c]] = f})

\* Mutant: no in-flight slot is searched.
BufferInUseListed(q, owner, f) ==
    \E j \in q.Pending \cup q.Completed : owner[j] = f

\* RkMppJobBufferInUse, for a buffer every job of f references.
RkMppJobBufferInUse(q, owner, f) ==
    \/ \E j \in q.Pending \cup q.Completed : owner[j] = f
    \/ \E c \in VisibleCores(q) : q.InFlight[c] # NoJob /\ owner[q.InFlight[c]] = f

\* RkMppJobQueueHasOtherOwner.
RkMppJobQueueHasOtherOwner(q, owner, f) ==
    \/ \E c \in VisibleCores(q) : q.InFlight[c] # NoJob /\ owner[q.InFlight[c]] # f
    \/ \E j \in q.Pending : owner[j] # f
=============================================================================
