-------------------------- MODULE RkvdecJobsProofs --------------------------
(***************************************************************************)
(* Theorems about RkvdecJobs, for every number of files, threads and jobs, *)
(* every environment, every kind of handle and every admission limit.      *)
(***************************************************************************)
EXTENDS RkvdecJobs, TLAPS, WellFoundedInduction, FiniteSetTheorems

-----------------------------------------------------------------------------
(***************************************************************************)
(* What the operators of JobQueueOps return, preserve and bound: the       *)
(* lemmas the proofs about RkvdecJobs rest on.                             *)
(***************************************************************************)

\* A nonempty set of naturals has a least element.
LEMMA NatMin ==
    ASSUME NEW S \in SUBSET Nat, S # {}
    PROVE  \E x \in S : \A y \in S : x <= y
<1>1. PICK x \in S : \A y \in S : ~ (<<y, x>> \in OpToRel(<, Nat))
  BY NatLessThanWellFounded, WFMin
<1>2. \A y \in S : ~ (y < x)
  BY <1>1 DEF OpToRel
<1> QED BY <1>2

\* OwnerLru scores are naturals.
LEMMA LruScoreType ==
    ASSUME NEW Q \in QueueType, NEW f
    PROVE  LruScore(Q, f) \in Nat
<1>1. \A k \in Slots : Q.OwnerLru[k].LastKickId \in Nat
  BY OpsAssumption DEF QueueType, LruEntry
<1>2. CASE \E i \in Slots : Q.OwnerLru[i].File = f
  <2> DEFINE i == CHOOSE i \in Slots : Q.OwnerLru[i].File = f
  <2>1. i \in Slots
    BY <1>2
  <2>2. Q.OwnerLru[i].LastKickId \in Nat
    BY <2>1, <1>1
  <2> QED BY <1>2, <2>2 DEF LruScore
<1>3. CASE ~ \E i \in Slots : Q.OwnerLru[i].File = f
  BY <1>3 DEF LruScore
<1> QED BY <1>2, <1>3

\* PickPendingByOwnerLru returns a job that is on Pending.
LEMMA PickPendingType ==
    ASSUME NEW Q \in QueueType, NEW owner, Q.Pending # {}
    PROVE  /\ PickPendingByOwnerLru(Q, owner) \in Q.Pending
           /\ PickPendingByOwnerLru(Q, owner) \in JobId
<1> DEFINE Score(j) == LruScore(Q, owner[j])
           Scores   == {Score(j) : j \in Q.Pending}
<1>1. \A j : Score(j) \in Nat
  BY LruScoreType
<1>2. Scores \in SUBSET Nat /\ Scores # {}
  BY <1>1
<1>3. PICK s \in Scores : \A r \in Scores : s <= r
  BY <1>2, NatMin
<1> DEFINE Best     == {j \in Q.Pending : Score(j) = s}
           Arrivals == {Q.Arrival[j] : j \in Best}
<1>4. Q.Pending \subseteq JobId /\ Q.Arrival \in [JobId -> Nat]
  BY DEF QueueType
<1>5. Arrivals \in SUBSET Nat /\ Arrivals # {}
  BY <1>3, <1>4
<1>6. PICK n \in Arrivals : \A m \in Arrivals : n <= m
  BY <1>5, NatMin
<1>7. PICK b \in Best : Q.Arrival[b] = n
  BY <1>6
<1>8. \A k \in Q.Pending : PickedBefore(Q, owner, b, k)
  <2> TAKE k \in Q.Pending
  <2>1. Score(b) <= Score(k) /\ Score(b) \in Nat /\ Score(k) \in Nat
    BY <1>1, <1>3, <1>7
  <2>2. CASE Score(b) = Score(k)
    <3>1. k \in Best
      BY <2>2, <1>7
    <3> QED BY <3>1, <2>2, <1>6, <1>7 DEF PickedBefore
  <2>3. CASE Score(b) # Score(k)
    BY <2>1, <2>3 DEF PickedBefore
  <2> QED BY <2>2, <2>3
<1>9. PickPendingByOwnerLru(Q, owner) \in Q.Pending
  BY <1>7, <1>8 DEF PickPendingByOwnerLru
<1> QED BY <1>4, <1>9

\* The owner of every job: JobQueueOps takes it as a parameter.
OwnerType == [JobId -> Files \cup {NoFile}]

\* PickTargetCore returns an idle core, when there is one.
LEMMA PickTargetType ==
    ASSUME NEW Q \in QueueType, IdleCores(Q) # {}
    PROVE  PickTargetCore(Q) \in IdleCores(Q)
<1>1. Q.CorePending \in [Cores -> Nat] /\ IdleCores(Q) \subseteq {0, 1}
  BY DEF QueueType, IdleCores, Cores
<1>2. CASE IdleCores(Q) = {0}
  BY <1>2 DEF PickTargetCore
<1>3. CASE IdleCores(Q) = {1}
  BY <1>3 DEF PickTargetCore
<1>4. CASE IdleCores(Q) = {0, 1}
  <2> DEFINE Beats(c, d) == \/ Q.CorePending[c] < Q.CorePending[d]
                            \/ /\ Q.CorePending[c] = Q.CorePending[d]
                               /\ \/ d = Q.LastKickCore
                                  \/ c # Q.LastKickCore /\ c < d
  <2>1. Beats(0, 1) \/ Beats(1, 0)
    BY <1>1 DEF Cores
  <2>2. \E c \in {0, 1} : \A d \in {0, 1} \ {c} : Beats(c, d)
    BY <2>1
  <2> QED BY <2>2, <1>4 DEF PickTargetCore
<1> QED BY <1>1, <1>2, <1>3, <1>4

\* The OwnerLru entry a promotion overwrites exists.
LEMMA LruSlotType ==
    ASSUME NEW lru \in [Slots -> LruEntry], NEW f
    PROVE  LruSlot(lru, f) \in Slots
<1>1. CASE \E i \in Slots : lru[i].File = f
  BY <1>1 DEF LruSlot
<1>2. CASE ~ \E i \in Slots : lru[i].File = f
  <2> DEFINE Kicks == {lru[i].LastKickId : i \in Slots}
  <2>1. \A i \in Slots : lru[i].LastKickId \in Nat
    BY OpsAssumption DEF LruEntry
  <2>2. Kicks \in SUBSET Nat /\ Kicks # {} /\ Slots \subseteq Nat
    BY <2>1, OpsAssumption DEF Slots
  <2>3. PICK n \in Kicks : \A m \in Kicks : n <= m
    BY <2>2, NatMin
  <2> DEFINE Oldest == {i \in Slots : lru[i].LastKickId = n}
  <2>4. Oldest \in SUBSET Nat /\ Oldest # {}
    BY <2>2, <2>3
  <2>5. PICK b \in Oldest : \A k \in Oldest : b <= k
    BY <2>4, NatMin
  <2>6. \A k \in Slots : \/ lru[b].LastKickId < lru[k].LastKickId
                         \/ lru[b].LastKickId = lru[k].LastKickId /\ b <= k
    BY <2>1, <2>3, <2>5
  <2> QED BY <1>2, <2>5, <2>6 DEF LruSlot
<1> QED BY <1>1, <1>2

-----------------------------------------------------------------------------
\* The queue updates stay within QueueType.
LEMMA AppendPendingType ==
    ASSUME NEW Q \in QueueType, NEW j \in JobId
    PROVE  AppendPending(Q, j) \in QueueType
<1>1. Q.Inserted + 1 \in Nat /\ Q.Pending \cup {j} \in SUBSET JobId
  BY DEF QueueType
<1>2. [Q.Arrival EXCEPT ![j] = Q.Inserted + 1] \in [JobId -> Nat]
  BY <1>1 DEF QueueType
<1> QED BY <1>1, <1>2 DEF AppendPending, QueueType

LEMMA RemovePendingType ==
    ASSUME NEW Q \in QueueType, NEW js
    PROVE  RemovePending(Q, js) \in QueueType
BY DEF RemovePending, QueueType

LEMMA ReleaseSlotType ==
    ASSUME NEW Q \in QueueType, NEW c \in Cores
    PROVE  ReleaseSlot(Q, c) \in QueueType
<1> DEFINE n == IF Q.CorePending[c] > 0 THEN Q.CorePending[c] - 1 ELSE 0
<1>1. [Q.InFlight EXCEPT ![c] = NoJob] \in [Cores -> JobId \cup {NoJob}]
  BY DEF QueueType
<1>2. n \in Nat
  BY DEF QueueType
<1>3. [Q.CorePending EXCEPT ![c] = n] \in [Cores -> Nat]
  BY <1>2 DEF QueueType
<1>4. Q.CoreIdle \cup {c} \in SUBSET Cores
  BY DEF QueueType
<1> QED BY <1>1, <1>3, <1>4 DEF ReleaseSlot, QueueType

\* What they leave alone of the fields the kick worker's protocol reads.
LEMMA AppendPendingFrame ==
    ASSUME NEW Q \in QueueType, NEW j
    PROVE  /\ AppendPending(Q, j).KickActive = Q.KickActive
           /\ AppendPending(Q, j).KickRearm = Q.KickRearm
BY DEF AppendPending, QueueType

LEMMA RemovePendingFrame ==
    ASSUME NEW Q \in QueueType, NEW js
    PROVE  /\ RemovePending(Q, js).KickActive = Q.KickActive
           /\ RemovePending(Q, js).KickRearm = Q.KickRearm
           /\ RemovePending(Q, js).CoreIdle = Q.CoreIdle
           /\ RemovePending(Q, js).Pending = Q.Pending \ js
BY DEF RemovePending, QueueType

LEMMA ReleaseSlotFrame ==
    ASSUME NEW Q \in QueueType, NEW c
    PROVE  /\ ReleaseSlot(Q, c).KickActive = Q.KickActive
           /\ ReleaseSlot(Q, c).KickRearm = Q.KickRearm
           /\ ReleaseSlot(Q, c).Pending = Q.Pending
           /\ ReleaseSlot(Q, c).CoreIdle = Q.CoreIdle \cup {c}
BY DEF ReleaseSlot, QueueType

-----------------------------------------------------------------------------
\* A promotion: the core it takes was idle, and nothing but the fields
\* PromoteUntilFull writes is changed.
LEMMA PromoteOneType ==
    ASSUME NEW p \in [q : QueueType, out : Seq(Promotion)], NEW owner \in OwnerType,
           CanPromote(p.q)
    PROVE  LET r == PromoteOne(p, owner) IN
           /\ r \in [q : QueueType, out : Seq(Promotion)]
           /\ r.q.CoreIdle = p.q.CoreIdle \ {PickTargetCore(p.q)}
           /\ r.q.CoreCount = p.q.CoreCount
           /\ r.q.KickActive = p.q.KickActive
           /\ r.q.KickRearm = p.q.KickRearm
<1> DEFINE Q == p.q
           c == PickTargetCore(Q)
           j == PickPendingByOwnerLru(Q, owner)
           s == LruSlot(Q.OwnerLru, owner[j])
           q1 == RemovePending(Q, {j})
           e == [File |-> owner[j], LastKickId |-> j]
<1>1. Q \in QueueType /\ p.out \in Seq(Promotion) /\ Q.Pending # {} /\ IdleCores(Q) # {}
  BY DEF CanPromote
<1>2. c \in Cores
  BY <1>1, PickTargetType DEF IdleCores, VisibleCores
<1>3. j \in JobId
  BY <1>1, PickPendingType
<1>4. s \in Slots
  BY <1>1, LruSlotType DEF QueueType
<1>5. e \in LruEntry
  BY <1>3, OpsAssumption DEF LruEntry, OwnerType, JobId
<1>6. q1 \in QueueType
  BY <1>1, RemovePendingType
<1>7. /\ q1.InFlight = Q.InFlight /\ q1.CoreIdle = Q.CoreIdle
      /\ q1.CorePending = Q.CorePending /\ q1.OwnerLru = Q.OwnerLru
      /\ q1.CoreCount = Q.CoreCount /\ q1.KickActive = Q.KickActive
      /\ q1.KickRearm = Q.KickRearm
  BY <1>1 DEF RemovePending, QueueType
<1> HIDE DEF c, j, s, q1, e
<1>8. [q1.InFlight EXCEPT ![c] = j] \in [Cores -> JobId \cup {NoJob}]
  BY <1>2, <1>3, <1>6 DEF QueueType
<1>9. [q1.CorePending EXCEPT ![c] = @ + 1] \in [Cores -> Nat]
  BY <1>2, <1>6 DEF QueueType
<1>10. [q1.OwnerLru EXCEPT ![s] = e] \in [Slots -> LruEntry]
  BY <1>4, <1>5, <1>6 DEF QueueType
<1>11. q1.CoreIdle \ {c} \in SUBSET Cores /\ c \in {-1} \cup Cores
  BY <1>2, <1>6 DEF QueueType
<1> DEFINE q2 == [q1 EXCEPT !.InFlight[c] = j, !.CoreIdle = @ \ {c},
                            !.CorePending[c] = @ + 1, !.LastKickCore = c,
                            !.OwnerLru[s] = e]
           o2 == Append(p.out, [job |-> j, core |-> c])
<1>12. q2 \in QueueType
  BY <1>6, <1>8, <1>9, <1>10, <1>11 DEF QueueType
<1>13. /\ q2.CoreIdle = q1.CoreIdle \ {c} /\ q2.CoreCount = q1.CoreCount
       /\ q2.KickActive = q1.KickActive /\ q2.KickRearm = q1.KickRearm
  BY <1>6 DEF QueueType
<1>14. o2 \in Seq(Promotion)
  BY <1>1, <1>2, <1>3 DEF Promotion
<1>15. PromoteOne(p, owner) = [q |-> q2, out |-> o2]
  BY DEF PromoteOne, c, j, s, q1, e
<1> HIDE DEF q2, o2
<1> QED BY <1>7, <1>12, <1>13, <1>14, <1>15 DEF c

\* PromoteUntilFull leaves no core idle while a job is pending, and does not
\* touch the worker's flags.
LEMMA PromoteUntilFullType ==
    ASSUME NEW Q \in QueueType, NEW owner \in OwnerType
    PROVE  LET r == PromoteUntilFull(Q, owner) IN
           /\ r.q \in QueueType /\ r.out \in Seq(Promotion)
           /\ ~ CanPromote(r.q)
           /\ r.q.CoreCount = Q.CoreCount
           /\ r.q.KickActive = Q.KickActive
           /\ r.q.KickRearm = Q.KickRearm
<1> DEFINE PType == [q : QueueType, out : Seq(Promotion)]
           p0 == [q |-> Q, out |-> <<>>]
           p1 == IF CanPromote(Q) THEN PromoteOne(p0, owner) ELSE p0
           p2 == IF Q.CoreCount = 2 /\ CanPromote(p1.q) THEN PromoteOne(p1, owner) ELSE p1
<1>1. p0 \in PType /\ p0.q = Q
  OBVIOUS
<1>2. /\ p1 \in PType /\ p1.q.CoreCount = Q.CoreCount
      /\ p1.q.KickActive = Q.KickActive /\ p1.q.KickRearm = Q.KickRearm
      /\ CanPromote(Q) => p1.q.CoreIdle = Q.CoreIdle \ {PickTargetCore(Q)}
      /\ ~CanPromote(Q) => p1.q = Q
  BY <1>1, PromoteOneType
<1> HIDE DEF p1
<1>3. /\ p2 \in PType /\ p2.q.CoreCount = Q.CoreCount
      /\ p2.q.KickActive = Q.KickActive /\ p2.q.KickRearm = Q.KickRearm
      /\ Q.CoreCount = 2 /\ CanPromote(p1.q) =>
            p2.q.CoreIdle = p1.q.CoreIdle \ {PickTargetCore(p1.q)}
      /\ ~(Q.CoreCount = 2 /\ CanPromote(p1.q)) => p2.q = p1.q
  BY <1>2, PromoteOneType
<1>4. PromoteUntilFull(Q, owner) = p2
  BY DEF PromoteUntilFull, p1
<1> HIDE DEF p2
<1>5. ~ CanPromote(p2.q)
  <2> SUFFICES ASSUME CanPromote(p2.q) PROVE FALSE
    OBVIOUS
  <2>1. p1.q \in QueueType /\ p2.q \in QueueType
    BY <1>2, <1>3
  <2>2. CASE Q.CoreCount = 2
    <3>1. CanPromote(p1.q)
      BY <2>2, <1>3
    <3>2. CanPromote(Q)
      BY <3>1, <1>2
    <3>3. PickTargetCore(Q) \in IdleCores(Q) /\ PickTargetCore(p1.q) \in IdleCores(p1.q)
      BY <3>1, <3>2, <2>1, PickTargetType DEF CanPromote
    <3>4. p2.q.CoreIdle = (Q.CoreIdle \ {PickTargetCore(Q)}) \ {PickTargetCore(p1.q)}
      BY <1>2, <1>3, <2>2, <3>1, <3>2
    <3>5. /\ PickTargetCore(Q) \in {0, 1} /\ PickTargetCore(p1.q) \in {0, 1}
          /\ PickTargetCore(Q) # PickTargetCore(p1.q)
      BY <1>2, <3>2, <3>3 DEF IdleCores, Cores, VisibleCores
    <3>6. Q.CoreIdle \subseteq {0, 1}
      BY DEF QueueType, Cores
    <3>7. p2.q.CoreIdle = {}
      BY <3>4, <3>5, <3>6
    <3> QED BY <3>7 DEF CanPromote, IdleCores
  <2>3. CASE Q.CoreCount = 1
    <3>1. p2.q = p1.q /\ CanPromote(p1.q)
      BY <2>3, <1>3
    <3>2. CanPromote(Q)
      BY <3>1, <1>2
    <3>3. PickTargetCore(Q) \in IdleCores(Q)
      BY <3>2, PickTargetType DEF CanPromote
    <3>4. IdleCores(Q) \subseteq {0} /\ IdleCores(p1.q) = {}
      BY <1>2, <2>3, <3>2, <3>3 DEF IdleCores, Cores, VisibleCores
    <3> QED BY <3>1, <3>4 DEF CanPromote
  <2>4. Q.CoreCount \in 1 .. 2
    BY DEF QueueType
  <2> QED BY <2>2, <2>3, <2>4
<1> QED BY <1>3, <1>4, <1>5
-----------------------------------------------------------------------------
(***************************************************************************)
(* The invariants of RkvdecJobs.                                           *)
(***************************************************************************)

\* An agent past the test of its promotion list still has a promotion, and a
\* submitting thread still has its job: what Head and cur are used for.
Holding ==
    /\ \A a \in Agents : pc[a] \in {"kickStart", "peerCall", "peerFailed"} => promos[a] # <<>>
    /\ \A t \in Threads : pc[t] = "enqueue" => cur[t] # NoJob

TInv == TypeOK /\ Holding

-----------------------------------------------------------------------------
(***************************************************************************)
(* Record updates stay in their types.                                     *)
(***************************************************************************)
LEMMA AgentFacts ==
    /\ Threads \subseteq Agents
    /\ {"worker", "dpc", "peer", "pnp"} \subseteq Agents
    /\ \A t \in Threads : t # "worker" /\ t # "dpc" /\ t # "peer" /\ t # "pnp"
BY JobsAssumption DEF Agents, System

LEMMA ConstantFacts ==
    /\ NoJob \notin JobId
    /\ MaxJobs \in Nat
    /\ \A t \in Threads : FileOf[t] \in Files
    /\ Freed \in JobType
    /\ \A f \in Files : NewJob(f) \in JobType
    /\ NoRecord \in JobType
<1>1. NoJob \notin JobId /\ MaxJobs \in Nat
  BY OpsAssumption DEF JobId, NoJob
<1>2. \A t \in Threads : FileOf[t] \in Files
  BY JobsAssumption
<1>3. \A f \in Files \cup {NoFile} : NewJob(f) \in JobType
  BY DEF NewJob, JobType, Status, Cores
<1>4. NewJob(NoFile) \in JobType
  BY <1>3
<1>5. \A r \in JobType : /\ [r EXCEPT !.mem = "none"] \in JobType
                         /\ [r EXCEPT !.mem = "freed"] \in JobType
  BY DEF JobType
<1>6. Freed \in JobType /\ NoRecord \in JobType
  BY <1>4, <1>5 DEF Freed, NoRecord
<1> QED BY <1>1, <1>2, <1>3, <1>6

LEMMA OwnerIsTyped == TypeOK => Owner \in OwnerType
BY DEF TypeOK, Owner, OwnerType, JobType

LEMMA FreeIsTyped ==
    ASSUME TypeOK, NEW js
    PROVE  Free(js) \in [JobId -> JobType]
BY ConstantFacts DEF TypeOK, Free

LEMMA StampIsTyped ==
    ASSUME TypeOK, NEW out \in Seq(Promotion)
    PROVE  StampCores(job, out) \in [JobId -> JobType]
<1> SUFFICES ASSUME NEW j \in JobId
             PROVE  StampCores(job, out)[j] \in JobType
  BY DEF StampCores
<1>1. job[j] \in JobType
  BY DEF TypeOK
<1>2. CASE \E i \in DOMAIN out : out[i].job = j
  <2> DEFINE i == CHOOSE i \in DOMAIN out : out[i].job = j
  <2>1. i \in DOMAIN out
    BY <1>2
  <2>2. out[i] \in Promotion
    BY <2>1
  <2>3. out[i].core \in Cores
    BY <2>2 DEF Promotion
  <2>4. StampCores(job, out)[j] = [job[j] EXCEPT !.TargetCore = out[i].core]
    BY <1>2 DEF StampCores
  <2> HIDE DEF i
  <2> QED BY <1>1, <2>3, <2>4 DEF JobType
<1>3. CASE ~ \E i \in DOMAIN out : out[i].job = j
  BY <1>1, <1>3 DEF StampCores
<1> QED BY <1>2, <1>3

LEMMA PinIsTyped ==
    ASSUME NEW jt \in [JobId -> JobType], NEW j, NEW b \in BOOLEAN
    PROVE  /\ [jt EXCEPT ![j].WaiterPin = @ + 1] \in [JobId -> JobType]
           /\ [jt EXCEPT ![j].WaiterPin = @ - 1] \in [JobId -> JobType]
           /\ [jt EXCEPT ![j].WaiterPin = @ - 1, ![j].OrphanOnComplete = @ \/ b]
                 \in [JobId -> JobType]
<1>1. \A r \in JobType : /\ [r EXCEPT !.WaiterPin = @ + 1] \in JobType
                         /\ [r EXCEPT !.WaiterPin = @ - 1] \in JobType
                         /\ [r EXCEPT !.OrphanOnComplete = @ \/ b] \in JobType
  <2> TAKE r \in JobType
  <2>1. r.WaiterPin + 1 \in Int /\ r.WaiterPin - 1 \in Int
    BY DEF JobType
  <2>2. (r.OrphanOnComplete \/ b) \in BOOLEAN
    OBVIOUS
  <2> QED BY <2>1, <2>2 DEF JobType
<1>2. \A k \in JobId : jt[k] \in JobType
  OBVIOUS
<1>3. CASE j \in JobId
  <2> DEFINE r1 == [jt[j] EXCEPT !.WaiterPin = @ - 1]
  <2>1. r1 \in JobType /\ [r1 EXCEPT !.OrphanOnComplete = @ \/ b] \in JobType
    BY <1>1, <1>2, <1>3
  <2>2. [jt EXCEPT ![j].WaiterPin = @ + 1] = [jt EXCEPT ![j] = [jt[j] EXCEPT !.WaiterPin = @ + 1]]
    OBVIOUS
  <2>3. [jt EXCEPT ![j].WaiterPin = @ - 1] = [jt EXCEPT ![j] = r1]
    OBVIOUS
  <2>4. [jt EXCEPT ![j].WaiterPin = @ - 1, ![j].OrphanOnComplete = @ \/ b]
        = [jt EXCEPT ![j] = [r1 EXCEPT !.OrphanOnComplete = @ \/ b]]
    BY <1>3 DEF JobType
  <2> HIDE DEF r1
  <2> QED BY <1>1, <1>2, <1>3, <2>1, <2>2, <2>3, <2>4
<1>4. CASE j \notin JobId
  BY <1>4
<1> QED BY <1>3, <1>4

LEMMA CompletedIsTyped ==
    ASSUME NEW qq \in QueueType, NEW S \in SUBSET JobId
    PROVE  [qq EXCEPT !.Completed = S] \in QueueType
BY DEF QueueType

LEMMA PeerFieldsAreTyped ==
    ASSUME NEW qq \in QueueType
    PROVE  /\ [qq EXCEPT !.PeerOpen = TRUE, !.CoreCount = 2, !.CoreIdle = @ \cup {1},
                         !.CorePending[1] = 0] \in QueueType
           /\ [qq EXCEPT !.PeerOpen = FALSE, !.CoreCount = 1, !.CoreIdle = @ \cap {0},
                         !.CorePending[1] = 0] \in QueueType
<1>1. [qq.CorePending EXCEPT ![1] = 0] \in [Cores -> Nat]
  BY DEF QueueType
<1>2. qq.CoreIdle \cup {1} \in SUBSET Cores /\ qq.CoreIdle \cap {0} \in SUBSET Cores
  BY DEF QueueType, Cores
<1>3. 1 \in Cores /\ 1 \in 1 .. 2 /\ 2 \in 1 .. 2
  BY DEF Cores
<1> DEFINE cp == [qq.CorePending EXCEPT ![1] = 0]
<1>4. /\ [qq EXCEPT !.PeerOpen = TRUE, !.CoreCount = 2, !.CoreIdle = @ \cup {1},
                    !.CorePending[1] = 0]
         = [qq EXCEPT !.PeerOpen = TRUE, !.CoreCount = 2, !.CoreIdle = @ \cup {1},
                      !.CorePending = cp]
      /\ [qq EXCEPT !.PeerOpen = FALSE, !.CoreCount = 1, !.CoreIdle = @ \cap {0},
                    !.CorePending[1] = 0]
         = [qq EXCEPT !.PeerOpen = FALSE, !.CoreCount = 1, !.CoreIdle = @ \cap {0},
                      !.CorePending = cp]
  OBVIOUS
<1> HIDE DEF cp
<1>5. [qq EXCEPT !.PeerOpen = TRUE, !.CoreCount = 2, !.CoreIdle = @ \cup {1},
                 !.CorePending = cp] \in QueueType
  BY <1>1, <1>2, <1>3 DEF QueueType, cp
<1>6. [qq EXCEPT !.PeerOpen = FALSE, !.CoreCount = 1, !.CoreIdle = @ \cap {0},
                 !.CorePending = cp] \in QueueType
  BY <1>1, <1>2, <1>3 DEF QueueType, cp
<1> QED BY <1>4, <1>5, <1>6

LEMMA KickFlagsAreTyped ==
    ASSUME NEW qq \in QueueType, NEW b \in BOOLEAN, NEW c \in BOOLEAN
    PROVE  /\ [qq EXCEPT !.KickRearm = b] \in QueueType
           /\ [qq EXCEPT !.KickActive = b] \in QueueType
           /\ [qq EXCEPT !.KickRearm = b, !.KickActive = c] \in QueueType
BY DEF QueueType

-----------------------------------------------------------------------------
(***************************************************************************)
(* Types are preserved, action by action.                                  *)
(***************************************************************************)
LEMMA InitTyped == Init => TInv
<1> SUFFICES ASSUME Init PROVE TInv
  OBVIOUS
<1>1. q \in QueueType
  BY OpsAssumption DEF Init, RkMppJobQueueInit, QueueType, LruEntry, Cores
<1>2. job \in [JobId -> JobType]
  BY ConstantFacts DEF Init
<1>3. promos \in [Agents -> Seq(Promotion)]
  BY DEF Init
<1>4. Holding
  BY AgentFacts DEF Init, Holding
<1>5. /\ pc \in [Agents -> PC] /\ cur \in [Agents -> JobId \cup {NoJob}]
      /\ arg \in [Agents -> Status]
  BY DEF Init, PC, Status
<1>6. nextId \in 0 .. MaxJobs
  BY ConstantFacts DEF Init
<1>7. /\ needsCore \in BOOLEAN /\ needsFull \in BOOLEAN /\ attached \in BOOLEAN
      /\ mmio \in Windows /\ hwJob \in JobId \cup {NoJob} /\ gated \in BOOLEAN
      /\ isr \in {"none", "ok", "error", "timeout"}
      /\ work \in BOOLEAN /\ atPeer \in SUBSET JobId
      /\ inited \in SUBSET Files /\ mapped \in SUBSET Files /\ closed \in SUBSET Files
  BY JobsAssumption DEF Init
<1> QED BY <1>1, <1>2, <1>3, <1>4, <1>5, <1>6, <1>7 DEF TInv, TypeOK

LEMMA BufferTyped ==
    ASSUME TInv, NEW t \in Threads, AllocBuffer(t) \/ FreeBuffer(t)
    PROVE  TInv'
<1>1. CASE AllocBuffer(t)
  BY <1>1, ConstantFacts DEF AllocBuffer, TInv, TypeOK, Holding, devVars, hwVars, ctlVars
<1>2. CASE FreeBuffer(t)
  BY <1>2, ConstantFacts DEF FreeBuffer, TInv, TypeOK, Holding, devVars, hwVars, ctlVars
<1> QED BY <1>1, <1>2

LEMMA SubmitTyped ==
    ASSUME TInv, NEW t \in Threads,
           SubmitAlloc(t) \/ SubmitBusy(t) \/ SubmitEnqueue(t) \/ SubmitReturn(t)
    PROVE  TInv'
<1> USE AgentFacts, ConstantFacts DEF TInv, devVars, hwVars, fileVars, ctlVars, Goto
<1>1. CASE SubmitAlloc(t)
  <2>1. nextId + 1 \in JobId
    BY <1>1 DEF SubmitAlloc, TypeOK, JobId
  <2>2. TypeOK'
    BY <1>1, <2>1 DEF SubmitAlloc, TypeOK, PC, JobId
  <2> QED BY <1>1, <2>1, <2>2 DEF SubmitAlloc, Holding, TypeOK
<1>2. CASE SubmitBusy(t)
  <2>1. TypeOK'
    BY <1>2, FreeIsTyped DEF SubmitBusy, TypeOK, PC
  <2> QED BY <1>2, <2>1 DEF SubmitBusy, Holding, TypeOK
<1>3. CASE SubmitEnqueue(t)
  <2> DEFINE p == PromoteUntilFull(AppendPending(q, cur[t]), Owner)
  <2>1. cur[t] \in JobId
    BY <1>3 DEF SubmitEnqueue, Holding, TypeOK
  <2>2. AppendPending(q, cur[t]) \in QueueType /\ Owner \in OwnerType
    BY <2>1, AppendPendingType, OwnerIsTyped DEF TypeOK
  <2>3. p.q \in QueueType /\ p.out \in Seq(Promotion)
    BY <2>2, PromoteUntilFullType
  <2>4. StampCores(job, p.out) \in [JobId -> JobType]
    BY <2>3, StampIsTyped
  <2> HIDE DEF p
  <2>5. /\ q' = p.q /\ job' = StampCores(job, p.out) /\ promos' = [promos EXCEPT ![t] = p.out]
        /\ pc' = [pc EXCEPT ![t] = "kick"]
        /\ UNCHANGED <<nextId, devVars, hwVars, work, atPeer, fileVars, cur, arg>>
    BY <1>3 DEF SubmitEnqueue, p
  <2>6. TypeOK'
    BY <2>3, <2>4, <2>5 DEF TypeOK, PC
  <2> QED BY <2>5, <2>6 DEF Holding, TypeOK
<1>4. CASE SubmitReturn(t)
  <2>1. TypeOK'
    BY <1>4 DEF SubmitReturn, TypeOK, PC
  <2> QED BY <1>4, <2>1 DEF SubmitReturn, Holding, TypeOK
<1> QED BY <1>1, <1>2, <1>3, <1>4

\* The head of a nonempty promotion list, and what is behind it.
LEMMA HeadIsTyped ==
    ASSUME TInv, NEW a \in Agents, promos[a] # <<>>
    PROVE  /\ Head(promos[a]).job \in JobId
           /\ Tail(promos[a]) \in Seq(Promotion)
<1>1. promos[a] \in Seq(Promotion)
  BY DEF TInv, TypeOK
<1>2. Head(promos[a]) \in Promotion /\ Tail(promos[a]) \in Seq(Promotion)
  BY <1>1
<1> QED BY <1>2 DEF Promotion

LEMMA KickFailsTyped ==
    ASSUME TInv, NEW a \in Agents, promos[a] # <<>>, NEW status \in Status,
           KickFails(a, status)
    PROVE  /\ arg' \in [Agents -> Status]
           /\ promos' \in [Agents -> Seq(Promotion)]
           /\ pc' \in [Agents -> PC]
           /\ pc' = [pc EXCEPT ![a] = "complete"]
           /\ promos' = [promos EXCEPT ![a] = Tail(promos[a])]
BY HeadIsTyped DEF KickFails, TInv, TypeOK, Goto, PC

LEMMA PeerRollbackTyped ==
    ASSUME TInv, NEW a \in Agents, promos[a] # <<>>, NEW status \in Status,
           PeerRollback(a, status)
    PROVE  /\ q' \in QueueType
           /\ arg' \in [Agents -> Status]
           /\ pc' \in [Agents -> PC]
           /\ pc' = [pc EXCEPT ![a] = "peerFailed"]
<1> DEFINE j  == Head(promos[a]).job
           q1 == IF q.InFlight[1] = j THEN ReleaseSlot(q, 1) ELSE q
<1>1. j \in JobId /\ q \in QueueType
  BY HeadIsTyped DEF TInv, TypeOK
<1>2. q1 \in QueueType
  BY <1>1, ReleaseSlotType DEF Cores
<1>3. q1.Completed \cup {j} \in SUBSET JobId
  BY <1>1, <1>2 DEF QueueType
<1> HIDE DEF q1, j
<1>4. q' = [q1 EXCEPT !.Completed = @ \cup {j}]
  BY DEF PeerRollback, q1, j
<1>5. q' \in QueueType
  BY <1>2, <1>3, <1>4, CompletedIsTyped
<1> QED BY <1>5 DEF PeerRollback, TInv, TypeOK, Goto, PC

LEMMA KickTyped ==
    ASSUME TInv, NEW a \in Agents, KickStep(a)
    PROVE  TInv'
<1> USE AgentFacts, ConstantFacts DEF devVars, hwVars, fileVars, ctlVars
<1> USE DEF Goto
<1>1. CASE KickDone(a)
  <2>1. TypeOK'
    BY <1>1 DEF KickDone, TInv, TypeOK, PC
  <2> QED BY <1>1, <2>1 DEF KickDone, Holding, TInv, TypeOK
<1>2. CASE KickReset(a)
  <2>1. CASE mmio = "none"
    <3>1. KickFails(a, "notready") /\ promos[a] # <<>>
      BY <1>2, <2>1 DEF KickReset
    <3>2. /\ arg' \in [Agents -> Status] /\ promos' \in [Agents -> Seq(Promotion)]
          /\ pc' \in [Agents -> PC] /\ pc' = [pc EXCEPT ![a] = "complete"]
          /\ promos' = [promos EXCEPT ![a] = Tail(promos[a])]
      BY <3>1, KickFailsTyped DEF Status
    <3>3. UNCHANGED <<q, job, nextId, needsCore, needsFull, attached, mmio, hwJob, gated,
                      isr, work, atPeer, inited, mapped, closed, cur>>
      BY <1>2, <2>1 DEF KickReset
    <3>4. TypeOK'
      BY <3>2, <3>3 DEF TInv, TypeOK
    <3> QED BY <3>2, <3>3, <3>4 DEF Holding, TInv, TypeOK
  <2>2. CASE mmio # "none"
    <3>1. /\ promos[a] # <<>> /\ UNCHANGED <<arg, promos>>
          /\ pc' = [pc EXCEPT ![a] = "kickStart"]
          /\ needsFull' \in BOOLEAN /\ needsCore' = FALSE /\ gated' = FALSE
          /\ hwJob' = IF needsFull THEN NoJob ELSE hwJob
          /\ UNCHANGED <<q, job, nextId, attached, mmio, isr, work, atPeer, inited, mapped,
                         closed, cur>>
      BY <1>2, <2>2 DEF KickReset
    <3>2. TypeOK'
      BY <3>1 DEF TInv, TypeOK, PC
    <3> QED BY <3>1, <3>2 DEF Holding, TInv, TypeOK
  <2> QED BY <2>1, <2>2
<1>3. CASE KickStart(a)
  <2>1. promos[a] # <<>>
    BY <1>3 DEF KickStart, TInv, Holding
  <2>2. CASE mmio = "short"
    <3>1. KickFails(a, "invalid")
      BY <1>3, <2>2 DEF KickStart
    <3>2. /\ arg' \in [Agents -> Status] /\ promos' \in [Agents -> Seq(Promotion)]
          /\ pc' \in [Agents -> PC] /\ pc' = [pc EXCEPT ![a] = "complete"]
          /\ promos' = [promos EXCEPT ![a] = Tail(promos[a])]
      BY <2>1, <3>1, KickFailsTyped DEF Status
    <3>3. UNCHANGED <<q, job, nextId, needsCore, needsFull, attached, mmio, hwJob, gated,
                      isr, work, atPeer, inited, mapped, closed, cur>>
      BY <1>3, <2>2 DEF KickStart
    <3>4. TypeOK'
      BY <3>2, <3>3 DEF TInv, TypeOK
    <3> QED BY <3>2, <3>3, <3>4 DEF Holding, TInv, TypeOK
  <2>3. CASE mmio # "short"
    <3>1. /\ hwJob' = Head(promos[a]).job
          /\ promos' = [promos EXCEPT ![a] = Tail(promos[a])]
          /\ pc' = [pc EXCEPT ![a] = "kick"] /\ UNCHANGED arg
          /\ UNCHANGED <<q, job, nextId, devVars, gated, isr, work, atPeer, fileVars, cur>>
      BY <1>3, <2>3 DEF KickStart
    <3>2. hwJob' \in JobId /\ promos' \in [Agents -> Seq(Promotion)]
      BY <2>1, <3>1, HeadIsTyped DEF TInv, TypeOK
    <3>3. TypeOK'
      BY <3>1, <3>2 DEF TInv, TypeOK, PC
    <3> QED BY <3>1, <3>3 DEF Holding, TInv, TypeOK
  <2> QED BY <2>2, <2>3
<1>4. CASE KickPeerCheck(a)
  <2>1. /\ promos[a] # <<>>
        /\ UNCHANGED <<job, nextId, devVars, hwVars, work, atPeer, fileVars, cur, promos>>
    BY <1>4 DEF KickPeerCheck
  <2>2. CASE PeerRollback(a, "notready")
    <3>1. /\ q' \in QueueType /\ arg' \in [Agents -> Status] /\ pc' \in [Agents -> PC]
          /\ pc' = [pc EXCEPT ![a] = "peerFailed"]
      BY <2>1, <2>2, PeerRollbackTyped DEF Status
    <3>2. TypeOK'
      BY <2>1, <3>1 DEF TInv, TypeOK
    <3> QED BY <2>1, <3>1, <3>2 DEF Holding, TInv, TypeOK
  <2>3. CASE Goto(a, "peerCall") /\ UNCHANGED <<q, arg>>
    <3>1. TypeOK'
      BY <2>1, <2>3 DEF TInv, TypeOK, PC
    <3> QED BY <2>1, <2>3, <3>1 DEF Holding, TInv, TypeOK
  <2> QED BY <1>4, <2>2, <2>3 DEF KickPeerCheck
<1>5. CASE KickPeerCall(a)
  <2>1. /\ promos[a] # <<>>
        /\ UNCHANGED <<job, nextId, devVars, hwVars, work, fileVars, cur>>
    BY <1>5 DEF KickPeerCall, TInv, Holding
  <2>2. CASE PeerRollback(a, "notready") /\ UNCHANGED <<atPeer, promos>>
    <3>1. /\ q' \in QueueType /\ arg' \in [Agents -> Status] /\ pc' \in [Agents -> PC]
          /\ pc' = [pc EXCEPT ![a] = "peerFailed"]
      BY <2>1, <2>2, PeerRollbackTyped DEF Status
    <3>2. TypeOK'
      BY <2>1, <2>2, <3>1 DEF TInv, TypeOK
    <3> QED BY <2>1, <2>2, <3>1, <3>2 DEF Holding, TInv, TypeOK
  <2>3. CASE /\ atPeer' = atPeer \cup {Head(promos[a]).job}
             /\ promos' = [promos EXCEPT ![a] = Tail(promos[a])]
             /\ Goto(a, "kick")
             /\ UNCHANGED <<q, arg>>
    <3>1. atPeer' \in SUBSET JobId /\ promos' \in [Agents -> Seq(Promotion)]
      BY <2>1, <2>3, HeadIsTyped DEF TInv, TypeOK
    <3>2. TypeOK'
      BY <2>1, <2>3, <3>1 DEF TInv, TypeOK, PC
    <3> QED BY <2>1, <2>3, <3>2 DEF Holding, TInv, TypeOK
  <2> QED BY <1>5, <2>2, <2>3 DEF KickPeerCall
<1>6. CASE PeerFailSignal(a)
  <2>1. promos[a] # <<>>
    BY <1>6 DEF PeerFailSignal, TInv, Holding
  <2> DEFINE j == Head(promos[a]).job
  <2>2. j \in JobId /\ arg[a] \in Status /\ Tail(promos[a]) \in Seq(Promotion)
    BY <2>1, HeadIsTyped DEF TInv, TypeOK
  <2>3. [job EXCEPT ![j].Result = arg[a], ![j].Done = TRUE] \in [JobId -> JobType]
    BY <2>2, ZenonT(60) DEF TInv, TypeOK, JobType
  <2> HIDE DEF j
  <2>4. TypeOK'
    BY <1>6, <2>2, <2>3 DEF PeerFailSignal, j, TInv, TypeOK, PC, Status
  <2> QED BY <1>6, <2>4 DEF PeerFailSignal, Holding, TInv, TypeOK
<1> QED BY <1>1, <1>2, <1>3, <1>4, <1>5, <1>6 DEF KickStep

LEMMA CompleteTyped ==
    ASSUME TInv, NEW a \in Agents, CompleteStep(a)
    PROVE  TInv'
<1> USE AgentFacts, ConstantFacts DEF devVars, hwVars, fileVars, ctlVars, Goto
<1>0. Return(a) \in PC \ {"kickStart", "peerCall", "peerFailed", "enqueue"}
  BY DEF Return, PC
<1>1. CASE JobComplete(a)
  <2> DEFINE j  == q.InFlight[0]
             q1 == ReleaseSlot(q, job[j].TargetCore)
             S  == IF FreeHere(j) THEN q1.Completed ELSE q1.Completed \cup {j}
             q2 == [q1 EXCEPT !.Completed = S]
             l  == IF q2.Pending # {} THEN "arm"
                   ELSE IF q2.CoreIdle = VisibleCores(q2) THEN "gate" ELSE Return(a)
  <2>1. /\ arg' = [arg EXCEPT ![a] = "unset"]
        /\ UNCHANGED <<nextId, attached, mmio, hwVars, work, atPeer, fileVars, cur, promos>>
    BY <1>1 DEF JobComplete
  <2>2. CASE j = NoJob
    <3>1. pc' = [pc EXCEPT ![a] = Return(a)] /\ UNCHANGED <<q, job, needsCore, needsFull>>
      BY <1>1, <2>2 DEF JobComplete
    <3>2. TypeOK'
      BY <1>0, <2>1, <3>1 DEF TInv, TypeOK, Status
    <3> QED BY <1>0, <2>1, <3>1, <3>2 DEF Holding, TInv, TypeOK
  <2>3. CASE j # NoJob
    <3>1. j \in JobId /\ arg[a] \in Status /\ q \in QueueType
      BY <2>3 DEF TInv, TypeOK, QueueType, Cores
    <3>2. job[j] \in JobType
      BY <3>1 DEF TInv, TypeOK
    <3>3. q1 \in QueueType
      BY <3>1, <3>2, ReleaseSlotType DEF JobType
    <3>4. S \in SUBSET JobId
      BY <3>1, <3>3 DEF QueueType
    <3>5. q2 \in QueueType
      BY <3>3, <3>4, CompletedIsTyped
    <3>6. [job EXCEPT ![j].Result = arg[a], ![j].Done = TRUE] \in [JobId -> JobType]
      BY <3>1, ZenonT(60) DEF TInv, TypeOK, JobType
    <3>7. Free({j}) \in [JobId -> JobType]
      BY FreeIsTyped DEF TInv
    <3>8. /\ q' = q2
          /\ job' = IF FreeHere(j) THEN Free({j})
                    ELSE [job EXCEPT ![j].Result = arg[a], ![j].Done = TRUE]
          /\ needsFull' = (needsFull \/ arg[a] = "timeout")
          /\ needsCore' = (needsCore \/ arg[a] # "ok")
          /\ pc' = [pc EXCEPT ![a] = l]
      BY <1>1, <2>3 DEF JobComplete
    <3>9. l \in PC \ {"kickStart", "peerCall", "peerFailed", "enqueue"}
      BY <1>0 DEF PC
    <3> HIDE DEF l, q2, S, q1, j
    <3>10. job' \in [JobId -> JobType]
      BY <3>6, <3>7, <3>8
    <3>11. TypeOK'
      BY <2>1, <3>5, <3>8, <3>9, <3>10 DEF TInv, TypeOK, Status
    <3> QED BY <2>1, <3>8, <3>9, <3>11 DEF Holding, TInv, TypeOK
  <2> QED BY <2>2, <2>3
<1>2. CASE JobCompleteGate(a)
  <2>1. TypeOK'
    BY <1>0, <1>2 DEF JobCompleteGate, TInv, TypeOK
  <2> QED BY <1>0, <1>2, <2>1 DEF JobCompleteGate, Holding, TInv, TypeOK
<1>3. CASE EnqueueKickWorker(a)
  <2>1. q' \in QueueType
    BY <1>3, KickFlagsAreTyped DEF EnqueueKickWorker, TInv, TypeOK
  <2>2. work' \in BOOLEAN
    BY <1>3 DEF EnqueueKickWorker, TInv, TypeOK
  <2> DEFINE l == IF a = "peer" THEN "idle" ELSE Return(a)
  <2>3. l \in PC \ {"kickStart", "peerCall", "peerFailed", "enqueue"}
    BY <1>0 DEF PC
  <2> HIDE DEF l
  <2>4. /\ pc' = [pc EXCEPT ![a] = l]
        /\ UNCHANGED <<job, nextId, devVars, hwVars, atPeer, fileVars, ctlVars>>
    BY <1>3 DEF EnqueueKickWorker, l
  <2>5. TypeOK'
    BY <2>1, <2>2, <2>3, <2>4 DEF TInv, TypeOK
  <2> QED BY <2>3, <2>4, <2>5 DEF Holding, TInv, TypeOK
<1> QED BY <1>1, <1>2, <1>3 DEF CompleteStep

LEMMA InterruptTyped ==
    ASSUME TInv, EvtIsr \/ EvtDpc
    PROVE  TInv'
<1> USE AgentFacts, ConstantFacts DEF devVars, hwVars, fileVars, ctlVars, Goto
<1>1. CASE EvtIsr
  <2>1. TypeOK'
    BY <1>1 DEF EvtIsr, TInv, TypeOK
  <2> QED BY <1>1, <2>1 DEF EvtIsr, Holding, TInv, TypeOK
<1>2. CASE EvtDpc
  <2>1. TypeOK'
    BY <1>2 DEF EvtDpc, TInv, TypeOK, PC, Status
  <2> QED BY <1>2, <2>1 DEF EvtDpc, Holding, TInv, TypeOK
<1> QED BY <1>1, <1>2

LEMMA WorkerTyped ==
    ASSUME TInv, WorkerStep
    PROVE  TInv'
<1> USE AgentFacts, ConstantFacts DEF devVars, hwVars, fileVars, ctlVars, Goto
<1>1. CASE KickWorkerStart
  <2>1. TypeOK'
    BY <1>1 DEF KickWorkerStart, TInv, TypeOK, PC
  <2> QED BY <1>1, <2>1 DEF KickWorkerStart, Holding, TInv, TypeOK
<1>2. CASE KickWorkerExit
  <2>1. q' \in QueueType
    BY <1>2, KickFlagsAreTyped DEF KickWorkerExit, TInv, TypeOK
  <2>2. TypeOK'
    BY <1>2, <2>1 DEF KickWorkerExit, TInv, TypeOK, PC
  <2> QED BY <1>2, <2>2 DEF KickWorkerExit, Holding, TInv, TypeOK
<1>3. CASE KickWorkerPass
  <2> DEFINE p == PromoteUntilFull([q EXCEPT !.KickRearm = FALSE], Owner)
  <2>1. [q EXCEPT !.KickRearm = FALSE] \in QueueType /\ Owner \in OwnerType
    BY KickFlagsAreTyped, OwnerIsTyped DEF TInv, TypeOK
  <2>2. p.q \in QueueType /\ p.out \in Seq(Promotion)
    BY <2>1, PromoteUntilFullType
  <2>3. StampCores(job, p.out) \in [JobId -> JobType]
    BY <2>2, StampIsTyped DEF TInv
  <2> HIDE DEF p
  <2>4. /\ q' = p.q /\ job' = StampCores(job, p.out)
        /\ promos' = [promos EXCEPT !["worker"] = p.out]
        /\ pc' = [pc EXCEPT !["worker"] = "kick"]
        /\ UNCHANGED <<nextId, devVars, hwVars, work, atPeer, fileVars, cur, arg>>
    BY <1>3 DEF KickWorkerPass, p
  <2>5. TypeOK'
    BY <2>2, <2>3, <2>4 DEF TInv, TypeOK, PC
  <2> QED BY <2>4, <2>5 DEF Holding, TInv, TypeOK
<1> QED BY <1>1, <1>2, <1>3 DEF WorkerStep

LEMMA WaitLeaveTyped ==
    ASSUME TInv, NEW t \in Threads, pc[t] = "waiting", NEW js, NEW orphan \in BOOLEAN,
           WaitLeave(t, js, orphan)
    PROVE  TInv'
<1> USE AgentFacts, ConstantFacts DEF devVars, hwVars, fileVars, ctlVars, Goto
<1>1. RemovePending(q, js) \in QueueType
  BY RemovePendingType DEF TInv, TypeOK
<1>2. q' \in QueueType
  BY <1>1, CompletedIsTyped DEF WaitLeave, QueueType
<1>3. [job EXCEPT ![cur[t]].WaiterPin = @ - 1,
                  ![cur[t]].OrphanOnComplete = @ \/ orphan] \in [JobId -> JobType]
  BY PinIsTyped DEF TInv, TypeOK
<1>4. job' \in [JobId -> JobType]
  BY <1>3, FreeIsTyped DEF WaitLeave, TInv
<1>5. TypeOK'
  BY <1>2, <1>4 DEF WaitLeave, TInv, TypeOK, PC
<1> QED BY <1>5 DEF WaitLeave, Holding, TInv, TypeOK

LEMMA WaitTyped ==
    ASSUME TInv, NEW t \in Threads,
           \/ \E j \in JobId : WaitTake(t, j) \/ WaitPin(t, j)
           \/ WaitTakeFree(t) \/ WaitDone(t) \/ WaitTimeout(t)
    PROVE  TInv'
<1> USE AgentFacts, ConstantFacts DEF devVars, hwVars, fileVars, ctlVars, Goto
<1>1. ASSUME NEW j \in JobId, WaitTake(t, j) PROVE TInv'
  <2>1. q' \in QueueType
    BY <1>1, CompletedIsTyped DEF WaitTake, TInv, TypeOK, QueueType
  <2>2. TypeOK'
    BY <1>1, <2>1 DEF WaitTake, TInv, TypeOK, PC
  <2> QED BY <1>1, <2>2 DEF WaitTake, Holding, TInv, TypeOK
<1>2. ASSUME NEW j \in JobId, WaitPin(t, j) PROVE TInv'
  <2>1. [job EXCEPT ![j].WaiterPin = @ + 1] \in [JobId -> JobType]
    BY PinIsTyped DEF TInv, TypeOK
  <2>2. TypeOK'
    BY <1>2, <2>1 DEF WaitPin, TInv, TypeOK, PC
  <2> QED BY <1>2, <2>2 DEF WaitPin, Holding, TInv, TypeOK
<1>3. CASE WaitTakeFree(t)
  <2>1. TypeOK'
    BY <1>3, FreeIsTyped DEF WaitTakeFree, TInv, TypeOK, PC
  <2> QED BY <1>3, <2>1 DEF WaitTakeFree, Holding, TInv, TypeOK
<1>4. CASE WaitDone(t)
  BY <1>4, WaitLeaveTyped DEF WaitDone
<1>5. CASE WaitTimeout(t)
  BY <1>5, WaitLeaveTyped DEF WaitTimeout
<1> QED BY <1>1, <1>2, <1>3, <1>4, <1>5

LEMMA DrainUnpinTyped ==
    ASSUME TInv, NEW t \in Threads, NEW timedOut \in BOOLEAN, DrainUnpin(t, timedOut)
    PROVE  /\ q' \in QueueType
           /\ job' \in [JobId -> JobType]
           /\ cur' \in [Agents -> JobId \cup {NoJob}]
<1> DEFINE f  == FileOf[t]
           j1 == [job EXCEPT ![cur[t]].WaiterPin = @ - 1]
           js == {k \in q.Completed : j1[k].Owner = f /\ j1[k].WaiterPin = 0}
           abandoned == IF timedOut THEN {q.InFlight[c] : c \in OwnedCores(f)} ELSE {}
           jt == [k \in JobId |->
                     IF k \in js THEN Freed
                     ELSE IF k \in abandoned THEN [j1[k] EXCEPT !.OrphanOnComplete = TRUE]
                     ELSE j1[k]]
<1>1. j1 \in [JobId -> JobType]
  BY PinIsTyped DEF TInv, TypeOK
<1>2. \A r \in JobType : [r EXCEPT !.OrphanOnComplete = TRUE] \in JobType
  BY DEF JobType
<1>3. q' = [q EXCEPT !.Completed = @ \ js] /\ job' = jt /\ cur' = [cur EXCEPT ![t] = NoJob]
  BY DEF DrainUnpin
<1> HIDE DEF j1, js, abandoned
<1>4. jt \in [JobId -> JobType]
  BY <1>1, <1>2, ConstantFacts
<1>5. q' \in QueueType
  BY <1>3, CompletedIsTyped DEF TInv, TypeOK, QueueType
<1> QED BY <1>3, <1>4, <1>5, AgentFacts DEF TInv, TypeOK

LEMMA CleanupTyped ==
    ASSUME TInv, NEW t \in Threads,
           \/ CloseUnused(t) \/ DrainSweep(t) \/ DrainPin(t) \/ DrainEmpty(t)
           \/ DrainDone(t) \/ DrainTimeout(t)
           \/ CleanupFreeBuffers(t) \/ CleanupDecide(t) \/ CleanupPowerCycle(t)
    PROVE  TInv'
<1> USE AgentFacts, ConstantFacts DEF devVars, hwVars, fileVars, ctlVars, Goto
<1>1. CASE CloseUnused(t)
  BY <1>1 DEF CloseUnused, TInv, TypeOK, Holding
<1>2. CASE DrainSweep(t)
  <2> DEFINE js == JobsOf(FileOf[t], q.Pending \cup q.Completed)
  <2>1. RemovePending(q, js) \in QueueType
    BY RemovePendingType DEF TInv, TypeOK
  <2>2. [RemovePending(q, js) EXCEPT !.Completed = @ \ js] \in QueueType
    BY <2>1, CompletedIsTyped DEF QueueType
  <2>3. Free(js) \in [JobId -> JobType]
    BY FreeIsTyped DEF TInv
  <2> HIDE DEF js
  <2>4. TypeOK'
    BY <1>2, <2>2, <2>3 DEF DrainSweep, js, TInv, TypeOK, PC
  <2> QED BY <1>2, <2>4 DEF DrainSweep, Holding, TInv, TypeOK
<1>3. CASE DrainPin(t)
  <2> DEFINE f == FileOf[t]
             c == CHOOSE c \in OwnedCores(f) : \A d \in OwnedCores(f) : c <= d
             j == q.InFlight[c]
  <2>0. OwnedCores(f) \subseteq {0, 1}
    BY DEF OwnedCores, VisibleCores, Cores
  <2>1. OwnedCores(f) # {} /\ OwnedCores(f) \subseteq {0, 1}
    BY <1>3, <2>0 DEF DrainPin
  <2>2. \E e \in OwnedCores(f) : \A d \in OwnedCores(f) : e <= d
    BY <2>1
  <2>3. c \in OwnedCores(f)
    BY <2>2
  <2>4. j \in JobId
    BY <2>3 DEF OwnedCores, VisibleCores, TInv, TypeOK, QueueType
  <2>5. [job EXCEPT ![j].WaiterPin = @ + 1] \in [JobId -> JobType]
    BY PinIsTyped DEF TInv, TypeOK
  <2> HIDE DEF c, j
  <2>6. TypeOK'
    BY <1>3, <2>4, <2>5 DEF DrainPin, c, j, TInv, TypeOK, PC
  <2> QED BY <1>3, <2>6 DEF DrainPin, Holding, TInv, TypeOK
<1>4. CASE DrainEmpty(t)
  <2>1. TypeOK'
    BY <1>4 DEF DrainEmpty, TInv, TypeOK, PC, Status
  <2> QED BY <1>4, <2>1 DEF DrainEmpty, Holding, TInv, TypeOK
<1>5. CASE DrainDone(t)
  <2>1. /\ q' \in QueueType /\ job' \in [JobId -> JobType]
        /\ cur' \in [Agents -> JobId \cup {NoJob}] /\ cur' = [cur EXCEPT ![t] = NoJob]
    BY <1>5, DrainUnpinTyped DEF DrainDone, DrainUnpin
  <2>2. TypeOK'
    BY <1>5, <2>1 DEF DrainDone, TInv, TypeOK, PC
  <2> QED BY <1>5, <2>1, <2>2 DEF DrainDone, Holding, TInv, TypeOK
<1>6. CASE DrainTimeout(t)
  <2>1. /\ q' \in QueueType /\ job' \in [JobId -> JobType]
        /\ cur' \in [Agents -> JobId \cup {NoJob}] /\ cur' = [cur EXCEPT ![t] = NoJob]
    BY <1>6, DrainUnpinTyped DEF DrainTimeout, DrainUnpin
  <2>2. TypeOK'
    BY <1>6, <2>1 DEF DrainTimeout, TInv, TypeOK, PC, Status
  <2> QED BY <1>6, <2>1, <2>2 DEF DrainTimeout, Holding, TInv, TypeOK
<1>7. CASE CleanupFreeBuffers(t)
  <2>1. TypeOK'
    BY <1>7 DEF CleanupFreeBuffers, TInv, TypeOK, PC
  <2> QED BY <1>7, <2>1 DEF CleanupFreeBuffers, Holding, TInv, TypeOK
<1>8. CASE CleanupDecide(t)
  <2>1. needsCore' \in BOOLEAN
    BY <1>8 DEF CleanupDecide, TInv, TypeOK
  <2>2. \E l \in {"idle", "pdCycle"} : pc' = [pc EXCEPT ![t] = l]
    BY <1>8 DEF CleanupDecide
  <2>3. TypeOK'
    BY <1>8, <2>1, <2>2 DEF CleanupDecide, TInv, TypeOK, PC, Status
  <2> QED BY <1>8, <2>2, <2>3 DEF CleanupDecide, Holding, TInv, TypeOK
<1>9. CASE CleanupPowerCycle(t)
  <2>1. TypeOK'
    BY <1>9 DEF CleanupPowerCycle, TInv, TypeOK, PC
  <2> QED BY <1>9, <2>1 DEF CleanupPowerCycle, Holding, TInv, TypeOK
<1> QED BY <1>1, <1>2, <1>3, <1>4, <1>5, <1>6, <1>7, <1>8, <1>9

LEMMA PeerTyped ==
    ASSUME TInv, PeerStep \/ PeerDrop
    PROVE  TInv'
<1> USE AgentFacts, ConstantFacts DEF devVars, hwVars, fileVars, ctlVars, Goto
<1>1. CASE PeerCompletion
  <2>1. PICK j \in atPeer, s \in {"ok", "error", "timeout"} :
          /\ atPeer' = atPeer \ {j}
          /\ \/ q.InFlight[1] # j /\ UNCHANGED <<q, job, cur, pc>>
             \/ /\ q' = [ReleaseSlot(q, 1) EXCEPT !.Completed = @ \cup {j}]
                /\ job' = [job EXCEPT ![j].Result = s]
                /\ cur' = [cur EXCEPT !["peer"] = j]
                /\ \E l \in {"signal", "signalKick"} : pc' = [pc EXCEPT !["peer"] = l]
    BY <1>1 DEF PeerCompletion
  <2>2. UNCHANGED <<nextId, devVars, hwVars, work, fileVars, arg, promos>>
    BY <1>1 DEF PeerCompletion
  <2>3. j \in JobId /\ s \in Status
    BY <2>1 DEF TInv, TypeOK, Status
  <2>4. [job EXCEPT ![j].Result = s] \in [JobId -> JobType]
    BY <2>3 DEF TInv, TypeOK, JobType
  <2>5. ReleaseSlot(q, 1) \in QueueType
    BY ReleaseSlotType DEF TInv, TypeOK, Cores
  <2>6. [ReleaseSlot(q, 1) EXCEPT !.Completed = @ \cup {j}] \in QueueType
    BY <2>3, <2>5, CompletedIsTyped DEF QueueType
  <2>7. CASE UNCHANGED <<q, job, cur, pc>>
    <3>1. TypeOK'
      BY <2>1, <2>2, <2>7 DEF TInv, TypeOK
    <3> QED BY <2>2, <2>7, <3>1 DEF Holding, TInv, TypeOK
  <2>8. CASE /\ q' = [ReleaseSlot(q, 1) EXCEPT !.Completed = @ \cup {j}]
             /\ job' = [job EXCEPT ![j].Result = s]
             /\ cur' = [cur EXCEPT !["peer"] = j]
             /\ \E l \in {"signal", "signalKick"} : pc' = [pc EXCEPT !["peer"] = l]
    <3>1. q' \in QueueType /\ job' \in [JobId -> JobType] /\ atPeer' \in SUBSET JobId
      BY <2>1, <2>4, <2>6, <2>8 DEF TInv, TypeOK
    <3>2. cur' \in [Agents -> JobId \cup {NoJob}] /\ pc' \in [Agents -> PC]
      BY <2>3, <2>8 DEF TInv, TypeOK, PC
    <3>3. TypeOK'
      BY <2>2, <3>1, <3>2 DEF TInv, TypeOK
    <3> QED BY <2>2, <2>8, <3>3 DEF Holding, TInv, TypeOK
  <2> QED BY <2>1, <2>7, <2>8
<1>2. CASE PeerCompletionSignal
  <2>1. [job EXCEPT ![cur["peer"]].Done = TRUE] \in [JobId -> JobType]
    BY DEF TInv, TypeOK, JobType
  <2>2. TypeOK'
    BY <1>2, <2>1 DEF PeerCompletionSignal, TInv, TypeOK, PC
  <2> QED BY <1>2, <2>2 DEF PeerCompletionSignal, Holding, TInv, TypeOK
<1>3. CASE PeerDrop
  <2>1. TypeOK'
    BY <1>3 DEF PeerDrop, TInv, TypeOK
  <2> QED BY <1>3, <2>1 DEF PeerDrop, Holding, TInv, TypeOK
<1> QED BY <1>1, <1>2, <1>3 DEF PeerStep

LEMMA PnpTyped ==
    ASSUME TInv, PnpStep
    PROVE  TInv'
<1> USE AgentFacts, ConstantFacts DEF devVars, hwVars, fileVars, ctlVars, Goto
<1>0. q \in QueueType
  BY DEF TInv, TypeOK
<1>1. CASE PeerArrival
  <2>1. q' = [q EXCEPT !.PeerOpen = TRUE, !.CoreCount = 2, !.CoreIdle = @ \cup {1},
                       !.CorePending[1] = 0]
    BY <1>1 DEF PeerArrival
  <2>2. q' \in QueueType
    BY <1>0, <2>1, PeerFieldsAreTyped
  <2>3. TypeOK'
    BY <1>1, <2>2 DEF PeerArrival, TInv, TypeOK
  <2> QED BY <1>1, <2>3 DEF PeerArrival, Holding, TInv, TypeOK
<1>2. CASE DetachPeer
  <2>1. q' = [q EXCEPT !.PeerOpen = FALSE, !.CoreCount = 1, !.CoreIdle = @ \cap {0},
                       !.CorePending[1] = 0]
    BY <1>2 DEF DetachPeer
  <2>2. q' \in QueueType /\ q.InFlight[1] \in JobId \cup {NoJob}
    BY <1>0, <2>1, PeerFieldsAreTyped, ZenonT(60) DEF QueueType, Cores
  <2>3. TypeOK'
    BY <1>2, <2>2 DEF DetachPeer, TInv, TypeOK, PC
  <2> QED BY <1>2, <2>3 DEF DetachPeer, Holding, TInv, TypeOK
<1>3. CASE MasterIommuQueryRemove
  <2>1. TypeOK'
    BY <1>3 DEF MasterIommuQueryRemove, TInv, TypeOK, PC
  <2> QED BY <1>3, <2>1 DEF MasterIommuQueryRemove, Holding, TInv, TypeOK
<1>4. ASSUME NEW c \in Cores, QueryRemoveProbe(c) PROVE TInv'
  <2>1. q.InFlight[c] \in JobId \cup {NoJob}
    BY <1>0 DEF QueueType
  <2>2. \E l \in {"wait0", "wait1", "probe1", "idle"} : pc' = [pc EXCEPT !["pnp"] = l]
    BY <1>4 DEF QueryRemoveProbe
  <2>3. TypeOK'
    BY <1>4, <2>1, <2>2 DEF QueryRemoveProbe, TInv, TypeOK, PC
  <2> QED BY <1>4, <2>2, <2>3 DEF QueryRemoveProbe, Holding, TInv, TypeOK
<1>5. CASE UnpinnedWaitEnds
  <2>1. TypeOK'
    BY <1>5 DEF UnpinnedWaitEnds, TInv, TypeOK, PC
  <2> QED BY <1>5, <2>1 DEF UnpinnedWaitEnds, Holding, TInv, TypeOK
<1> QED BY <1>1, <1>2, <1>3, <1>4, <1>5 DEF PnpStep

\* The disjuncts of a thread's step, grouped as the lemmas are.
LEMMA ThreadTyped ==
    ASSUME TInv, NEW t \in Threads, ThreadStep(t)
    PROVE  TInv'
BY BufferTyped, SubmitTyped, WaitTyped, CleanupTyped DEF ThreadStep

LEMMA StutterTyped == TInv /\ UNCHANGED vars => TInv'
BY DEF vars, devVars, hwVars, fileVars, ctlVars, TInv, TypeOK, Holding

LEMMA NextTyped == TInv /\ [Next]_vars => TInv'
<1> SUFFICES ASSUME TInv, [Next]_vars PROVE TInv'
  OBVIOUS
<1>1. CASE UNCHANGED vars
  BY <1>1, StutterTyped
<1>2. CASE Next
  BY <1>2, ThreadTyped, KickTyped, CompleteTyped, InterruptTyped, WorkerTyped, PeerTyped,
     PnpTyped, StutterTyped DEF Next, Quiescent
<1> QED BY <1>1, <1>2

\* Whatever the threads, the interrupt, the worker, the peer and PnP do and
\* in whatever order, every field of the queue, of the jobs and of the device
\* keeps its type: ids stay in range, no count wraps below zero, and every
\* kick and every promotion names a job and a core.
THEOREM TypeCorrect == Spec => []TypeOK
<1>1. TInv => TypeOK
  BY DEF TInv
<1> QED BY <1>1, InitTyped, NextTyped, PTL DEF Spec

-----------------------------------------------------------------------------
(***************************************************************************)
(* The deferred-kick worker.  KickProtocol and NoLostKick are inductive    *)
(* together with the types.  Most steps are frames: they neither touch the *)
(* worker's flags nor make work for it.                                    *)
(***************************************************************************)
WInv == KickProtocol /\ NoLostKick

Frame ==
    /\ q'.KickActive = q.KickActive /\ q'.KickRearm = q.KickRearm /\ work' = work
    /\ q'.Pending \subseteq q.Pending
    /\ 0 \in q'.CoreIdle => 0 \in q.CoreIdle
    /\ \A a \in Agents : pc[a] = "arm" => pc'[a] = "arm"
    /\ pc'["worker"] = "idle" <=> pc["worker"] = "idle"

LEMMA FrameKeeps == WInv /\ Frame => WInv'
BY DEF WInv, Frame, KickProtocol, NoLostKick

\* Agent a moves from one place to another, neither of them the arming of the
\* worker, and the worker neither comes nor goes.
Moves(a, l) ==
    /\ pc' = [pc EXCEPT ![a] = l]
    /\ pc[a] # "arm"
    /\ a = "worker" => pc[a] # "idle" /\ l # "idle"

LEMMA MoveKeeps ==
    ASSUME TInv, WInv, NEW a \in Agents, NEW l, Moves(a, l), UNCHANGED <<q, work>>
    PROVE  WInv'
<1>1. Frame
  BY AgentFacts DEF Frame, Moves, TInv, TypeOK
<1> QED BY <1>1, FrameKeeps

\* The same, with a queue that has lost jobs or regained core 1.
LEMMA MoveShrinks ==
    ASSUME TInv, WInv, NEW a \in Agents, NEW l, Moves(a, l), UNCHANGED work,
           q'.KickActive = q.KickActive, q'.KickRearm = q.KickRearm,
           q'.Pending \subseteq q.Pending, q'.CoreIdle \subseteq q.CoreIdle \cup {1}
    PROVE  WInv'
<1>1. Frame
  BY AgentFacts DEF Frame, Moves, TInv, TypeOK
<1> QED BY <1>1, FrameKeeps

LEMMA StillKeeps ==
    ASSUME WInv, UNCHANGED <<q, work, pc>>
    PROVE  WInv'
BY DEF WInv, KickProtocol, NoLostKick

LEMMA QueueIsTyped == TInv => q \in QueueType
BY DEF TInv, TypeOK

LEMMA SubmitKeeps ==
    ASSUME TInv, WInv, NEW t \in Threads,
           SubmitAlloc(t) \/ SubmitBusy(t) \/ SubmitEnqueue(t) \/ SubmitReturn(t)
    PROVE  WInv'
<1> USE AgentFacts DEF Goto
<1>1. CASE SubmitAlloc(t)
  BY <1>1, MoveKeeps DEF SubmitAlloc, Moves, MayEnter, Idle
<1>2. CASE SubmitBusy(t)
  BY <1>2, MoveKeeps DEF SubmitBusy, Moves
<1>3. CASE SubmitEnqueue(t)
  <2> DEFINE q1 == AppendPending(q, cur[t])
             p  == PromoteUntilFull(q1, Owner)
  <2>1. cur[t] \in JobId
    BY <1>3, ConstantFacts DEF SubmitEnqueue, TInv, Holding, TypeOK
  <2>2. q1 \in QueueType /\ Owner \in OwnerType
    BY <2>1, AppendPendingType, OwnerIsTyped DEF TInv, TypeOK
  <2>3. q1.KickActive = q.KickActive /\ q1.KickRearm = q.KickRearm
    BY QueueIsTyped, AppendPendingFrame
  <2>4. /\ ~CanPromote(p.q) /\ p.q \in QueueType
        /\ p.q.KickActive = q.KickActive /\ p.q.KickRearm = q.KickRearm
    BY <2>2, <2>3, PromoteUntilFullType
  <2> HIDE DEF p
  <2>5. q' = p.q /\ work' = work /\ pc' = [pc EXCEPT ![t] = "kick"] /\ pc[t] = "enqueue"
    BY <1>3 DEF SubmitEnqueue, p
  <2>6. q'.Pending # {} => 0 \notin q'.CoreIdle
    BY <2>4, <2>5 DEF CanPromote, IdleCores, VisibleCores, Cores, QueueType
  <2>7. pc'["worker"] = pc["worker"]
    BY <2>5
  <2> QED BY <2>4, <2>5, <2>6, <2>7 DEF WInv, KickProtocol, NoLostKick
<1>4. CASE SubmitReturn(t)
  BY <1>4, MoveKeeps DEF SubmitReturn, Moves
<1> QED BY <1>1, <1>2, <1>3, <1>4

LEMMA KickKeeps ==
    ASSUME TInv, WInv, NEW a \in Agents, KickStep(a)
    PROVE  WInv'
<1> USE AgentFacts DEF Goto
<1>1. CASE KickDone(a)
  <2> DEFINE l == IF a = "worker" THEN "loop" ELSE "submitted"
  <2>1. Moves(a, l) /\ UNCHANGED <<q, work>>
    BY <1>1 DEF KickDone, Moves
  <2> QED BY <2>1, MoveKeeps
<1>2. CASE KickReset(a)
  <2>1. UNCHANGED <<q, work>> /\ (Moves(a, "complete") \/ Moves(a, "kickStart"))
    BY <1>2 DEF KickReset, KickFails, Moves
  <2> QED BY <2>1, MoveKeeps
<1>3. CASE KickStart(a)
  <2>1. UNCHANGED <<q, work>> /\ (Moves(a, "complete") \/ Moves(a, "kick"))
    BY <1>3 DEF KickStart, KickFails, Moves
  <2> QED BY <2>1, MoveKeeps
<1>4. ASSUME PeerRollback(a, "notready"), UNCHANGED work, pc[a] \in {"kick", "peerCall"}
      PROVE  WInv'
  <2> DEFINE j  == Head(promos[a]).job
             q1 == IF q.InFlight[1] = j THEN ReleaseSlot(q, 1) ELSE q
  <2>1. /\ q1.KickActive = q.KickActive /\ q1.KickRearm = q.KickRearm
        /\ q1.Pending = q.Pending /\ q1.CoreIdle \subseteq q.CoreIdle \cup {1}
    BY QueueIsTyped, ReleaseSlotFrame
  <2>2. q1 \in QueueType
    BY QueueIsTyped, ReleaseSlotType DEF Cores
  <2> HIDE DEF q1
  <2>3. q' = [q1 EXCEPT !.Completed = @ \cup {j}]
    BY <1>4 DEF PeerRollback, q1
  <2>4. /\ q'.KickActive = q1.KickActive /\ q'.KickRearm = q1.KickRearm
        /\ q'.Pending = q1.Pending /\ q'.CoreIdle = q1.CoreIdle
    BY <2>2, <2>3 DEF QueueType
  <2>5. Moves(a, "peerFailed")
    BY <1>4 DEF PeerRollback, Moves
  <2> QED BY <1>4, <2>1, <2>4, <2>5, MoveShrinks
<1>5. CASE KickPeerCheck(a)
  <2>1. CASE PeerRollback(a, "notready")
    BY <1>4, <1>5, <2>1 DEF KickPeerCheck
  <2>2. CASE Goto(a, "peerCall") /\ UNCHANGED <<q, arg>>
    BY <1>5, <2>2, MoveKeeps DEF KickPeerCheck, Moves
  <2> QED BY <1>5, <2>1, <2>2 DEF KickPeerCheck
<1>6. CASE KickPeerCall(a)
  <2>1. CASE PeerRollback(a, "notready")
    BY <1>4, <1>6, <2>1 DEF KickPeerCall
  <2>2. CASE Goto(a, "kick") /\ UNCHANGED <<q, arg>>
    BY <1>6, <2>2, MoveKeeps DEF KickPeerCall, Moves
  <2> QED BY <1>6, <2>1, <2>2 DEF KickPeerCall
<1>7. CASE PeerFailSignal(a)
  BY <1>7, MoveKeeps DEF PeerFailSignal, Moves
<1> QED BY <1>1, <1>2, <1>3, <1>5, <1>6, <1>7 DEF KickStep

LEMMA CompleteKeeps ==
    ASSUME TInv, WInv, NEW a \in Agents, CompleteStep(a)
    PROVE  WInv'
<1> USE AgentFacts DEF Goto
<1>0. Return(a) # "arm" /\ (a = "worker" => Return(a) # "idle")
  BY DEF Return
<1>1. CASE JobComplete(a)
  <2> DEFINE j  == q.InFlight[0]
             q1 == ReleaseSlot(q, job[j].TargetCore)
             q2 == [q1 EXCEPT !.Completed = IF FreeHere(j) THEN @ ELSE @ \cup {j}]
  <2>0. pc[a] = "complete" /\ UNCHANGED work
    BY <1>1 DEF JobComplete
  <2>1. CASE j = NoJob
    <3>1. Moves(a, Return(a)) /\ UNCHANGED <<q, work>>
      BY <1>0, <1>1, <2>0, <2>1 DEF JobComplete, Moves
    <3> QED BY <3>1, MoveKeeps
  <2>2. CASE j # NoJob
    <3>1. j \in JobId /\ q \in QueueType
      BY <2>2, QueueIsTyped DEF QueueType, Cores
    <3>2. job[j].TargetCore \in Cores
      BY <3>1 DEF TInv, TypeOK, JobType
    <3>3. q1 \in QueueType /\ q1.KickActive = q.KickActive /\ q1.KickRearm = q.KickRearm
      BY <3>1, <3>2, ReleaseSlotType, ReleaseSlotFrame
    <3>4. q2.KickActive = q1.KickActive /\ q2.KickRearm = q1.KickRearm
      BY <3>3 DEF QueueType
    <3>5. /\ q' = q2
          /\ q2.Pending # {} => pc' = [pc EXCEPT ![a] = "arm"]
          /\ q2.Pending = {} => \E l \in {"gate", Return(a)} : pc' = [pc EXCEPT ![a] = l]
      BY <1>1, <2>2 DEF JobComplete
    <3> HIDE DEF q2, q1
    <3>6. /\ q2.Pending # {} => pc'[a] = "arm"
          /\ pc'["worker"] = "idle" <=> pc["worker"] = "idle"
      BY <1>0, <2>0, <3>5 DEF TInv, TypeOK
    <3> QED BY <2>0, <3>3, <3>4, <3>5, <3>6 DEF WInv, KickProtocol, NoLostKick
  <2> QED BY <2>1, <2>2
<1>2. CASE JobCompleteGate(a)
  <2>1. Moves(a, Return(a)) /\ UNCHANGED <<q, work>>
    BY <1>0, <1>2 DEF JobCompleteGate, Moves
  <2> QED BY <2>1, MoveKeeps
<1>3. CASE EnqueueKickWorker(a)
  <2>1. /\ q'.KickRearm = TRUE /\ q'.KickActive = TRUE
    BY <1>3, QueueIsTyped DEF EnqueueKickWorker, QueueType
  <2>2. work' = (work \/ ~q.KickActive) /\ pc[a] = "arm"
    BY <1>3 DEF EnqueueKickWorker
  <2>3. pc'["worker"] = "idle" <=> pc["worker"] = "idle"
    BY <1>0, <1>3 DEF EnqueueKickWorker, TInv, TypeOK
  <2> QED BY <2>1, <2>2, <2>3 DEF WInv, KickProtocol, NoLostKick
<1> QED BY <1>1, <1>2, <1>3 DEF CompleteStep

LEMMA WorkerKeeps ==
    ASSUME TInv, WInv, WorkerStep
    PROVE  WInv'
<1> USE AgentFacts DEF Goto
<1>1. CASE KickWorkerStart
  <2>1. /\ work /\ work' = FALSE /\ q' = q /\ pc["worker"] = "idle"
        /\ pc' = [pc EXCEPT !["worker"] = "loop"]
    BY <1>1 DEF KickWorkerStart
  <2>2. pc'["worker"] = "loop" /\ \A b \in Agents : pc[b] = "arm" => pc'[b] = "arm"
    BY <2>1 DEF TInv, TypeOK
  <2> QED BY <2>1, <2>2 DEF WInv, KickProtocol, NoLostKick
<1>2. CASE KickWorkerExit
  <2>1. /\ pc["worker"] = "loop" /\ ~q.KickRearm /\ work' = work
        /\ q' = [q EXCEPT !.KickActive = FALSE] /\ pc' = [pc EXCEPT !["worker"] = "idle"]
    BY <1>2 DEF KickWorkerExit
  <2>2. /\ q'.KickActive = FALSE /\ q'.KickRearm = q.KickRearm
        /\ q'.Pending = q.Pending /\ q'.CoreIdle = q.CoreIdle
    BY <2>1, QueueIsTyped DEF QueueType
  <2>3. pc'["worker"] = "idle" /\ \A b \in Agents : pc[b] = "arm" => pc'[b] = "arm"
    BY <2>1 DEF TInv, TypeOK
  <2> QED BY <2>1, <2>2, <2>3 DEF WInv, KickProtocol, NoLostKick
<1>3. CASE KickWorkerPass
  <2> DEFINE q1 == [q EXCEPT !.KickRearm = FALSE]
             p  == PromoteUntilFull(q1, Owner)
  <2>1. /\ q1 \in QueueType /\ Owner \in OwnerType
        /\ q1.KickActive = q.KickActive /\ q1.KickRearm = FALSE
    BY QueueIsTyped, KickFlagsAreTyped, OwnerIsTyped DEF TInv, QueueType
  <2>2. /\ ~CanPromote(p.q) /\ p.q \in QueueType
        /\ p.q.KickActive = q.KickActive /\ p.q.KickRearm = FALSE
    BY <2>1, PromoteUntilFullType
  <2> HIDE DEF p
  <2>3. /\ q' = p.q /\ work' = work /\ pc["worker"] = "loop"
        /\ pc' = [pc EXCEPT !["worker"] = "kick"]
    BY <1>3 DEF KickWorkerPass, p
  <2>4. q'.Pending # {} => 0 \notin q'.CoreIdle
    BY <2>2, <2>3 DEF CanPromote, IdleCores, VisibleCores, Cores, QueueType
  <2>5. pc'["worker"] = "kick"
    BY <2>3 DEF TInv, TypeOK
  <2> QED BY <2>2, <2>3, <2>4, <2>5 DEF WInv, KickProtocol, NoLostKick
<1> QED BY <1>1, <1>2, <1>3 DEF WorkerStep

LEMMA InterruptKeeps ==
    ASSUME TInv, WInv, EvtIsr \/ EvtDpc
    PROVE  WInv'
<1>1. CASE EvtIsr
  BY <1>1, StillKeeps DEF EvtIsr
<1>2. CASE EvtDpc
  <2>1. UNCHANGED <<q, work>> /\ (Moves("dpc", "complete") \/ Moves("dpc", "idle"))
    BY <1>2 DEF EvtDpc, Moves, Goto
  <2> QED BY <2>1, MoveKeeps, AgentFacts
<1> QED BY <1>1, <1>2

LEMMA WaitKeeps ==
    ASSUME TInv, WInv, NEW t \in Threads,
           \/ \E j \in JobId : WaitTake(t, j) \/ WaitPin(t, j)
           \/ WaitTakeFree(t) \/ WaitDone(t) \/ WaitTimeout(t)
    PROVE  WInv'
<1> USE AgentFacts DEF Goto
<1>1. ASSUME NEW j \in JobId, WaitTake(t, j) PROVE WInv'
  <2>1. /\ q'.KickActive = q.KickActive /\ q'.KickRearm = q.KickRearm
        /\ q'.Pending = q.Pending /\ q'.CoreIdle = q.CoreIdle
    BY <1>1, QueueIsTyped DEF WaitTake, QueueType
  <2>2. Moves(t, "take") /\ UNCHANGED work
    BY <1>1 DEF WaitTake, Moves, MayEnter, Idle
  <2> QED BY <2>1, <2>2, MoveShrinks
<1>2. ASSUME NEW j \in JobId, WaitPin(t, j) PROVE WInv'
  BY <1>2, MoveKeeps DEF WaitPin, Moves, MayEnter, Idle
<1>3. CASE WaitTakeFree(t)
  BY <1>3, MoveKeeps DEF WaitTakeFree, Moves
<1>4. ASSUME NEW js, NEW orphan, WaitLeave(t, js, orphan), pc[t] = "waiting" PROVE WInv'
  <2> DEFINE q1 == RemovePending(q, js)
  <2>1. /\ q1 \in QueueType /\ q1.KickActive = q.KickActive /\ q1.KickRearm = q.KickRearm
        /\ q1.Pending \subseteq q.Pending /\ q1.CoreIdle = q.CoreIdle
    BY QueueIsTyped, RemovePendingType, RemovePendingFrame
  <2> HIDE DEF q1
  <2>2. q' = [q1 EXCEPT !.Completed = @ \ js]
    BY <1>4 DEF WaitLeave, q1
  <2>3. /\ q'.KickActive = q1.KickActive /\ q'.KickRearm = q1.KickRearm
        /\ q'.Pending = q1.Pending /\ q'.CoreIdle = q1.CoreIdle
    BY <2>1, <2>2 DEF QueueType
  <2>4. Moves(t, "idle") /\ UNCHANGED work
    BY <1>4 DEF WaitLeave, Moves
  <2> QED BY <2>1, <2>3, <2>4, MoveShrinks
<1>5. CASE WaitDone(t)
  BY <1>4, <1>5 DEF WaitDone
<1>6. CASE WaitTimeout(t)
  BY <1>4, <1>6 DEF WaitTimeout
<1> QED BY <1>1, <1>2, <1>3, <1>5, <1>6

LEMMA CleanupKeeps ==
    ASSUME TInv, WInv, NEW t \in Threads,
           \/ CloseUnused(t) \/ DrainSweep(t) \/ DrainPin(t) \/ DrainEmpty(t)
           \/ DrainDone(t) \/ DrainTimeout(t)
           \/ CleanupFreeBuffers(t) \/ CleanupDecide(t) \/ CleanupPowerCycle(t)
    PROVE  WInv'
<1> USE AgentFacts DEF Goto
<1>1. CASE CloseUnused(t)
  BY <1>1, StillKeeps DEF CloseUnused
<1>2. CASE DrainSweep(t)
  <2> DEFINE js == JobsOf(FileOf[t], q.Pending \cup q.Completed)
             q1 == RemovePending(q, js)
  <2>1. /\ q1 \in QueueType /\ q1.KickActive = q.KickActive /\ q1.KickRearm = q.KickRearm
        /\ q1.Pending \subseteq q.Pending /\ q1.CoreIdle = q.CoreIdle
    BY QueueIsTyped, RemovePendingType, RemovePendingFrame
  <2> HIDE DEF q1
  <2>2. q' = [q1 EXCEPT !.Completed = @ \ js]
    BY <1>2 DEF DrainSweep, q1
  <2>3. /\ q'.KickActive = q1.KickActive /\ q'.KickRearm = q1.KickRearm
        /\ q'.Pending = q1.Pending /\ q'.CoreIdle = q1.CoreIdle
    BY <2>1, <2>2 DEF QueueType
  <2>4. Moves(t, "drain") /\ UNCHANGED work
    BY <1>2 DEF DrainSweep, Moves, Idle
  <2> QED BY <2>1, <2>3, <2>4, MoveShrinks
<1>3. CASE DrainPin(t)
  BY <1>3, MoveKeeps DEF DrainPin, Moves
<1>4. CASE DrainEmpty(t)
  BY <1>4, MoveKeeps DEF DrainEmpty, Moves
<1>5. ASSUME NEW b, NEW l, DrainUnpin(t, b), pc' = [pc EXCEPT ![t] = l], UNCHANGED work
      PROVE  WInv'
  <2>1. PICK js : q' = [q EXCEPT !.Completed = @ \ js]
    BY <1>5 DEF DrainUnpin
  <2>2. /\ q'.KickActive = q.KickActive /\ q'.KickRearm = q.KickRearm
        /\ q'.Pending = q.Pending /\ q'.CoreIdle = q.CoreIdle
    BY <2>1, QueueIsTyped DEF QueueType
  <2>3. Moves(t, l)
    BY <1>5 DEF DrainUnpin, Moves
  <2> QED BY <1>5, <2>2, <2>3, MoveShrinks
<1>6. CASE DrainDone(t)
  BY <1>5, <1>6 DEF DrainDone
<1>7. CASE DrainTimeout(t)
  BY <1>5, <1>7 DEF DrainTimeout
<1>8. CASE CleanupFreeBuffers(t)
  BY <1>8, MoveKeeps DEF CleanupFreeBuffers, Moves
<1>9. CASE CleanupDecide(t)
  <2>1. UNCHANGED <<q, work>> /\ (Moves(t, "idle") \/ Moves(t, "pdCycle"))
    BY <1>9 DEF CleanupDecide, Moves
  <2> QED BY <2>1, MoveKeeps
<1>10. CASE CleanupPowerCycle(t)
  BY <1>10, MoveKeeps DEF CleanupPowerCycle, Moves
<1> QED BY <1>1, <1>2, <1>3, <1>4, <1>6, <1>7, <1>8, <1>9, <1>10

LEMMA PeerKeeps ==
    ASSUME TInv, WInv, PeerStep \/ PeerDrop
    PROVE  WInv'
<1> USE AgentFacts DEF Goto
<1>1. CASE PeerCompletion
  <2>1. PICK j \in atPeer :
          \/ UNCHANGED <<q, pc>>
          \/ /\ q' = [ReleaseSlot(q, 1) EXCEPT !.Completed = @ \cup {j}]
             /\ \E l \in {"signal", "signalKick"} : pc' = [pc EXCEPT !["peer"] = l]
    BY <1>1 DEF PeerCompletion
  <2>2. UNCHANGED work /\ pc["peer"] = "idle"
    BY <1>1 DEF PeerCompletion
  <2>3. CASE UNCHANGED <<q, pc>>
    BY <2>2, <2>3, StillKeeps
  <2>4. CASE /\ q' = [ReleaseSlot(q, 1) EXCEPT !.Completed = @ \cup {j}]
             /\ \E l \in {"signal", "signalKick"} : pc' = [pc EXCEPT !["peer"] = l]
    <3> DEFINE q1 == ReleaseSlot(q, 1)
    <3>1. /\ q1 \in QueueType /\ q1.KickActive = q.KickActive /\ q1.KickRearm = q.KickRearm
          /\ q1.Pending = q.Pending /\ q1.CoreIdle = q.CoreIdle \cup {1}
      BY QueueIsTyped, ReleaseSlotType, ReleaseSlotFrame DEF Cores
    <3> HIDE DEF q1
    <3>2. q' = [q1 EXCEPT !.Completed = @ \cup {j}]
      BY <2>4 DEF q1
    <3>3. /\ q'.KickActive = q1.KickActive /\ q'.KickRearm = q1.KickRearm
          /\ q'.Pending = q1.Pending /\ q'.CoreIdle = q1.CoreIdle
      BY <3>1, <3>2 DEF QueueType
    <3>4. \E l \in {"signal", "signalKick"} : Moves("peer", l)
      BY <2>2, <2>4 DEF Moves
    <3> QED BY <2>2, <3>1, <3>3, <3>4, MoveShrinks
  <2> QED BY <2>1, <2>3, <2>4
<1>2. CASE PeerCompletionSignal
  <2>1. /\ pc["peer"] \in {"signal", "signalKick"} /\ UNCHANGED <<q, work>>
        /\ \E l \in {"arm", "idle"} : pc' = [pc EXCEPT !["peer"] = l]
    BY <1>2 DEF PeerCompletionSignal
  <2>2. \E l \in {"arm", "idle"} : Moves("peer", l)
    BY <2>1 DEF Moves
  <2> QED BY <2>1, <2>2, MoveKeeps
<1>3. CASE PeerDrop
  BY <1>3, StillKeeps DEF PeerDrop
<1> QED BY <1>1, <1>2, <1>3 DEF PeerStep

LEMMA PnpKeeps ==
    ASSUME TInv, WInv, PnpStep
    PROVE  WInv'
<1> USE AgentFacts DEF Goto
<1>1. CASE PeerArrival
  <2>1. /\ q'.KickActive = q.KickActive /\ q'.KickRearm = q.KickRearm
        /\ q'.Pending = q.Pending /\ q'.CoreIdle = q.CoreIdle \cup {1}
    BY <1>1, QueueIsTyped DEF PeerArrival, QueueType
  <2>2. UNCHANGED <<work, pc>>
    BY <1>1 DEF PeerArrival
  <2>3. Frame
    BY <2>1, <2>2 DEF Frame
  <2> QED BY <2>3, FrameKeeps
<1>2. CASE DetachPeer
  <2>1. /\ q'.KickActive = q.KickActive /\ q'.KickRearm = q.KickRearm
        /\ q'.Pending = q.Pending /\ q'.CoreIdle \subseteq q.CoreIdle
    BY <1>2, QueueIsTyped DEF DetachPeer, QueueType
  <2>2. UNCHANGED work /\ \E l \in {"wait1", "idle"} : Moves("pnp", l)
    BY <1>2 DEF DetachPeer, Moves
  <2> QED BY <2>1, <2>2, MoveShrinks
<1>3. CASE MasterIommuQueryRemove
  <2>1. UNCHANGED <<q, work>> /\ Moves("pnp", "probe0")
    BY <1>3 DEF MasterIommuQueryRemove, Moves
  <2> QED BY <2>1, MoveKeeps
<1>4. ASSUME NEW c \in Cores, QueryRemoveProbe(c) PROVE WInv'
  <2>1. /\ UNCHANGED <<q, work>> /\ pc["pnp"] \in {"probe0", "probe1"}
        /\ \E l \in {"wait0", "wait1", "probe1", "idle"} : pc' = [pc EXCEPT !["pnp"] = l]
    BY <1>4 DEF QueryRemoveProbe
  <2>2. \E l \in {"wait0", "wait1", "probe1", "idle"} : Moves("pnp", l)
    BY <2>1 DEF Moves
  <2> QED BY <2>1, <2>2, MoveKeeps
<1>5. CASE UnpinnedWaitEnds
  <2>1. UNCHANGED <<q, work>> /\ \E l \in {"probe1", "idle"} : Moves("pnp", l)
    BY <1>5 DEF UnpinnedWaitEnds, Moves
  <2> QED BY <2>1, MoveKeeps
<1> QED BY <1>1, <1>2, <1>3, <1>4, <1>5 DEF PnpStep

LEMMA BufferKeeps ==
    ASSUME TInv, WInv, NEW t \in Threads, AllocBuffer(t) \/ FreeBuffer(t)
    PROVE  WInv'
BY StillKeeps DEF AllocBuffer, FreeBuffer

LEMMA ThreadKeeps ==
    ASSUME TInv, WInv, NEW t \in Threads, ThreadStep(t)
    PROVE  WInv'
BY BufferKeeps, SubmitKeeps, WaitKeeps, CleanupKeeps DEF ThreadStep

LEMMA NextKeeps == TInv /\ WInv /\ [Next]_vars => WInv'
<1> SUFFICES ASSUME TInv, WInv, [Next]_vars PROVE WInv'
  OBVIOUS
<1>1. CASE UNCHANGED vars
  BY <1>1, StillKeeps DEF vars
<1>2. CASE Next
  <2>1. CASE Quiescent
    BY <2>1, StillKeeps DEF Quiescent, vars
  <2> QED BY <1>2, <2>1, ThreadKeeps, KickKeeps, CompleteKeeps, InterruptKeeps, WorkerKeeps,
             PeerKeeps, PnpKeeps DEF Next
<1> QED BY <1>1, <1>2

LEMMA InitKeeps == Init => WInv
BY AgentFacts DEF Init, RkMppJobQueueInit, WInv, KickProtocol, NoLostKick

\* KickActive is true exactly while a run of RkMppKickWorker is queued or going
\* on, the work item is never queued while it runs, and a rearm never falls
\* between two runs, whatever completes, submits, attaches or detaches.
THEOREM KickProtocolHolds == Spec => []KickProtocol
<1>1. WInv => KickProtocol
  BY DEF WInv
<1> QED BY <1>1, InitTyped, NextTyped, InitKeeps, NextKeeps, PTL DEF Spec

\* While a job waits on Pending and core 0 is idle, some agent owes the queue a
\* pass of the worker: no interleaving of completions, submissions, timeouts,
\* cleanups and peer events leaves work behind on an idle core 0.
THEOREM NoKickIsLost == Spec => []NoLostKick
<1>1. WInv => NoLostKick
  BY DEF WInv
<1> QED BY <1>1, InitTyped, NextTyped, InitKeeps, NextKeeps, PTL DEF Spec

-----------------------------------------------------------------------------
(***************************************************************************)
(* Who drives each core and who owns the memory of each job, for every     *)
(* number of files, threads and jobs.                                      *)
(***************************************************************************)

\* The promotions of a list, and those agent a has still to kick.
Entries(s) == {s[i] : i \in DOMAIN s}
Todo(a)    == Entries(promos[a])

DistinctCores(s) == \A i, k \in DOMAIN s : s[i].core = s[k].core => i = k

-----------------------------------------------------------------------------
(***************************************************************************)
(* Promotion lists, and what PromoteUntilFull does to queue and jobs.      *)
(***************************************************************************)

\* The entry that is kicked leaves the list, and no other does.
LEMMA TailFacts ==
    ASSUME NEW s \in Seq(Promotion), s # <<>>, DistinctCores(s)
    PROVE  /\ Head(s) \in Entries(s) /\ Head(s) \in Promotion
           /\ Entries(Tail(s)) = Entries(s) \ {Head(s)}
           /\ DistinctCores(Tail(s))
           /\ \A e \in Entries(Tail(s)) : e.core # Head(s).core
           /\ Tail(s) \in Seq(Promotion)
<1>1. /\ Len(s) \in Nat /\ Len(s) >= 1 /\ DOMAIN s = 1 .. Len(s) /\ Head(s) = s[1]
      /\ \A i \in 1 .. Len(s) : s[i] \in Promotion
      /\ Tail(s) \in Seq(Promotion) /\ Len(Tail(s)) = Len(s) - 1
      /\ DOMAIN Tail(s) = 1 .. Len(s) - 1
      /\ \A i \in 1 .. Len(s) - 1 : Tail(s)[i] = s[i + 1]
  OBVIOUS
<1>2. Head(s) \in Entries(s) /\ Head(s) \in Promotion
  BY <1>1 DEF Entries
<1>3. \A i \in 1 .. Len(s) - 1 : i + 1 \in 1 .. Len(s) /\ i + 1 # 1
  BY <1>1
<1>4. DistinctCores(Tail(s))
  BY <1>1, <1>3 DEF DistinctCores
<1>5. \A e \in Entries(Tail(s)) : e.core # Head(s).core
  <2> TAKE e \in Entries(Tail(s))
  <2>1. PICK i \in 1 .. Len(s) - 1 : e = s[i + 1]
    BY <1>1 DEF Entries
  <2> QED BY <1>1, <1>3, <2>1 DEF DistinctCores
<1>6. Entries(Tail(s)) \subseteq Entries(s)
  BY <1>1, <1>3 DEF Entries
<1>7. \A e \in Entries(s) : e # Head(s) => e \in Entries(Tail(s))
  <2> SUFFICES ASSUME NEW e \in Entries(s), e # Head(s) PROVE e \in Entries(Tail(s))
    OBVIOUS
  <2>1. PICK i \in 1 .. Len(s) : e = s[i]
    BY <1>1 DEF Entries
  <2>2. i - 1 \in 1 .. Len(s) - 1 /\ Tail(s)[i - 1] = s[i]
    BY <1>1, <2>1
  <2> QED BY <1>1, <2>1, <2>2 DEF Entries
<1> QED BY <1>1, <1>2, <1>4, <1>5, <1>6, <1>7

LEMMA EmptyFacts == Entries(<<>>) = {} /\ DistinctCores(<<>>)
BY DEF Entries, DistinctCores

LEMMA EntriesTyped ==
    ASSUME NEW s \in Seq(Promotion)
    PROVE  /\ Entries(s) \subseteq Promotion
           /\ Entries(s) = {} => s = <<>>
<1>1. DOMAIN s = 1 .. Len(s) /\ Len(s) \in Nat /\ \A i \in 1 .. Len(s) : s[i] \in Promotion
  OBVIOUS
<1>2. Len(s) # 0 => 1 \in DOMAIN s
  BY <1>1
<1>3. Len(s) = 0 => s = <<>>
  OBVIOUS
<1> QED BY <1>1, <1>2, <1>3 DEF Entries

LEMMA PromotionFacts ==
    /\ \A e \in Promotion : e.job \in JobId /\ e.core \in Cores
    /\ \A e, g \in Promotion : e.job = g.job /\ e.core = g.core => e = g
BY DEF Promotion

\* Queue r is queue p after the promotions of the set es.
Promotes(p, r, es) ==
    /\ \A e \in es : e.job \in p.Pending /\ e.core \in p.CoreIdle /\ e.core < p.CoreCount
    /\ \A e, g \in es : e.job = g.job \/ e.core = g.core => e = g
    /\ r.Pending = p.Pending \ {e.job : e \in es}
    /\ r.CoreIdle = p.CoreIdle \ {e.core : e \in es}
    /\ \A e \in es : /\ r.InFlight[e.core] = e.job
                     /\ r.CorePending[e.core] = p.CorePending[e.core] + 1
    /\ \A c \in Cores : (\A e \in es : e.core # c) =>
          r.InFlight[c] = p.InFlight[c] /\ r.CorePending[c] = p.CorePending[c]
    /\ r.Completed = p.Completed /\ r.CoreCount = p.CoreCount /\ r.PeerOpen = p.PeerOpen

LEMMA PromoteOneFacts ==
    ASSUME NEW p \in [q : QueueType, out : Seq(Promotion)], NEW owner \in OwnerType,
           CanPromote(p.q)
    PROVE  \E e \in Promotion : /\ PromoteOne(p, owner).out = Append(p.out, e)
                                /\ Promotes(p.q, PromoteOne(p, owner).q, {e})
<1> DEFINE qq == p.q
           c == PickTargetCore(qq)
           j == PickPendingByOwnerLru(qq, owner)
           s == LruSlot(qq.OwnerLru, owner[j])
           q1 == RemovePending(qq, {j})
           x == [File |-> owner[j], LastKickId |-> j]
           e == [job |-> j, core |-> c]
<1>1. qq \in QueueType /\ qq.Pending # {} /\ IdleCores(qq) # {}
  BY DEF CanPromote
<1>2. c \in Cores /\ c \in qq.CoreIdle /\ c < qq.CoreCount
  BY <1>1, PickTargetType DEF IdleCores, VisibleCores
<1>3. j \in JobId /\ j \in qq.Pending
  BY <1>1, PickPendingType
<1>4. q1 \in QueueType /\ q1.Pending = qq.Pending \ {j}
  BY <1>1, RemovePendingType, RemovePendingFrame
<1>5. /\ q1.InFlight = qq.InFlight /\ q1.CoreIdle = qq.CoreIdle
      /\ q1.CorePending = qq.CorePending /\ q1.Completed = qq.Completed
      /\ q1.CoreCount = qq.CoreCount /\ q1.PeerOpen = qq.PeerOpen
  BY <1>1 DEF RemovePending, QueueType
<1> DEFINE q2 == [q1 EXCEPT !.InFlight[c] = j, !.CoreIdle = @ \ {c},
                            !.CorePending[c] = @ + 1, !.LastKickCore = c,
                            !.OwnerLru[s] = x]
<1>6. PromoteOne(p, owner) = [q |-> q2, out |-> Append(p.out, e)]
  BY DEF PromoteOne
<1>7. e \in Promotion /\ e.job = j /\ e.core = c
  BY <1>2, <1>3 DEF Promotion
<1> HIDE DEF c, j, s, q1, x, qq
<1>8. /\ q2.InFlight = [q1.InFlight EXCEPT ![c] = j]
      /\ q2.CoreIdle = q1.CoreIdle \ {c}
      /\ q2.CorePending = [q1.CorePending EXCEPT ![c] = @ + 1]
      /\ q2.Pending = q1.Pending /\ q2.Completed = q1.Completed
      /\ q2.CoreCount = q1.CoreCount /\ q2.PeerOpen = q1.PeerOpen
  BY <1>4 DEF QueueType
<1>9. q1.InFlight \in [Cores -> JobId \cup {NoJob}] /\ q1.CorePending \in [Cores -> Nat]
  BY <1>4 DEF QueueType
<1> HIDE DEF q2, e
<1>10. /\ q2.InFlight[c] = j /\ q2.CorePending[c] = q1.CorePending[c] + 1
       /\ \A d \in Cores : d # c => /\ q2.InFlight[d] = q1.InFlight[d]
                                    /\ q2.CorePending[d] = q1.CorePending[d]
  BY <1>2, <1>8, <1>9
<1>11. Promotes(qq, q2, {e})
  BY <1>2, <1>3, <1>4, <1>5, <1>7, <1>8, <1>10 DEF Promotes
<1>12. PromoteOne(p, owner).out = Append(p.out, e) /\ PromoteOne(p, owner).q = q2
  BY <1>6
<1> QED BY <1>7, <1>11, <1>12 DEF qq

LEMMA PromoteFacts ==
    ASSUME NEW qq \in QueueType, NEW owner \in OwnerType
    PROVE  LET r == PromoteUntilFull(qq, owner) IN
           /\ r.q \in QueueType /\ r.out \in Seq(Promotion)
           /\ DistinctCores(r.out)
           /\ Promotes(qq, r.q, Entries(r.out))
<1> DEFINE PType == [q : QueueType, out : Seq(Promotion)]
           p0 == [q |-> qq, out |-> <<>>]
           p1 == IF CanPromote(qq) THEN PromoteOne(p0, owner) ELSE p0
           p2 == IF qq.CoreCount = 2 /\ CanPromote(p1.q) THEN PromoteOne(p1, owner) ELSE p1
<1>1. p0 \in PType /\ p0.q = qq /\ p0.out = <<>>
  OBVIOUS
<1>2. Promotes(qq, qq, {})
  BY DEF Promotes
<1>3. \A e : Append(<<>>, e) = <<e>> /\ Entries(<<e>>) = {e} /\ DistinctCores(<<e>>)
  BY DEF Entries, DistinctCores
<1>4. PromoteUntilFull(qq, owner) = p2
  BY DEF PromoteUntilFull
<1>5. p1 \in PType /\ p2 \in PType
  BY <1>1, PromoteOneType
<1>6. CASE ~CanPromote(qq)
  <2>1. p2 = p0
    BY <1>1, <1>6
  <2> HIDE DEF p2, p0
  <2> QED BY <1>1, <1>2, <1>4, <1>5, <2>1, EmptyFacts
<1>7. CASE CanPromote(qq)
  <2>1. PICK e \in Promotion : p1.out = Append(<<>>, e) /\ Promotes(qq, p1.q, {e})
    BY <1>1, <1>7, PromoteOneFacts
  <2> HIDE DEF p1, p0
  <2>2. p1.out = <<e>> /\ Entries(p1.out) = {e} /\ DistinctCores(p1.out)
    BY <1>3, <2>1
  <2>3. CASE ~(qq.CoreCount = 2 /\ CanPromote(p1.q))
    <3>1. p2 = p1
      BY <2>3
    <3> HIDE DEF p2
    <3> QED BY <1>4, <1>5, <2>1, <2>2, <3>1
  <2>4. CASE qq.CoreCount = 2 /\ CanPromote(p1.q)
    <3>1. PICK g \in Promotion : p2.out = Append(p1.out, g) /\ Promotes(p1.q, p2.q, {g})
      BY <1>5, <2>4, PromoteOneFacts
    <3> HIDE DEF p2
    <3>2. DOMAIN p2.out = {1, 2} /\ p2.out[1] = e /\ p2.out[2] = g
      <4>1. p1.out \in Seq(Promotion) /\ Len(p1.out) = 1 /\ p1.out[1] = e
        BY <1>5, <2>2
      <4>2. /\ DOMAIN Append(p1.out, g) = 1 .. 2
            /\ Append(p1.out, g)[1] = p1.out[1] /\ Append(p1.out, g)[2] = g
        <5> DEFINE r == Append(p1.out, g)
        <5>1. r \in Seq(Promotion) /\ Len(r) = 2
          BY <3>1, <4>1
        <5>2. r[2] = g
          BY <4>1
        <5>3. r[1] = p1.out[1]
          BY <4>1
        <5> HIDE DEF r
        <5>4. DOMAIN r = 1 .. 2
          BY <5>1
        <5> QED BY <5>2, <5>3, <5>4 DEF r
      <4>3. 1 .. 2 = {1, 2}
        OBVIOUS
      <4> QED BY <3>1, <4>1, <4>2, <4>3
    <3>3. /\ e.job \in JobId /\ e.core \in Cores /\ g.job \in JobId /\ g.core \in Cores
          /\ g.core # e.core /\ g.job # e.job
      BY <2>1, <3>1, PromotionFacts DEF Promotes
    <3>5. Entries(p2.out) = {e, g} /\ DistinctCores(p2.out)
      BY <3>2, <3>3 DEF Entries, DistinctCores
    <3>6. p1.q.InFlight[e.core] = e.job /\ p1.q.CorePending[e.core] = qq.CorePending[e.core] + 1
      BY <2>1 DEF Promotes
    <3>7. /\ p2.q.InFlight[e.core] = e.job
          /\ p2.q.CorePending[e.core] = qq.CorePending[e.core] + 1
      BY <3>1, <3>3, <3>6 DEF Promotes
    <3>8. /\ p2.q.InFlight[g.core] = g.job
          /\ p2.q.CorePending[g.core] = qq.CorePending[g.core] + 1
      BY <2>1, <3>1, <3>3 DEF Promotes
    <3>9. Promotes(qq, p2.q, {e, g})
      <4>1. /\ \A x \in {e, g} : x.job \in qq.Pending /\ x.core \in qq.CoreIdle
                                 /\ x.core < qq.CoreCount
            /\ \A x, y \in {e, g} : x.job = y.job \/ x.core = y.core => x = y
        BY <2>1, <3>1, <3>3 DEF Promotes
      <4>2. /\ p2.q.Pending = qq.Pending \ {x.job : x \in {e, g}}
            /\ p2.q.CoreIdle = qq.CoreIdle \ {x.core : x \in {e, g}}
        BY <2>1, <3>1 DEF Promotes
      <4>3. \A c \in Cores : (\A x \in {e, g} : x.core # c) =>
               p2.q.InFlight[c] = qq.InFlight[c] /\ p2.q.CorePending[c] = qq.CorePending[c]
        BY <2>1, <3>1 DEF Promotes
      <4>4. /\ p2.q.Completed = qq.Completed /\ p2.q.CoreCount = qq.CoreCount
            /\ p2.q.PeerOpen = qq.PeerOpen
        BY <2>1, <3>1 DEF Promotes
      <4> QED BY <3>7, <3>8, <4>1, <4>2, <4>3, <4>4 DEF Promotes
    <3> QED BY <1>4, <1>5, <3>5, <3>9
  <2> QED BY <2>3, <2>4
<1> QED BY <1>6, <1>7

\* The jobs after the promotions of es have stamped their cores.
Stamped(es) ==
    /\ \A j \in JobId : (\A e \in es : e.job # j) => job'[j] = job[j]
    /\ \A e \in es : job'[e.job].TargetCore = e.core
    /\ \A j \in JobId : /\ job'[j].mem = job[j].mem /\ job'[j].Owner = job[j].Owner
                        /\ job'[j].Done = job[j].Done
                        /\ job'[j].OrphanOnComplete = job[j].OrphanOnComplete
                        /\ job'[j].WaiterPin = job[j].WaiterPin

LEMMA StampFacts ==
    ASSUME TInv, NEW out \in Seq(Promotion), job' = StampCores(job, out),
           \A e, g \in Entries(out) : e.job = g.job => e = g
    PROVE  Stamped(Entries(out))
<1>1. \A i \in DOMAIN out : out[i] \in Entries(out) /\ out[i] \in Promotion
  BY DEF Entries
<1>2. ASSUME NEW j \in JobId, \A e \in Entries(out) : e.job # j
      PROVE  job'[j] = job[j]
  BY <1>1, <1>2 DEF StampCores
<1>3. ASSUME NEW e \in Entries(out)
      PROVE  job'[e.job] = [job[e.job] EXCEPT !.TargetCore = e.core]
  <2> DEFINE i == CHOOSE k \in DOMAIN out : out[k].job = e.job
  <2>1. \E k \in DOMAIN out : out[k].job = e.job
    BY DEF Entries
  <2>2. i \in DOMAIN out /\ out[i].job = e.job
    BY <2>1
  <2>3. out[i] = e
    BY <1>1, <2>2
  <2>4. e.job \in JobId
    BY <1>1, <2>2, <2>3, PromotionFacts
  <2>5. job'[e.job] = [job[e.job] EXCEPT !.TargetCore = out[i].core]
    BY <2>1, <2>4 DEF StampCores
  <2> QED BY <2>3, <2>5
<1>4. \A e \in Entries(out) : e.job \in JobId
  BY PromotionFacts DEF Entries
<1>5. \A j \in JobId : job[j] \in JobType
  BY DEF TInv, TypeOK
<1>6. \A e \in Entries(out) : /\ job'[e.job].TargetCore = e.core
                              /\ job'[e.job].mem = job[e.job].mem
                              /\ job'[e.job].Owner = job[e.job].Owner
                              /\ job'[e.job].Done = job[e.job].Done
                              /\ job'[e.job].OrphanOnComplete = job[e.job].OrphanOnComplete
                              /\ job'[e.job].WaiterPin = job[e.job].WaiterPin
  BY <1>3, <1>4, <1>5 DEF JobType
<1> QED BY <1>2, <1>6 DEF Stamped

-----------------------------------------------------------------------------
(***************************************************************************)
(* The invariant that holds in every environment.  A core is steady when   *)
(* nothing but a completion or a failed kick empties its slot: RVD0        *)
(* always, RVD1 when it is never detached.                                 *)
(***************************************************************************)
Steady == IF "peerDetach" \in Env THEN {0} ELSE Cores

KickPcs    == {"kick", "kickStart", "peerCall", "peerFailed"}
EndPcs     == {"complete", "gate", "arm"}
NeutralPcs == PC \ (KickPcs \cup EndPcs)
PnpPcs     == {"probe0", "probe1", "wait0", "wait1"}
SignalPcs  == {"signal", "signalKick"}

\* Where each agent can be.
PcInv ==
    /\ \A t \in Threads : pc[t] \notin {"loop"} \cup SignalPcs \cup PnpPcs
    /\ pc["worker"] \in {"idle", "loop"} \cup KickPcs \cup EndPcs
    /\ pc["dpc"] \in {"idle"} \cup EndPcs
    /\ pc["peer"] \in {"idle", "arm"} \cup SignalPcs
    /\ pc["pnp"] \in {"idle"} \cup PnpPcs

\* Promotion lists have one entry per core and exist only while kicking; the
\* entry at the head is for the core the program counter says, and the entry
\* for core 0 has been kicked when its job is being completed.
PromoInv ==
    /\ \A a \in Agents : DistinctCores(promos[a])
    /\ \A a \in Agents : promos[a] # <<>> => pc[a] \in KickPcs \cup EndPcs
    /\ promos["dpc"] = <<>> /\ promos["peer"] = <<>>
    /\ \A a \in Agents : pc[a] = "kickStart" => Head(promos[a]).core = 0
    /\ \A a \in Agents : pc[a] \in {"peerCall", "peerFailed"} => Head(promos[a]).core = 1
    /\ \A a \in Agents : pc[a] \in EndPcs => \A e \in Todo(a) : e.core # 0

\* Promotion e of agent a holds its core: it has not been rolled back.
Holds(a, e) == e \in Todo(a) /\ ~ (pc[a] = "peerFailed" /\ e.core = 1)

\* The job a promotion names is in the slot, and no two agents have
\* promotions for one core.
KickInv ==
    /\ \A a \in Agents : \A e \in Todo(a) :
          e.core \in Steady /\ Holds(a, e) => q.InFlight[e.core] = e.job
    /\ \A a, b \in Agents : \A e \in Todo(a), g \in Todo(b) :
          e.core \in Steady /\ e.core = g.core /\ Holds(a, e) /\ Holds(b, g) => a = b

\* Agent a has core 0 in hand.
Active(a) == pc[a] = "complete" \/ \E e \in Todo(a) : e.core = 0

\* One activity on core 0, for the job in its slot.
DriveInv ==
    /\ \A a, b \in Agents : Active(a) /\ Active(b) => a = b
    /\ \A a \in Agents : Active(a) => hwJob = NoJob /\ isr = "none" /\ q.InFlight[0] # NoJob
    /\ hwJob # NoJob => hwJob = q.InFlight[0] /\ isr = "none"
    /\ isr # "none" => q.InFlight[0] # NoJob

\* RVD1 works on the job in slot 1, which nobody has still to kick.
PeerInv ==
    1 \in Steady =>
        /\ \A j \in atPeer : q.InFlight[1] = j
        /\ \A a \in Agents : \A e \in Todo(a) : e.core = 1 /\ Holds(a, e) => atPeer = {}

\* Idle mask, count and slot of a steady core agree, and the job knows it.
SlotInv ==
    /\ q.PeerOpen <=> q.CoreCount = 2
    /\ \A c \in Steady :
          /\ c \in q.CoreIdle <=> q.InFlight[c] = NoJob /\ c < q.CoreCount
          /\ q.CorePending[c] = IF q.InFlight[c] = NoJob THEN 0 ELSE 1
          /\ q.InFlight[c] # NoJob => c < q.CoreCount /\ job[q.InFlight[c]].TargetCore = c

\* Job j is on its way to core 0 or on it.
Ahead(j) == \/ j \in q.Pending \/ q.InFlight[0] = j
            \/ \E t \in Threads : pc[t] = "enqueue" /\ cur[t] = j

\* Job j has been given to core 1.
Peered(j) == \/ q.InFlight[1] = j \/ j \in atPeer
             \/ \E a \in Agents : \E e \in Todo(a) : e.core = 1 /\ e.job = j

\* Job j is over: finished, freed, or in the hands of whoever finishes it.
Over(j) == \/ job[j].Done \/ job[j].mem # "alloc" \/ j \in q.Completed
           \/ \E t \in Threads : pc[t] = "take" /\ cur[t] = j
           \/ \E a \in Agents : pc[a] = "peerFailed" /\ Head(promos[a]).job = j
           \/ pc["peer"] \in SignalPcs /\ cur["peer"] = j

\* A job is in one place before its core, and what is there is not over.
LiveInv ==
    /\ q.InFlight[0] \notin q.Pending
    /\ \A t \in Threads : pc[t] = "enqueue" => cur[t] \notin q.Pending /\ cur[t] # q.InFlight[0]
    /\ \A t, u \in Threads : pc[t] = "enqueue" /\ pc[u] = "enqueue" /\ cur[u] = cur[t] => t = u
    /\ \A j \in JobId : Ahead(j) => ~Over(j) /\ ~Peered(j)
    /\ 1 \in Steady /\ q.InFlight[1] # NoJob => ~Over(q.InFlight[1])

\* No id beyond nextId has been used.
IdInv ==
    /\ \A j \in q.Pending \cup q.Completed \cup atPeer : j <= nextId
    /\ \A c \in Cores : q.InFlight[c] <= nextId
    /\ \A a \in Agents : cur[a] <= nextId
    /\ \A a \in Agents : \A e \in Todo(a) : e.job <= nextId
    /\ \A j \in JobId : j > nextId => job[j].mem = "none"

OInv == PcInv /\ PromoInv /\ KickInv /\ DriveInv /\ PeerInv /\ SlotInv /\ LiveInv /\ IdInv

LEMMA OInit == Init => OInv
<1> SUFFICES ASSUME Init PROVE OInv
  OBVIOUS
<1> USE AgentFacts, ConstantFacts DEF Init
<1>1. /\ q.Pending = {} /\ q.Completed = {} /\ q.PeerOpen = FALSE /\ q.CoreCount = 1
      /\ q.CoreIdle = {0} /\ q.InFlight = [c \in Cores |-> NoJob]
      /\ q.CorePending = [c \in Cores |-> 0]
  BY DEF RkMppJobQueueInit
<1>2. \A c \in Cores : q.InFlight[c] = NoJob /\ q.CorePending[c] = 0
  BY <1>1
<1>3. \A a \in Agents : promos[a] = <<>> /\ Todo(a) = {} /\ pc[a] = "idle" /\ cur[a] = NoJob
  BY EmptyFacts DEF Todo
<1>4. Steady \subseteq Cores /\ Cores = {0, 1}
  BY DEF Steady, Cores
<1>5. PcInv /\ PromoInv
  BY <1>3, EmptyFacts DEF PcInv, PromoInv, KickPcs, EndPcs, SignalPcs, PnpPcs
<1>6. KickInv /\ DriveInv /\ PeerInv
  BY <1>2, <1>3, <1>4 DEF KickInv, DriveInv, PeerInv, Active
<1>7. SlotInv
  BY <1>1, <1>2, <1>4 DEF SlotInv
<1>8. LiveInv
  <2>1. \A j \in JobId : ~Ahead(j)
    BY <1>1, <1>2, <1>3, <1>4 DEF Ahead
  <2> QED BY <1>1, <1>2, <1>3, <1>4, <2>1 DEF LiveInv
<1>9. IdInv
  <2>1. \A j \in JobId : job[j].mem = "none"
    BY DEF NoRecord, NewJob
  <2> QED BY <1>1, <1>2, <1>3, <2>1 DEF IdInv, NoJob
<1> QED BY <1>5, <1>6, <1>7, <1>8, <1>9 DEF OInv

-----------------------------------------------------------------------------
(***************************************************************************)
(* What a step that leaves the cores alone preserves.                      *)
(***************************************************************************)
SameSlots ==
    /\ q'.InFlight = q.InFlight /\ q'.CoreIdle = q.CoreIdle /\ q'.CorePending = q.CorePending
    /\ q'.CoreCount = q.CoreCount /\ q'.PeerOpen = q.PeerOpen

\* Agent a goes from one neutral place to another.
Calm(a, l) ==
    /\ pc[a] \in NeutralPcs /\ l \in NeutralPcs /\ pc' = [pc EXCEPT ![a] = l]
    /\ SameSlots /\ UNCHANGED <<promos, hwJob, isr, atPeer>>

LEMMA SteadyFacts == 0 \in Steady /\ Steady \subseteq Cores /\ Cores = {0, 1}
BY DEF Steady, Cores

LEMMA MoveFacts ==
    ASSUME TInv, NEW a \in Agents, NEW l, pc' = [pc EXCEPT ![a] = l]
    PROVE  pc'[a] = l /\ \A b \in Agents : b # a => pc'[b] = pc[b]
BY DEF TInv, TypeOK

LEMMA CalmKeeps ==
    ASSUME TInv, OInv, NEW a \in Agents, NEW l, Calm(a, l)
    PROVE  PromoInv' /\ KickInv' /\ DriveInv' /\ PeerInv'
<1>1. pc'[a] = l /\ \A b \in Agents : b # a => pc'[b] = pc[b]
  BY MoveFacts DEF Calm
<1>2. promos' = promos /\ \A b \in Agents : Todo(b)' = Todo(b)
  BY DEF Calm, Todo
<1>3. promos[a] = <<>> /\ Todo(a) = {}
  BY EmptyFacts DEF Calm, NeutralPcs, OInv, PromoInv, Todo
<1>4. l \notin KickPcs \cup EndPcs /\ pc[a] \notin KickPcs \cup EndPcs
  BY DEF Calm, NeutralPcs
<1>5. PromoInv'
  BY <1>1, <1>2, <1>3, <1>4 DEF OInv, PromoInv, KickPcs, EndPcs
<1>6. \A b \in Agents : \A e : Holds(b, e)' <=> Holds(b, e)
  BY <1>1, <1>2, <1>3, <1>4 DEF Holds, KickPcs
<1>7. KickInv' /\ PeerInv'
  BY <1>2, <1>6 DEF OInv, KickInv, PeerInv, Calm, SameSlots
<1>8. \A b \in Agents : Active(b)' <=> Active(b)
  BY <1>1, <1>2, <1>4 DEF Active, EndPcs
<1>9. DriveInv'
  BY <1>8 DEF OInv, DriveInv, Calm, SameSlots
<1> QED BY <1>5, <1>7, <1>9

LEMMA SlotKeeps ==
    ASSUME OInv, SameSlots,
           \A c \in Steady : q.InFlight[c] # NoJob =>
               job'[q.InFlight[c]].TargetCore = job[q.InFlight[c]].TargetCore
    PROVE  SlotInv'
BY DEF OInv, SlotInv, SameSlots

\* Jobs leave their places, and none that stays is over.
LEMMA LiveKeeps ==
    ASSUME OInv, q'.Pending \subseteq q.Pending, q'.InFlight = q.InFlight,
           \A t \in Threads : pc'[t] = "enqueue" => pc[t] = "enqueue" /\ cur'[t] = cur[t],
           \A j \in JobId : Peered(j)' => Peered(j),
           \A j \in JobId : Ahead(j)' /\ Over(j)' => Over(j),
           q.InFlight[1] # NoJob /\ 1 \in Steady => (Over(q.InFlight[1])' => Over(q.InFlight[1]))
    PROVE  LiveInv'
<1>1. \A j \in JobId : Ahead(j)' => Ahead(j)
  BY DEF Ahead
<1> QED BY <1>1 DEF OInv, LiveInv

-----------------------------------------------------------------------------
(***************************************************************************)
(* The requests of a thread other than the submission: it moves between    *)
(* neutral places, jobs leave the lists, and the jobs js are freed.        *)
(***************************************************************************)
Leaves(t, l, c, js) ==
    /\ Calm(t, l) /\ l \notin {"enqueue", "loop"} \cup SignalPcs \cup PnpPcs
    /\ cur' = [cur EXCEPT ![t] = c] /\ c \in JobId \cup {NoJob} /\ c <= nextId
    /\ l = "take" => c \in JobId /\ Over(c)
    /\ nextId' = nextId
    /\ q'.Pending \subseteq q.Pending /\ q'.Completed \subseteq q.Completed
    /\ \A j \in JobId : j \notin js =>
          /\ job'[j].TargetCore = job[j].TargetCore /\ job'[j].mem = job[j].mem
          /\ job'[j].Done = job[j].Done
    /\ \A j \in JobId : j \in js =>
          /\ j <= nextId /\ j \notin q'.Pending /\ q.InFlight[0] # j
          /\ 1 \in Steady => q.InFlight[1] # j
          /\ \A u \in Threads : pc'[u] = "enqueue" => cur[u] # j

LEMMA LeavesInv ==
    ASSUME TInv, OInv, NEW t \in Threads, NEW l, NEW c, NEW js, Leaves(t, l, c, js)
    PROVE  OInv'
<1> USE AgentFacts
<1>0. Calm(t, l) /\ SameSlots /\ promos' = promos /\ atPeer' = atPeer
  BY DEF Leaves, Calm
<1>1. pc'[t] = l /\ \A b \in Agents : b # t => pc'[b] = pc[b]
  BY <1>0, MoveFacts DEF Calm
<1>2. cur'[t] = c /\ \A b \in Agents : b # t => cur'[b] = cur[b]
  BY DEF Leaves, TInv, TypeOK
<1>3. PromoInv' /\ KickInv' /\ DriveInv' /\ PeerInv'
  BY <1>0, CalmKeeps
<1>4. PcInv'
  BY <1>1 DEF OInv, PcInv, Leaves
<1>5. \A d \in Steady : q.InFlight[d] # NoJob => q.InFlight[d] \in JobId /\ q.InFlight[d] \notin js
  <2>1. \A d \in Cores : q.InFlight[d] \in JobId \cup {NoJob}
    BY DEF TInv, TypeOK, QueueType
  <2> QED BY <2>1, SteadyFacts DEF Leaves
<1>6. SlotInv'
  BY <1>0, <1>5, SlotKeeps DEF Leaves
<1>7. \A b \in Agents : Todo(b)' = Todo(b)
  BY <1>0 DEF Todo
<1>8. \A j \in JobId : Peered(j)' => Peered(j)
  BY <1>0, <1>7 DEF Peered, SameSlots
<1>9. \A j \in JobId : j \notin js /\ Over(j)' => Over(j)
  <2> SUFFICES ASSUME NEW j \in JobId, j \notin js, Over(j)' PROVE Over(j)
    OBVIOUS
  <2>1. job'[j].mem = job[j].mem /\ job'[j].Done = job[j].Done
    BY DEF Leaves
  <2>2. l \notin {"peerFailed"} /\ pc[t] \in NeutralPcs
    BY DEF Leaves, Calm, NeutralPcs, KickPcs
  <2>3. pc'["peer"] = pc["peer"] /\ cur'["peer"] = cur["peer"]
    BY <1>1, <1>2
  <2>4. ASSUME NEW a \in Agents, pc'[a] = "peerFailed" PROVE pc[a] = "peerFailed"
    BY <1>1, <2>2, <2>4
  <2>5. ASSUME NEW u \in Threads, pc'[u] = "take", cur'[u] = j PROVE Over(j)
    <3>1. CASE u = t
      BY <1>1, <1>2, <2>5, <3>1 DEF Leaves
    <3>2. CASE u # t
      BY <1>1, <1>2, <2>5, <3>2 DEF Over
    <3> QED BY <3>1, <3>2
  <2>6. q'.Completed \subseteq q.Completed
    BY DEF Leaves
  <2> QED BY <1>0, <2>1, <2>3, <2>4, <2>5, <2>6 DEF Over
<1>10. \A u \in Threads : pc'[u] = "enqueue" => pc[u] = "enqueue" /\ cur'[u] = cur[u]
  BY <1>1, <1>2 DEF Leaves
<1>11. \A j \in JobId : Ahead(j)' => j \notin js
  BY <1>0, <1>10 DEF Ahead, Leaves, SameSlots
<1>12. q.InFlight[1] # NoJob /\ 1 \in Steady => (Over(q.InFlight[1])' => Over(q.InFlight[1]))
  BY <1>0, <1>5, <1>9 DEF SameSlots
<1>13. LiveInv'
  <2>1. q'.InFlight = q.InFlight /\ q'.Pending \subseteq q.Pending
    BY <1>0 DEF SameSlots, Leaves
  <2>2. \A j \in JobId : Ahead(j)' /\ Over(j)' => Over(j)
    BY <1>9, <1>11
  <2> QED BY <1>8, <1>10, <1>12, <2>1, <2>2, LiveKeeps
<1>14. IdInv'
  <2>1. \A b \in Agents : cur'[b] <= nextId
    BY <1>2 DEF OInv, IdInv, Leaves
  <2>2. \A j \in JobId : j > nextId => job'[j].mem = "none"
    <3>1. nextId \in Nat /\ \A j \in JobId : j \in Nat
      BY DEF TInv, TypeOK, JobId
    <3> QED BY <3>1 DEF OInv, IdInv, Leaves
  <2> QED BY <1>0, <1>7, <2>1, <2>2 DEF OInv, IdInv, Leaves, SameSlots
<1> QED BY <1>3, <1>4, <1>6, <1>13, <1>14 DEF OInv

\* The fields of the jobs that Free leaves, and of those it frees.
LEMMA FreeFacts ==
    ASSUME NEW js, job' = Free(js)
    PROVE  /\ \A j \in JobId : j \notin js => job'[j] = job[j]
           /\ \A j \in JobId : j \in js =>
                 /\ job'[j].mem = "freed" /\ job'[j].WaiterPin = 0 /\ job'[j].Done = FALSE
                 /\ job'[j].OrphanOnComplete = FALSE /\ job'[j].Owner = NoFile
BY DEF Free, Freed, NewJob

\* Job records r are job, but for the pin and the mark of job j.
Pinned(r, j, pin, orphan) ==
    /\ \A k \in JobId : k # j => r[k] = job[k]
    /\ j \in JobId => /\ r[j].WaiterPin = pin /\ r[j].OrphanOnComplete = orphan
                      /\ r[j].mem = job[j].mem /\ r[j].Owner = job[j].Owner
                      /\ r[j].TargetCore = job[j].TargetCore /\ r[j].Done = job[j].Done

LEMMA PinFacts ==
    ASSUME TInv, NEW j, NEW b \in BOOLEAN
    PROVE  /\ Pinned([job EXCEPT ![j].WaiterPin = @ + 1], j, job[j].WaiterPin + 1,
                     job[j].OrphanOnComplete)
           /\ Pinned([job EXCEPT ![j].WaiterPin = @ - 1], j, job[j].WaiterPin - 1,
                     job[j].OrphanOnComplete)
           /\ Pinned([job EXCEPT ![j].WaiterPin = @ - 1, ![j].OrphanOnComplete = @ \/ b], j,
                     job[j].WaiterPin - 1, job[j].OrphanOnComplete \/ b)
<1>1. \A k \in JobId : job[k] \in JobType
  BY DEF TInv, TypeOK
<1>2. job = [k \in JobId |-> job[k]]
  BY DEF TInv, TypeOK
<1> QED BY <1>1, <1>2 DEF JobType, Pinned

\* A listed job is in no slot and in no submitting thread's hands.
LEMMA ListedFacts ==
    ASSUME TInv, OInv, NEW j \in q.Pending \cup q.Completed
    PROVE  /\ j \in JobId /\ j <= nextId /\ q.InFlight[0] # j
           /\ 1 \in Steady => q.InFlight[1] # j
           /\ \A u \in Threads : pc[u] = "enqueue" => cur[u] # j
<1>1. j \in JobId /\ j <= nextId
  BY DEF TInv, TypeOK, QueueType, OInv, IdInv
<1>2. j # NoJob
  BY <1>1, ConstantFacts
<1>3. CASE j \in q.Pending
  <2>1. ~Peered(j)
    BY <1>1, <1>3 DEF OInv, LiveInv, Ahead
  <2> QED BY <1>1, <1>3, <2>1 DEF OInv, LiveInv, Peered
<1>4. CASE j \in q.Completed
  <2>1. Over(j)
    BY <1>4 DEF Over
  <2>2. ~Ahead(j)
    BY <1>1, <2>1 DEF OInv, LiveInv
  <2> QED BY <1>1, <1>2, <2>1, <2>2 DEF OInv, LiveInv, Ahead
<1> QED BY <1>3, <1>4

\* A job that is over is nowhere ahead.
LEMMA OverFacts ==
    ASSUME TInv, OInv, NEW j \in JobId, Over(j)
    PROVE  /\ j \notin q.Pending /\ q.InFlight[0] # j
           /\ 1 \in Steady => q.InFlight[1] # j
           /\ \A u \in Threads : pc[u] = "enqueue" => cur[u] # j
<1>1. ~Ahead(j) /\ j # NoJob
  BY ConstantFacts DEF OInv, LiveInv
<1> QED BY <1>1 DEF OInv, LiveInv, Ahead

LEMMA QueueFacts ==
    TInv => /\ q \in QueueType /\ q.Pending \subseteq JobId /\ q.Completed \subseteq JobId
            /\ \A c \in Cores : q.InFlight[c] \in JobId \cup {NoJob}
            /\ \A a \in Agents : cur[a] \in JobId \cup {NoJob}
            /\ nextId \in Nat /\ \A j \in JobId : j \in Nat
            /\ cur = [a \in Agents |-> cur[a]] /\ pc = [a \in Agents |-> pc[a]]
BY DEF TInv, TypeOK, QueueType, JobId

\* Completed shrinks, or both lists do.
LEMMA ListFrames ==
    ASSUME TInv, NEW js, NEW s
    PROVE  /\ q' = [q EXCEPT !.Completed = s] =>
                 SameSlots /\ q'.Pending = q.Pending /\ q'.Completed = s
           /\ q' = [RemovePending(q, js) EXCEPT !.Completed = @ \ js] =>
                 /\ SameSlots /\ q'.Pending = q.Pending \ js
                 /\ q'.Completed = q.Completed \ js
<1>1. q \in QueueType
  BY QueueFacts
<1>2. ASSUME q' = [q EXCEPT !.Completed = s]
      PROVE  SameSlots /\ q'.Pending = q.Pending /\ q'.Completed = s
  BY <1>1, <1>2 DEF QueueType, SameSlots
<1>3. ASSUME q' = [RemovePending(q, js) EXCEPT !.Completed = @ \ js]
      PROVE  SameSlots /\ q'.Pending = q.Pending \ js /\ q'.Completed = q.Completed \ js
  BY <1>1, <1>3 DEF QueueType, SameSlots, RemovePending
<1> QED BY <1>2, <1>3

\* Steps of a thread that change at most files, its own position and the pins
\* and marks of jobs.
LEMMA PlainInv ==
    ASSUME TInv, OInv, NEW t \in Threads,
           \/ AllocBuffer(t) \/ FreeBuffer(t) \/ SubmitReturn(t) \/ CloseUnused(t)
           \/ DrainEmpty(t) \/ CleanupFreeBuffers(t) \/ CleanupDecide(t)
    PROVE  OInv'
<1> USE AgentFacts, ConstantFacts, QueueFacts
<1> DEFINE c == IF SubmitReturn(t) THEN NoJob ELSE cur[t]
<1>1. \E l \in {"idle", "freeBuffers", "decide", "pdCycle"} : pc' = [pc EXCEPT ![t] = l]
  BY DEF AllocBuffer, FreeBuffer, SubmitReturn, CloseUnused, DrainEmpty, CleanupFreeBuffers,
         CleanupDecide, Goto, MayEnter, Idle
<1>2. pc[t] \in {"idle", "submitted", "drain", "freeBuffers", "decide"}
  BY DEF AllocBuffer, FreeBuffer, SubmitReturn, CloseUnused, DrainEmpty, CleanupFreeBuffers,
         CleanupDecide, Goto, MayEnter, Idle
<1>3. cur' = [cur EXCEPT ![t] = c]
  BY DEF AllocBuffer, FreeBuffer, SubmitReturn, CloseUnused, DrainEmpty, CleanupFreeBuffers,
         CleanupDecide, ctlVars
<1>4. UNCHANGED <<q, job, nextId, hwJob, isr, atPeer, promos>>
  BY DEF AllocBuffer, FreeBuffer, SubmitReturn, CloseUnused, DrainEmpty, CleanupFreeBuffers,
         CleanupDecide, ctlVars, hwVars
<1>5. c \in JobId \cup {NoJob} /\ c <= nextId
  BY DEF OInv, IdInv, NoJob
<1> HIDE DEF c
<1>6. PICK l \in {"idle", "freeBuffers", "decide", "pdCycle"} : pc' = [pc EXCEPT ![t] = l]
  BY <1>1
<1>7. Calm(t, l)
  BY <1>2, <1>4, <1>6 DEF Calm, SameSlots, NeutralPcs, PC, KickPcs, EndPcs
<1>8. Leaves(t, l, c, {})
  BY <1>3, <1>4, <1>5, <1>6, <1>7 DEF Leaves, SignalPcs, PnpPcs
<1> QED BY <1>8, LeavesInv

LEMMA PowerCycleInv == ASSUME TInv, OInv, NEW t \in Threads, CleanupPowerCycle(t) PROVE OInv'
<1> USE AgentFacts, ConstantFacts, QueueFacts
<1>1. /\ pc[t] = "pdCycle" /\ pc' = [pc EXCEPT ![t] = "idle"] /\ hwJob' = NoJob
      /\ UNCHANGED <<q, job, nextId, isr, atPeer, promos, cur>>
  BY DEF CleanupPowerCycle, Goto, ctlVars
<1>2. pc'[t] = "idle" /\ \A b \in Agents : b # t => pc'[b] = pc[b]
  BY <1>1
<1>3. \A b \in Agents : Todo(b)' = Todo(b)
  BY <1>1 DEF Todo
<1>4. PcInv'
  BY <1>2 DEF OInv, PcInv, SignalPcs, PnpPcs
<1>5. promos[t] = <<>>
  BY <1>1 DEF OInv, PromoInv, KickPcs, EndPcs
<1>6. PromoInv'
  BY <1>1, <1>2, <1>3, <1>5 DEF OInv, PromoInv, KickPcs, EndPcs
<1>7. \A b \in Agents : \A e : Holds(b, e)' <=> Holds(b, e)
  BY <1>1, <1>2, <1>3 DEF Holds
<1>8. KickInv' /\ PeerInv'
  BY <1>1, <1>3, <1>7 DEF OInv, KickInv, PeerInv
<1>9. \A b \in Agents : Active(b)' <=> Active(b)
  BY <1>1, <1>2, <1>3 DEF Active
<1>10. DriveInv'
  BY <1>1, <1>9 DEF OInv, DriveInv
<1>11. SlotInv'
  BY <1>1 DEF OInv, SlotInv
<1>12. \A j \in JobId : (Ahead(j)' <=> Ahead(j)) /\ (Peered(j)' <=> Peered(j))
  BY <1>1, <1>2, <1>3 DEF Ahead, Peered
<1>13. \A j : Over(j)' <=> Over(j)
  BY <1>1, <1>2 DEF Over
<1>14. LiveInv'
  BY <1>1, <1>2, <1>12, <1>13 DEF OInv, LiveInv
<1>15. IdInv'
  BY <1>1, <1>3 DEF OInv, IdInv
<1> QED BY <1>4, <1>6, <1>8, <1>10, <1>11, <1>14, <1>15 DEF OInv

LEMMA SubmitBusyInv == ASSUME TInv, OInv, NEW t \in Threads, SubmitBusy(t) PROVE OInv'
<1> USE AgentFacts, ConstantFacts, QueueFacts
<1>1. /\ pc[t] = "enqueue" /\ pc' = [pc EXCEPT ![t] = "idle"] /\ job' = Free({cur[t]})
      /\ cur' = [cur EXCEPT ![t] = NoJob]
      /\ UNCHANGED <<q, nextId, hwJob, isr, atPeer, promos>>
  BY DEF SubmitBusy, Goto, hwVars
<1>2. pc'[t] = "idle" /\ \A b \in Agents : b # t => pc'[b] = pc[b]
  BY <1>1
<1>3. cur[t] \in JobId /\ Ahead(cur[t])
  BY <1>1 DEF TInv, Holding, Ahead
<1>4. ~Peered(cur[t]) /\ cur[t] \notin q.Pending /\ cur[t] # q.InFlight[0]
  BY <1>1, <1>3 DEF OInv, LiveInv
<1>5. \A u \in Threads : pc'[u] = "enqueue" => cur[u] # cur[t]
  BY <1>1, <1>2 DEF OInv, LiveInv
<1>6. Calm(t, "idle")
  BY <1>1 DEF Calm, SameSlots, NeutralPcs, PC, KickPcs, EndPcs
<1>7. Leaves(t, "idle", NoJob, {cur[t]})
  <2>1. \A j \in JobId : j # cur[t] => job'[j] = job[j]
    BY <1>1 DEF Free
  <2>2. cur[t] <= nextId /\ NoJob <= nextId
    BY DEF OInv, IdInv, NoJob
  <2>3. q.InFlight[1] # cur[t]
    BY <1>4 DEF Peered
  <2> QED BY <1>1, <1>3, <1>4, <1>5, <1>6, <2>1, <2>2, <2>3 DEF Leaves, SignalPcs, PnpPcs
<1> QED BY <1>7, LeavesInv

\* A new id: nothing has ever heard of it.
LEMMA SubmitAllocInv == ASSUME TInv, OInv, NEW t \in Threads, SubmitAlloc(t) PROVE OInv'
<1> USE AgentFacts, ConstantFacts, QueueFacts
<1>0. PICK j : j = nextId + 1
  OBVIOUS
<1>1. /\ pc[t] = "idle" /\ pc' = [pc EXCEPT ![t] = "enqueue"]
      /\ job' = [job EXCEPT ![j] = NewJob(FileOf[t])] /\ cur' = [cur EXCEPT ![t] = j]
      /\ nextId' = j /\ nextId < MaxJobs
      /\ UNCHANGED <<q, hwJob, isr, atPeer, promos>>
  BY <1>0 DEF SubmitAlloc, Goto, hwVars, MayEnter, Idle
<1>2. j \in JobId /\ j > nextId /\ \A x \in Nat : x <= nextId => x <= j /\ x # j
  BY <1>0, <1>1 DEF JobId
<1>3. pc'[t] = "enqueue" /\ \A b \in Agents : b # t => pc'[b] = pc[b]
  BY <1>1
<1>4. cur'[t] = j /\ \A b \in Agents : b # t => cur'[b] = cur[b]
  BY <1>1
<1>5. /\ job'[j] = NewJob(FileOf[t]) /\ \A k \in JobId : k # j => job'[k] = job[k]
      /\ job'[j].mem = "alloc" /\ job'[j].Done = FALSE
  <2>1. job = [k \in JobId |-> job[k]]
    BY DEF TInv, TypeOK
  <2>2. job'[j] = NewJob(FileOf[t]) /\ \A k \in JobId : k # j => job'[k] = job[k]
    BY <1>1, <1>2, <2>1
  <2> QED BY <2>2 DEF NewJob
<1>6. Calm(t, "enqueue")
  BY <1>1 DEF Calm, SameSlots, NeutralPcs, PC, KickPcs, EndPcs
<1>7. PromoInv' /\ KickInv' /\ DriveInv' /\ PeerInv'
  BY <1>6, CalmKeeps
<1>8. PcInv'
  BY <1>3 DEF OInv, PcInv, SignalPcs, PnpPcs
<1>9. /\ j \notin q.Pending /\ j \notin q.Completed /\ j \notin atPeer
      /\ \A c \in Cores : q.InFlight[c] # j
      /\ \A b \in Agents : cur[b] # j
      /\ \A b \in Agents : \A e \in Todo(b) : e.job # j
  <2>1. \A b \in Agents : \A e \in Todo(b) : e.job \in JobId
    BY EntriesTyped, PromotionFacts DEF TInv, TypeOK, Todo
  <2>2. \A b \in Agents : cur[b] \in Nat
    BY DEF NoJob
  <2>3. \A c \in Cores : q.InFlight[c] \in Nat
    BY DEF NoJob
  <2>4. atPeer \subseteq JobId
    BY DEF TInv, TypeOK
  <2> QED BY <1>2, <2>1, <2>2, <2>3, <2>4 DEF OInv, IdInv
<1>10. SlotInv'
  <2>1. \A c \in Steady : q.InFlight[c] # NoJob =>
           job'[q.InFlight[c]].TargetCore = job[q.InFlight[c]].TargetCore
    BY <1>5, <1>9, SteadyFacts
  <2> QED BY <1>6, <2>1, SlotKeeps DEF Calm
<1>11. \A b \in Agents : Todo(b)' = Todo(b)
  BY <1>1 DEF Todo
<1>12. \A k \in JobId : /\ Peered(k)' <=> Peered(k)
                        /\ k # j => (Ahead(k)' <=> Ahead(k))
                        /\ k # j => (Over(k)' <=> Over(k))
  <2>1. \A k \in JobId : Peered(k)' <=> Peered(k)
    BY <1>1, <1>11 DEF Peered
  <2>2. \A k \in JobId : k # j => (Ahead(k)' <=> Ahead(k))
    BY <1>1, <1>3, <1>4 DEF Ahead
  <2>3. \A k \in JobId : k # j => (Over(k)' <=> Over(k))
    BY <1>1, <1>3, <1>4, <1>5 DEF Over
  <2> QED BY <2>1, <2>2, <2>3
<1>13. ~Peered(j)' /\ ~Over(j)'
  <2>1. ~Peered(j)
    BY <1>9, SteadyFacts DEF Peered
  <2>2. ASSUME NEW a \in Agents, pc'[a] = "peerFailed" PROVE Head(promos[a]).job # j
    <3>1. pc[a] = "peerFailed" /\ promos[a] # <<>> /\ promos[a] \in Seq(Promotion)
      BY <1>3, <2>2 DEF TInv, Holding, TypeOK
    <3>2. Head(promos[a]) \in Todo(a)
      BY <3>1, TailFacts DEF Todo, OInv, PromoInv
    <3> QED BY <1>9, <3>2
  <2>3. ASSUME NEW u \in Threads, pc'[u] = "take" PROVE cur'[u] # j
    BY <1>3, <1>4, <1>9, <2>3
  <2>4. cur'["peer"] # j
    BY <1>4, <1>9
  <2>5. ~Over(j)'
    BY <1>1, <1>2, <1>5, <1>9, <2>2, <2>3, <2>4 DEF Over
  <2> QED BY <1>2, <1>12, <2>1, <2>5
<1>14. LiveInv'
  <2>1. \A u \in Threads : pc'[u] = "enqueue" => u = t \/ (pc[u] = "enqueue" /\ cur'[u] = cur[u])
    BY <1>3, <1>4
  <2>2. /\ q'.InFlight[0] \notin q'.Pending
        /\ \A u \in Threads : pc'[u] = "enqueue" => cur'[u] \notin q'.Pending /\ cur'[u] # q'.InFlight[0]
    BY <1>1, <1>4, <1>9, <2>1, SteadyFacts DEF OInv, LiveInv
  <2>3. \A u, v \in Threads : pc'[u] = "enqueue" /\ pc'[v] = "enqueue" /\ cur'[v] = cur'[u] => u = v
    BY <1>4, <1>9, <2>1 DEF OInv, LiveInv
  <2>4. \A k \in JobId : Ahead(k)' => ~Over(k)' /\ ~Peered(k)'
    BY <1>12, <1>13 DEF OInv, LiveInv
  <2>5. 1 \in Steady /\ q'.InFlight[1] # NoJob => ~Over(q.InFlight[1])'
    BY <1>1, <1>9, <1>12, SteadyFacts DEF OInv, LiveInv
  <2> QED BY <2>2, <2>3, <2>4, <2>5 DEF LiveInv
<1>15. IdInv'
  <2>1. \A b \in Agents : cur'[b] <= j
    BY <1>2, <1>4 DEF OInv, IdInv, NoJob
  <2>2. \A k \in JobId : k > j => job'[k].mem = "none"
    BY <1>2, <1>5 DEF OInv, IdInv
  <2>3. \A b \in Agents : \A e \in Todo(b) : e.job \in JobId
    BY EntriesTyped, PromotionFacts DEF TInv, TypeOK, Todo
  <2>4. \A c \in Cores : q.InFlight[c] \in Nat
    BY DEF NoJob
  <2>5. atPeer \subseteq JobId
    BY DEF TInv, TypeOK
  <2> QED BY <1>1, <1>2, <1>11, <2>1, <2>2, <2>3, <2>4, <2>5 DEF OInv, IdInv
<1> QED BY <1>7, <1>8, <1>10, <1>14, <1>15 DEF OInv

\* How a thread's wait ends, in the terms of both layers of the argument.
LEMMA WaitLeaveFacts ==
    ASSUME TInv, NEW t \in Threads, NEW js, NEW b \in BOOLEAN, WaitLeave(t, js, b)
    PROVE  /\ pc' = [pc EXCEPT ![t] = "idle"] /\ cur' = [cur EXCEPT ![t] = NoJob]
           /\ SameSlots /\ q'.Pending = q.Pending \ js /\ q'.Completed = q.Completed \ js
           /\ UNCHANGED <<nextId, hwJob, isr, atPeer, promos, inited, mapped, closed>>
           /\ js # {} => job' = Free(js)
           /\ js = {} => job' = [job EXCEPT ![cur[t]].WaiterPin = @ - 1,
                                            ![cur[t]].OrphanOnComplete = @ \/ b]
<1>1. SameSlots /\ q'.Pending = q.Pending \ js /\ q'.Completed = q.Completed \ js
  BY ListFrames DEF WaitLeave
<1> QED BY <1>1 DEF WaitLeave, Goto, hwVars, fileVars

LEMMA WaitLeaveInv ==
    ASSUME TInv, OInv, NEW t \in Threads, NEW js, NEW b \in BOOLEAN, WaitLeave(t, js, b),
           pc[t] = "waiting",
           \A j \in JobId : j \in js => Over(j) \/ j \in q.Pending \cup q.Completed,
           \A j \in JobId : j \in js => j <= nextId
    PROVE  OInv'
<1> USE AgentFacts, ConstantFacts, QueueFacts
<1>1. /\ pc' = [pc EXCEPT ![t] = "idle"] /\ cur' = [cur EXCEPT ![t] = NoJob]
      /\ SameSlots /\ q'.Pending = q.Pending \ js /\ q'.Completed = q.Completed \ js
      /\ UNCHANGED <<nextId, hwJob, isr, atPeer, promos>>
      /\ js # {} => job' = Free(js)
      /\ js = {} => job' = [job EXCEPT ![cur[t]].WaiterPin = @ - 1,
                                       ![cur[t]].OrphanOnComplete = @ \/ b]
  BY WaitLeaveFacts
<1>2. Calm(t, "idle")
  BY <1>1 DEF Calm, NeutralPcs, PC, KickPcs, EndPcs
<1>3. \A j \in JobId : j \notin js =>
          /\ job'[j].TargetCore = job[j].TargetCore /\ job'[j].mem = job[j].mem
          /\ job'[j].Done = job[j].Done
  <2>1. CASE js # {}
    BY <1>1, <2>1 DEF Free
  <2>2. CASE js = {}
    <3>1. PICK c : c = cur[t]
      OBVIOUS
    <3>2. job' = [job EXCEPT ![c].WaiterPin = @ - 1, ![c].OrphanOnComplete = @ \/ b]
      BY <1>1, <2>2, <3>1
    <3>3. Pinned(job', c, job[c].WaiterPin - 1, job[c].OrphanOnComplete \/ b)
      BY <3>2, PinFacts
    <3> QED BY <3>3 DEF Pinned
  <2> QED BY <2>1, <2>2
<1>4. \A j \in JobId : j \in js =>
          /\ j <= nextId /\ j \notin q'.Pending /\ q.InFlight[0] # j
          /\ 1 \in Steady => q.InFlight[1] # j
          /\ \A u \in Threads : pc[u] = "enqueue" => cur[u] # j
  BY <1>1, OverFacts, ListedFacts
<1>5. \A u \in Threads : pc'[u] = "enqueue" => pc[u] = "enqueue"
  BY <1>1
<1>6. NoJob <= nextId
  BY DEF NoJob
<1>7. Leaves(t, "idle", NoJob, js)
  BY <1>1, <1>2, <1>3, <1>4, <1>5, <1>6 DEF Leaves, SignalPcs, PnpPcs
<1> QED BY <1>7, LeavesInv

LEMMA WaitInv ==
    ASSUME TInv, OInv, NEW t \in Threads,
           \/ \E j \in JobId : WaitTake(t, j) \/ WaitPin(t, j)
           \/ WaitTakeFree(t) \/ WaitDone(t) \/ WaitTimeout(t)
    PROVE  OInv'
<1> USE AgentFacts, ConstantFacts, QueueFacts
<1>1. ASSUME NEW j \in JobId, WaitTake(t, j) PROVE OInv'
  <2>1. /\ pc[t] = "idle" /\ pc' = [pc EXCEPT ![t] = "take"] /\ cur' = [cur EXCEPT ![t] = j]
        /\ j \in q.Completed /\ q' = [q EXCEPT !.Completed = q.Completed \ {j}]
        /\ UNCHANGED <<job, nextId, hwJob, isr, atPeer, promos>>
    BY <1>1 DEF WaitTake, Goto, hwVars, MayEnter, Idle
  <2>2. SameSlots /\ q'.Pending = q.Pending /\ q'.Completed = q.Completed \ {j}
    BY <2>1, ListFrames
  <2>3. Calm(t, "take")
    BY <2>1, <2>2 DEF Calm, NeutralPcs, PC, KickPcs, EndPcs
  <2>4. Over(j) /\ j <= nextId
    BY <2>1 DEF Over, OInv, IdInv
  <2>5. Leaves(t, "take", j, {})
    BY <2>1, <2>2, <2>3, <2>4 DEF Leaves, SignalPcs, PnpPcs
  <2> QED BY <2>5, LeavesInv
<1>2. ASSUME NEW j \in JobId, WaitPin(t, j) PROVE OInv'
  <2>1. /\ pc[t] = "idle" /\ pc' = [pc EXCEPT ![t] = "waiting"] /\ cur' = [cur EXCEPT ![t] = j]
        /\ job' = [job EXCEPT ![j].WaiterPin = @ + 1]
        /\ j \in q.Pending \/ \E c \in Cores : q.InFlight[c] = j
        /\ UNCHANGED <<q, nextId, hwJob, isr, atPeer, promos>>
    BY <1>2 DEF WaitPin, Goto, hwVars, MayEnter, Idle, VisibleCores
  <2>2. Calm(t, "waiting")
    BY <2>1 DEF Calm, SameSlots, NeutralPcs, PC, KickPcs, EndPcs
  <2>3. \A k \in JobId : /\ job'[k].TargetCore = job[k].TargetCore /\ job'[k].mem = job[k].mem
                         /\ job'[k].Done = job[k].Done
    <3>1. Pinned(job', j, job[j].WaiterPin + 1, job[j].OrphanOnComplete)
      BY <2>1, PinFacts
    <3> QED BY <3>1 DEF Pinned
  <2>4. j <= nextId
    BY <2>1 DEF OInv, IdInv
  <2>5. Leaves(t, "waiting", j, {})
    BY <2>1, <2>2, <2>3, <2>4 DEF Leaves, SignalPcs, PnpPcs
  <2> QED BY <2>5, LeavesInv
<1>3. CASE WaitTakeFree(t)
  <2>1. /\ pc[t] = "take" /\ pc' = [pc EXCEPT ![t] = "idle"] /\ job' = Free({cur[t]})
        /\ cur' = [cur EXCEPT ![t] = NoJob]
        /\ UNCHANGED <<q, nextId, hwJob, isr, atPeer, promos>>
    BY <1>3 DEF WaitTakeFree, Goto, hwVars
  <2>2. Calm(t, "idle")
    BY <2>1 DEF Calm, SameSlots, NeutralPcs, PC, KickPcs, EndPcs
  <2>3. \A j \in JobId : j # cur[t] => job'[j] = job[j]
    BY <2>1 DEF Free
  <2>4. \A u \in Threads : pc'[u] = "enqueue" => pc[u] = "enqueue"
    BY <2>1
  <2>5. Over(cur[t]) /\ cur[t] <= nextId /\ NoJob <= nextId
    BY <2>1 DEF Over, OInv, IdInv, NoJob
  <2>6. cur[t] \in JobId =>
          /\ cur[t] \notin q.Pending /\ q.InFlight[0] # cur[t]
          /\ 1 \in Steady => q.InFlight[1] # cur[t]
          /\ \A u \in Threads : pc[u] = "enqueue" => cur[u] # cur[t]
    BY <2>5, OverFacts
  <2>7. Leaves(t, "idle", NoJob, {cur[t]})
    BY <2>1, <2>2, <2>3, <2>4, <2>5, <2>6 DEF Leaves, SignalPcs, PnpPcs
  <2> QED BY <2>7, LeavesInv
<1>4. CASE WaitDone(t)
  <2> DEFINE js == IF LastPin(cur[t]) THEN {cur[t]} ELSE {}
  <2>1. pc[t] = "waiting" /\ job[cur[t]].Done /\ WaitLeave(t, js, FALSE)
    BY <1>4 DEF WaitDone
  <2>2. \A j \in JobId : j \in js => Over(j) /\ j <= nextId
    BY <2>1 DEF Over, OInv, IdInv
  <2> HIDE DEF js
  <2> QED BY <2>1, <2>2, WaitLeaveInv
<1>5. CASE WaitTimeout(t)
  <2> DEFINE c  == cur[t]
             js == IF LastPin(c) /\ c \in q.Pending \cup q.Completed THEN {c} ELSE {}
             b  == LastPin(c) /\ \E d \in VisibleCores(q) : q.InFlight[d] = c
  <2>1. pc[t] = "waiting" /\ WaitLeave(t, js, b)
    BY <1>5 DEF WaitTimeout
  <2>2. \A j \in JobId : j \in js => j \in q.Pending \cup q.Completed /\ j <= nextId
    BY DEF OInv, IdInv
  <2>3. b \in BOOLEAN
    OBVIOUS
  <2> HIDE DEF js, b
  <2> QED BY <2>1, <2>2, <2>3, WaitLeaveInv
<1> QED BY <1>1, <1>2, <1>3, <1>4, <1>5

\* What the end of a drain's wait does: the jobs js are freed and the jobs ab
\* are abandoned.
Unpinned(t, b, js, ab) ==
    /\ js = {k \in q.Completed :
                /\ job[k].Owner = FileOf[t]
                /\ job[k].WaiterPin - (IF k = cur[t] THEN 1 ELSE 0) = 0}
    /\ ab = IF b THEN {q.InFlight[c] : c \in OwnedCores(FileOf[t])} ELSE {}
    /\ pc[t] = "drainWait" /\ cur' = [cur EXCEPT ![t] = NoJob]
    /\ SameSlots /\ q'.Pending = q.Pending /\ q'.Completed = q.Completed \ js
    /\ \A k \in JobId : k \in js =>
          /\ job'[k].mem = "freed" /\ job'[k].WaiterPin = 0 /\ job'[k].Done = FALSE
          /\ job'[k].OrphanOnComplete = FALSE /\ job'[k].Owner = NoFile
    /\ \A k \in JobId : k \notin js =>
          /\ job'[k].WaiterPin = job[k].WaiterPin - (IF k = cur[t] THEN 1 ELSE 0)
          /\ job'[k].OrphanOnComplete = (job[k].OrphanOnComplete \/ k \in ab)
          /\ job'[k].mem = job[k].mem /\ job'[k].Owner = job[k].Owner
          /\ job'[k].TargetCore = job[k].TargetCore /\ job'[k].Done = job[k].Done

LEMMA DrainUnpinFacts ==
    ASSUME TInv, NEW t \in Threads, NEW b \in BOOLEAN, DrainUnpin(t, b)
    PROVE  \E js, ab \in SUBSET JobId : Unpinned(t, b, js, ab)
<1> USE QueueFacts
<1> DEFINE f  == FileOf[t]
           j1 == [job EXCEPT ![cur[t]].WaiterPin = @ - 1]
           js == {k \in q.Completed : j1[k].Owner = f /\ j1[k].WaiterPin = 0}
           ab == IF b THEN {q.InFlight[c] : c \in OwnedCores(f)} ELSE {}
<1>1. /\ pc[t] = "drainWait" /\ q' = [q EXCEPT !.Completed = q.Completed \ js]
      /\ job' = [k \in JobId |->
                    IF k \in js THEN Freed
                    ELSE IF k \in ab THEN [j1[k] EXCEPT !.OrphanOnComplete = TRUE]
                    ELSE j1[k]]
      /\ cur' = [cur EXCEPT ![t] = NoJob]
  BY DEF DrainUnpin
<1>2. \A k \in JobId : /\ j1[k].WaiterPin = job[k].WaiterPin - (IF k = cur[t] THEN 1 ELSE 0)
                       /\ j1[k].OrphanOnComplete = job[k].OrphanOnComplete
                       /\ j1[k].mem = job[k].mem /\ j1[k].Owner = job[k].Owner
                       /\ j1[k].TargetCore = job[k].TargetCore /\ j1[k].Done = job[k].Done
  <2>1. Pinned(j1, cur[t], job[cur[t]].WaiterPin - 1, job[cur[t]].OrphanOnComplete)
    BY PinFacts
  <2>2. \A k \in JobId : job[k].WaiterPin \in Int
    BY DEF TInv, TypeOK, JobType
  <2> HIDE DEF j1
  <2> QED BY <2>1, <2>2 DEF Pinned
<1>3. \A k \in JobId : j1[k] \in JobType
  <2>1. job \in [JobId -> JobType] /\ TRUE \in BOOLEAN
    BY DEF TInv, TypeOK
  <2>2. PICK c : c = cur[t]
    OBVIOUS
  <2>3. [job EXCEPT ![c].WaiterPin = @ - 1] \in [JobId -> JobType]
    BY <2>1, PinIsTyped
  <2>4. j1 \in [JobId -> JobType]
    BY <2>2, <2>3
  <2> HIDE DEF j1
  <2> QED BY <2>4
<1> HIDE DEF j1
<1>4. js \in SUBSET JobId
  OBVIOUS
<1>5. ab \in SUBSET JobId
  BY DEF OwnedCores, VisibleCores
<1>6. js = {k \in q.Completed : /\ job[k].Owner = FileOf[t]
                                /\ job[k].WaiterPin - (IF k = cur[t] THEN 1 ELSE 0) = 0}
  BY <1>2
<1>7. SameSlots /\ q'.Pending = q.Pending /\ q'.Completed = q.Completed \ js
  BY <1>1, ListFrames
<1> HIDE DEF js, ab
<1>8. \A k \in JobId : k \in js =>
         /\ job'[k].mem = "freed" /\ job'[k].WaiterPin = 0 /\ job'[k].Done = FALSE
         /\ job'[k].OrphanOnComplete = FALSE /\ job'[k].Owner = NoFile
  BY <1>1 DEF Freed, NewJob
<1>9. ASSUME NEW k \in JobId, k \notin js
      PROVE  /\ job'[k].WaiterPin = j1[k].WaiterPin
             /\ job'[k].OrphanOnComplete = (j1[k].OrphanOnComplete \/ k \in ab)
             /\ job'[k].mem = j1[k].mem /\ job'[k].Owner = j1[k].Owner
             /\ job'[k].TargetCore = j1[k].TargetCore /\ job'[k].Done = j1[k].Done
  <2>1. CASE k \in ab
    <3>1. job'[k] = [j1[k] EXCEPT !.OrphanOnComplete = TRUE]
      BY <1>1, <1>9, <2>1
    <3> QED BY <1>3, <2>1, <3>1 DEF JobType
  <2>2. CASE k \notin ab
    <3>1. job'[k] = j1[k] /\ j1[k].OrphanOnComplete \in BOOLEAN
      BY <1>1, <1>3, <1>9, <2>2 DEF JobType
    <3> QED BY <2>2, <3>1
  <2> QED BY <2>1, <2>2
<1>10. ab = IF b THEN {q.InFlight[c] : c \in OwnedCores(FileOf[t])} ELSE {}
  BY DEF ab
<1>11. \A k \in JobId : k \notin js =>
          /\ job'[k].WaiterPin = job[k].WaiterPin - (IF k = cur[t] THEN 1 ELSE 0)
          /\ job'[k].OrphanOnComplete = (job[k].OrphanOnComplete \/ k \in ab)
          /\ job'[k].mem = job[k].mem /\ job'[k].Owner = job[k].Owner
          /\ job'[k].TargetCore = job[k].TargetCore /\ job'[k].Done = job[k].Done
  BY <1>2, <1>9
<1>12. pc[t] = "drainWait" /\ cur' = [cur EXCEPT ![t] = NoJob]
  BY <1>1
<1>13. Unpinned(t, b, js, ab)
  BY <1>6, <1>7, <1>8, <1>10, <1>11, <1>12 DEF Unpinned
<1> QED BY <1>4, <1>5, <1>13

\* The drain of a closing file.
LEMMA DrainInv ==
    ASSUME TInv, OInv, NEW t \in Threads,
           DrainSweep(t) \/ DrainPin(t) \/ DrainDone(t) \/ DrainTimeout(t)
    PROVE  OInv'
<1> USE AgentFacts, ConstantFacts, QueueFacts
<1>1. CASE DrainSweep(t)
  <2> DEFINE js == JobsOf(FileOf[t], q.Pending \cup q.Completed)
  <2>1. /\ pc[t] = "idle" /\ pc' = [pc EXCEPT ![t] = "drain"] /\ job' = Free(js)
        /\ q' = [RemovePending(q, js) EXCEPT !.Completed = @ \ js]
        /\ UNCHANGED <<cur, nextId, hwJob, isr, atPeer, promos>>
    BY <1>1 DEF DrainSweep, Goto, hwVars, ctlVars, Idle
  <2>2. SameSlots /\ q'.Pending = q.Pending \ js /\ q'.Completed = q.Completed \ js
    BY <2>1, ListFrames
  <2>3. Calm(t, "drain")
    BY <2>1, <2>2 DEF Calm, NeutralPcs, PC, KickPcs, EndPcs
  <2>4. \A j \in js : j \in q.Pending \cup q.Completed
    BY DEF JobsOf
  <2> HIDE DEF js
  <2>5. \A j \in JobId : j \notin js => job'[j] = job[j]
    BY <2>1 DEF Free
  <2>6. \A j \in JobId : j \in js =>
          /\ j <= nextId /\ j \notin q'.Pending /\ q.InFlight[0] # j
          /\ 1 \in Steady => q.InFlight[1] # j
          /\ \A u \in Threads : pc[u] = "enqueue" => cur[u] # j
    BY <2>2, <2>4, ListedFacts
  <2>7. \A u \in Threads : pc'[u] = "enqueue" => pc[u] = "enqueue"
    BY <2>1
  <2>8. cur' = [cur EXCEPT ![t] = cur[t]] /\ cur[t] <= nextId
    BY <2>1 DEF OInv, IdInv
  <2>9. Leaves(t, "drain", cur[t], js)
    BY <2>1, <2>2, <2>3, <2>5, <2>6, <2>7, <2>8 DEF Leaves, SignalPcs, PnpPcs
  <2> QED BY <2>9, LeavesInv
<1>2. CASE DrainPin(t)
  <2> DEFINE d == CHOOSE c \in OwnedCores(FileOf[t]) : \A e \in OwnedCores(FileOf[t]) : c <= e
  <2>1. PICK j : j = q.InFlight[d]
    OBVIOUS
  <2>2. /\ pc[t] = "drain" /\ pc' = [pc EXCEPT ![t] = "drainWait"]
        /\ cur' = [cur EXCEPT ![t] = j] /\ job' = [job EXCEPT ![j].WaiterPin = @ + 1]
        /\ UNCHANGED <<q, nextId, hwJob, isr, atPeer, promos>>
    BY <1>2, <2>1 DEF DrainPin, Goto, hwVars
  <2>3. OwnedCores(FileOf[t]) # {} /\ OwnedCores(FileOf[t]) \subseteq {0, 1}
    <3>1. OwnedCores(FileOf[t]) # {}
      BY <1>2 DEF DrainPin
    <3> QED BY <3>1, SteadyFacts DEF OwnedCores, VisibleCores
  <2>4. \E c \in OwnedCores(FileOf[t]) : \A e \in OwnedCores(FileOf[t]) : c <= e
    <3>1. CASE 0 \in OwnedCores(FileOf[t])
      BY <2>3, <3>1
    <3>2. CASE 0 \notin OwnedCores(FileOf[t])
      <4>1. OwnedCores(FileOf[t]) = {1}
        BY <2>3, <3>2
      <4> QED BY <4>1
    <3> QED BY <3>1, <3>2
  <2>5. d \in OwnedCores(FileOf[t])
    BY <2>4
  <2>6. d \in Cores /\ q.InFlight[d] # NoJob
    BY <2>5 DEF OwnedCores, VisibleCores
  <2> HIDE DEF d
  <2>7. j \in JobId /\ j <= nextId
    BY <2>1, <2>6 DEF OInv, IdInv
  <2>8. Pinned(job', j, job[j].WaiterPin + 1, job[j].OrphanOnComplete)
    BY <2>2, PinFacts
  <2>9. Calm(t, "drainWait")
    BY <2>2 DEF Calm, SameSlots, NeutralPcs, PC, KickPcs, EndPcs
  <2>10. \A k \in JobId : /\ job'[k].TargetCore = job[k].TargetCore /\ job'[k].mem = job[k].mem
                          /\ job'[k].Done = job[k].Done
    BY <2>8 DEF Pinned
  <2>11. Leaves(t, "drainWait", j, {})
    BY <2>2, <2>7, <2>9, <2>10 DEF Leaves, SignalPcs, PnpPcs
  <2> QED BY <2>11, LeavesInv
<1>3. ASSUME NEW b \in BOOLEAN, NEW l \in {"drain", "freeBuffers"}, DrainUnpin(t, b),
             pc' = [pc EXCEPT ![t] = l], UNCHANGED <<nextId, hwJob, isr, atPeer, promos>>
      PROVE  OInv'
  <2>0. PICK js, ab \in SUBSET JobId : Unpinned(t, b, js, ab)
    BY <1>3, DrainUnpinFacts
  <2>1. /\ js \subseteq q.Completed
        /\ pc[t] = "drainWait" /\ cur' = [cur EXCEPT ![t] = NoJob]
        /\ SameSlots /\ q'.Pending = q.Pending /\ q'.Completed = q.Completed \ js
        /\ \A k \in JobId : k \notin js =>
              /\ job'[k].mem = job[k].mem
              /\ job'[k].TargetCore = job[k].TargetCore /\ job'[k].Done = job[k].Done
    BY <2>0 DEF Unpinned
  <2>2. Calm(t, l)
    BY <1>3, <2>1 DEF Calm, NeutralPcs, PC, KickPcs, EndPcs
  <2>3. \A j \in JobId : j \in js =>
          /\ j <= nextId /\ q.InFlight[0] # j
          /\ 1 \in Steady => q.InFlight[1] # j
          /\ \A u \in Threads : pc[u] = "enqueue" => cur[u] # j
    BY <2>1, ListedFacts
  <2>4. \A j \in JobId : j \in js => j \notin q.Pending
    <3>1. \A j \in JobId : j \in js => Over(j)
      BY <2>1 DEF Over
    <3> QED BY <3>1, OverFacts
  <2>5. \A u \in Threads : pc'[u] = "enqueue" => pc[u] = "enqueue"
    BY <1>3
  <2>6. NoJob <= nextId
    BY DEF NoJob
  <2>7. Leaves(t, l, NoJob, js)
    BY <1>3, <2>1, <2>2, <2>3, <2>4, <2>5, <2>6 DEF Leaves, SignalPcs, PnpPcs
  <2> QED BY <2>7, LeavesInv
<1>4. CASE DrainDone(t)
  BY <1>3, <1>4 DEF DrainDone, Goto, hwVars
<1>5. CASE DrainTimeout(t)
  BY <1>3, <1>5 DEF DrainTimeout, Goto, hwVars
<1> QED BY <1>1, <1>2, <1>4, <1>5

-----------------------------------------------------------------------------
(***************************************************************************)
(* Promotion: the jobs es go from Pending, or from the hands of the thread *)
(* that submits, to idle cores.                                            *)
(***************************************************************************)

\* The jobs agent a promotes from.
Pool(a) == q.Pending \cup (IF pc[a] = "enqueue" THEN {cur[a]} ELSE {})

\* Agent a, which has promoted the list out, begins to kick.
Promoted(a, out) ==
    /\ (pc[a] = "loop" /\ a = "worker") \/ (pc[a] = "enqueue" /\ a \in Threads)
    /\ pc' = [pc EXCEPT ![a] = "kick"] /\ promos' = [promos EXCEPT ![a] = out]
    /\ out \in Seq(Promotion) /\ DistinctCores(out)
    /\ \E p \in QueueType :
          /\ p.Pending = Pool(a) /\ p.Completed = q.Completed /\ p.InFlight = q.InFlight
          /\ p.CoreIdle = q.CoreIdle /\ p.CorePending = q.CorePending
          /\ p.CoreCount = q.CoreCount /\ p.PeerOpen = q.PeerOpen
          /\ Promotes(p, q', Entries(out))
    /\ Stamped(Entries(out))
    /\ UNCHANGED <<nextId, hwJob, isr, atPeer, cur>>

\* Whatever is promoted from was ahead, and in no slot.
LEMMA PoolFacts ==
    ASSUME TInv, OInv, NEW a \in Agents,
           (pc[a] = "loop" /\ a = "worker") \/ (pc[a] = "enqueue" /\ a \in Threads),
           NEW j \in Pool(a)
    PROVE  /\ j \in JobId /\ j <= nextId /\ Ahead(j) /\ ~Over(j) /\ ~Peered(j)
           /\ q.InFlight[0] # j /\ q.InFlight[1] # j
           /\ \A u \in Threads : pc[u] = "enqueue" /\ u # a => cur[u] # j
<1>1. j \in JobId /\ j <= nextId
  BY QueueFacts DEF Pool, TInv, Holding, OInv, IdInv
<1>2. Ahead(j)
  BY AgentFacts DEF Pool, Ahead
<1>3. ~Over(j) /\ ~Peered(j)
  BY <1>1, <1>2 DEF OInv, LiveInv
<1>4. q.InFlight[0] # j /\ \A u \in Threads : pc[u] = "enqueue" /\ u # a => cur[u] # j
  <2>1. CASE j \in q.Pending
    BY <2>1 DEF OInv, LiveInv
  <2>2. CASE pc[a] = "enqueue" /\ a \in Threads /\ j = cur[a]
    BY <2>2 DEF OInv, LiveInv
  <2> QED BY <2>1, <2>2 DEF Pool
<1> QED BY <1>1, <1>2, <1>3, <1>4 DEF Peered

LEMMA PromotedInv ==
    ASSUME TInv, OInv, NEW a \in Agents, NEW out, Promoted(a, out)
    PROVE  OInv'
<1> USE AgentFacts, ConstantFacts, QueueFacts, SteadyFacts
<1>0. PICK es : es = Entries(out)
  OBVIOUS
<1>1. PICK p \in QueueType :
          /\ p.Pending = Pool(a) /\ p.Completed = q.Completed /\ p.InFlight = q.InFlight
          /\ p.CoreIdle = q.CoreIdle /\ p.CorePending = q.CorePending
          /\ p.CoreCount = q.CoreCount /\ p.PeerOpen = q.PeerOpen
          /\ Promotes(p, q', es)
  BY <1>0 DEF Promoted
<1>2. (pc[a] = "loop" /\ a = "worker") \/ (pc[a] = "enqueue" /\ a \in Threads)
  BY DEF Promoted
<1>3. pc'[a] = "kick" /\ \A b \in Agents : b # a => pc'[b] = pc[b]
  BY DEF Promoted
<1>4. promos'[a] = out /\ \A b \in Agents : b # a => promos'[b] = promos[b]
  BY DEF Promoted, TInv, TypeOK
<1>5. Todo(a)' = es /\ \A b \in Agents : b # a => Todo(b)' = Todo(b)
  BY <1>0, <1>4 DEF Todo
<1>6. Stamped(es) /\ UNCHANGED <<nextId, hwJob, isr, atPeer, cur>>
  BY <1>0 DEF Promoted
<1>7. \A e \in es : e.job \in JobId /\ e.core \in Cores
  BY <1>0, EntriesTyped, PromotionFacts DEF Promoted
<1>8. \A e \in es : /\ e.job \in Pool(a) /\ e.core \in q.CoreIdle /\ e.core < q.CoreCount
                    /\ q'.InFlight[e.core] = e.job
                    /\ q'.CorePending[e.core] = q.CorePending[e.core] + 1
  BY <1>1 DEF Promotes
<1>9. \A e, g \in es : e.job = g.job \/ e.core = g.core => e = g
  BY <1>1 DEF Promotes
<1>10. /\ q'.Pending = Pool(a) \ {e.job : e \in es}
       /\ q'.CoreIdle = q.CoreIdle \ {e.core : e \in es}
       /\ q'.Completed = q.Completed /\ q'.CoreCount = q.CoreCount /\ q'.PeerOpen = q.PeerOpen
  BY <1>1 DEF Promotes
<1>11. \A c \in Cores : (\A e \in es : e.core # c) =>
          q'.InFlight[c] = q.InFlight[c] /\ q'.CorePending[c] = q.CorePending[c]
  BY <1>1 DEF Promotes
<1>12. \A j \in Pool(a) : /\ j \in JobId /\ j <= nextId /\ Ahead(j) /\ ~Over(j) /\ ~Peered(j)
                          /\ q.InFlight[0] # j /\ q.InFlight[1] # j
                          /\ \A u \in Threads : pc[u] = "enqueue" /\ u # a => cur[u] # j
  BY <1>2, PoolFacts
<1>13. \A e \in es : e.core \in Steady => q.InFlight[e.core] = NoJob /\ q.CorePending[e.core] = 0
  BY <1>8 DEF OInv, SlotInv
<1>14. Todo(a) = {} /\ promos[a] = <<>>
  BY <1>2, EmptyFacts DEF Todo, OInv, PromoInv, KickPcs, EndPcs
<1>15. PcInv'
  BY <1>2, <1>3 DEF OInv, PcInv, KickPcs, SignalPcs, PnpPcs
<1>16. PromoInv'
  <2>1. DistinctCores(out)
    BY DEF Promoted
  <2>2. a # "dpc" /\ a # "peer"
    BY <1>2
  <2>3. \A b \in Agents : b # a => /\ pc'[b] = pc[b] /\ promos'[b] = promos[b]
                                   /\ Todo(b)' = Todo(b)
    BY <1>3, <1>4, <1>5
  <2> QED BY <1>3, <1>4, <2>1, <2>2, <2>3 DEF OInv, PromoInv, KickPcs, EndPcs
<1>17. \A b \in Agents : b # a => \A e : Holds(b, e)' <=> Holds(b, e)
  BY <1>3, <1>5 DEF Holds
<1>18. \A b \in Agents : \A g \in Todo(b) : g.job \in JobId /\ g.core \in Cores
  BY EntriesTyped, PromotionFacts DEF TInv, TypeOK, Todo
\* A core somebody holds is not idle.
<1>19. \A b \in Agents : \A g \in Todo(b), e \in es :
          g.core \in Steady /\ Holds(b, g) => g.core # e.core
  BY <1>13, <1>18 DEF OInv, KickInv
<1>20. KickInv'
  <2>1. ASSUME NEW b \in Agents, NEW e \in Todo(b)', e.core \in Steady, Holds(b, e)'
        PROVE  q'.InFlight[e.core] = e.job
    <3>1. CASE b = a
      BY <1>5, <1>8, <2>1, <3>1
    <3>2. CASE b # a
      <4>1. e \in Todo(b) /\ Holds(b, e)
        BY <1>5, <1>17, <2>1, <3>2
      <4>2. q.InFlight[e.core] = e.job /\ \A g \in es : g.core # e.core
        BY <1>19, <2>1, <4>1 DEF OInv, KickInv
      <4> QED BY <1>11, <2>1, <4>2
    <3> QED BY <3>1, <3>2
  <2>2. ASSUME NEW b \in Agents, NEW d \in Agents, NEW e \in Todo(b)', NEW g \in Todo(d)',
               e.core \in Steady, e.core = g.core, Holds(b, e)', Holds(d, g)'
        PROVE  b = d
    <3>1. CASE b = a /\ d # a
      BY <1>5, <1>17, <1>19, <2>2, <3>1
    <3>2. CASE b # a /\ d = a
      BY <1>5, <1>17, <1>19, <2>2, <3>2
    <3>3. CASE b # a /\ d # a
      BY <1>5, <1>17, <2>2, <3>3 DEF OInv, KickInv
    <3> QED BY <3>1, <3>2, <3>3
  <2> QED BY <2>1, <2>2 DEF KickInv
<1>21. DriveInv'
  <2>1. \A b \in Agents : b # a => (Active(b)' <=> Active(b))
    BY <1>3, <1>5 DEF Active
  <2>2. Active(a)' <=> \E e \in es : e.core = 0
    BY <1>3, <1>5 DEF Active
  <2>3. CASE \E e \in es : e.core = 0
    <3>1. PICK e \in es : e.core = 0
      BY <2>3
    <3>2. q.InFlight[0] = NoJob /\ q'.InFlight[0] # NoJob
      BY <1>7, <1>8, <1>13, <3>1
    <3>3. hwJob = NoJob /\ isr = "none" /\ \A b \in Agents : ~Active(b)
      BY <3>2 DEF OInv, DriveInv
    <3> QED BY <1>6, <2>1, <3>2, <3>3 DEF DriveInv
  <2>4. CASE ~\E e \in es : e.core = 0
    <3>1. q'.InFlight[0] = q.InFlight[0]
      BY <1>11, <2>4
    <3> QED BY <1>6, <2>1, <2>2, <2>4, <3>1 DEF OInv, DriveInv
  <2> QED BY <2>3, <2>4
<1>22. PeerInv'
  <2> SUFFICES ASSUME 1 \in Steady PROVE PeerInv'
    BY DEF PeerInv
  <2>1. \A j \in atPeer : j \in JobId /\ q.InFlight[1] = j
    BY DEF OInv, PeerInv, TInv, TypeOK
  <2>2. atPeer # {} => \A e \in es : e.core # 1
    BY <1>13, <2>1
  <2>3. \A j \in atPeer : q'.InFlight[1] = j
    BY <1>11, <2>1, <2>2
  <2>4. ASSUME NEW b \in Agents, NEW e \in Todo(b)', e.core = 1, Holds(b, e)' PROVE atPeer = {}
    <3>1. CASE b = a
      BY <1>5, <2>2, <2>4, <3>1
    <3>2. CASE b # a
      BY <1>5, <1>17, <2>4, <3>2 DEF OInv, PeerInv
    <3> QED BY <3>1, <3>2
  <2> QED BY <1>6, <2>3, <2>4 DEF PeerInv
<1>23. SlotInv'
  <2>1. ASSUME NEW c \in Steady
        PROVE  /\ c \in q'.CoreIdle <=> q'.InFlight[c] = NoJob /\ c < q'.CoreCount
               /\ q'.CorePending[c] = IF q'.InFlight[c] = NoJob THEN 0 ELSE 1
               /\ q'.InFlight[c] # NoJob =>
                     c < q'.CoreCount /\ job'[q'.InFlight[c]].TargetCore = c
    <3>1. CASE \E e \in es : e.core = c
      <4>1. PICK e \in es : e.core = c
        BY <3>1
      <4>2. q'.InFlight[c] = e.job /\ e.job # NoJob /\ q'.CorePending[c] = 1 /\ c < q.CoreCount
        BY <1>7, <1>8, <1>13, <4>1
      <4>3. job'[e.job].TargetCore = c
        BY <1>6, <4>1 DEF Stamped
      <4> QED BY <1>10, <4>1, <4>2, <4>3
    <3>2. CASE ~\E e \in es : e.core = c
      <4>1. /\ q'.InFlight[c] = q.InFlight[c] /\ q'.CorePending[c] = q.CorePending[c]
            /\ c \in q'.CoreIdle <=> c \in q.CoreIdle
        BY <1>10, <1>11, <3>2
      <4>2. q.InFlight[c] # NoJob => job'[q.InFlight[c]] = job[q.InFlight[c]]
        <5>1. c = 0 \/ c = 1
          OBVIOUS
        <5>2. \A e \in es : e.job # q.InFlight[c]
          BY <1>8, <1>12, <5>1
        <5> QED BY <1>6, <5>2 DEF Stamped
      <4> QED BY <1>10, <4>1, <4>2 DEF OInv, SlotInv
    <3> QED BY <3>1, <3>2
  <2> QED BY <1>10, <2>1 DEF OInv, SlotInv
<1>24. \A j \in JobId : Over(j)' => Over(j)
  <2> SUFFICES ASSUME NEW j \in JobId, Over(j)' PROVE Over(j)
    OBVIOUS
  <2>1. job'[j].mem = job[j].mem /\ job'[j].Done = job[j].Done /\ cur' = cur
    BY <1>6 DEF Stamped
  <2>2. \A b \in Agents : pc'[b] \in {"take", "peerFailed"} \cup SignalPcs =>
           pc[b] = pc'[b] /\ promos'[b] = promos[b]
    BY <1>3, <1>4 DEF SignalPcs
  <2> QED BY <1>10, <2>1, <2>2 DEF Over
<1>25. \A u \in Threads : pc'[u] = "enqueue" => u # a /\ pc[u] = "enqueue" /\ cur'[u] = cur[u]
  BY <1>3, <1>6
<1>26. \A j \in JobId : Ahead(j)' => Ahead(j)
  <2> SUFFICES ASSUME NEW j \in JobId, Ahead(j)' PROVE Ahead(j)
    OBVIOUS
  <2>1. CASE j \in q'.Pending
    BY <1>10, <1>12, <2>1
  <2>2. CASE q'.InFlight[0] = j
    BY <1>8, <1>11, <1>12, <2>2 DEF Ahead
  <2>3. CASE \E u \in Threads : pc'[u] = "enqueue" /\ cur'[u] = j
    BY <1>25, <2>3 DEF Ahead
  <2> QED BY <2>1, <2>2, <2>3 DEF Ahead
<1>27. \A e \in es : e.core = 1 => ~Ahead(e.job)'
  <2> SUFFICES ASSUME NEW e \in es, e.core = 1 PROVE ~Ahead(e.job)'
    OBVIOUS
  <2>1. e.job \notin q'.Pending
    BY <1>10
  <2>2. q'.InFlight[0] # e.job
    BY <1>8, <1>9, <1>11, <1>12
  <2>3. \A u \in Threads : pc'[u] = "enqueue" => cur'[u] # e.job
    BY <1>8, <1>12, <1>25
  <2> QED BY <2>1, <2>2, <2>3 DEF Ahead
<1>28. LiveInv'
  <2>1. q'.InFlight[0] \notin q'.Pending
    BY <1>8, <1>10, <1>11, <1>12
  <2>2. \A u \in Threads : pc'[u] = "enqueue" => cur'[u] \notin q'.Pending /\ cur'[u] # q'.InFlight[0]
    <3> SUFFICES ASSUME NEW u \in Threads, pc'[u] = "enqueue"
                 PROVE  cur'[u] \notin q'.Pending /\ cur'[u] # q'.InFlight[0]
      OBVIOUS
    <3>1. u # a /\ pc[u] = "enqueue" /\ cur'[u] = cur[u]
      BY <1>25
    <3>2. cur[u] \notin Pool(a) /\ cur[u] # q.InFlight[0]
      BY <1>12, <3>1 DEF OInv, LiveInv
    <3> QED BY <1>8, <1>10, <1>11, <3>1, <3>2
  <2>3. \A t, u \in Threads : pc'[t] = "enqueue" /\ pc'[u] = "enqueue" /\ cur'[u] = cur'[t] => t = u
    BY <1>25 DEF OInv, LiveInv
  <2>4. \A j \in JobId : Ahead(j)' => ~Over(j)' /\ ~Peered(j)'
    <3> SUFFICES ASSUME NEW j \in JobId, Ahead(j)', Peered(j)' PROVE FALSE
      BY <1>24, <1>26 DEF OInv, LiveInv
    <3>1. ~Peered(j)
      BY <1>26 DEF OInv, LiveInv
    <3>2. \A e \in es : e.core = 1 => e.job # j
      BY <1>27
    <3>3. q'.InFlight[1] # j
      BY <1>8, <1>11, <3>1, <3>2 DEF Peered
    <3>4. \A b \in Agents : \A e \in Todo(b)' : ~(e.core = 1 /\ e.job = j)
      BY <1>5, <3>1, <3>2 DEF Peered
    <3> QED BY <1>6, <3>1, <3>3, <3>4 DEF Peered
  <2>5. 1 \in Steady /\ q'.InFlight[1] # NoJob => ~Over(q.InFlight[1])'
    <3> SUFFICES ASSUME 1 \in Steady, q'.InFlight[1] # NoJob PROVE ~Over(q.InFlight[1])'
      OBVIOUS
    <3>0. PICK j : j = q'.InFlight[1]
      OBVIOUS
    <3>1. j \in JobId /\ ~Over(j)
      <4>1. CASE \E e \in es : e.core = 1
        BY <1>7, <1>8, <1>12, <3>0, <4>1
      <4>2. CASE ~\E e \in es : e.core = 1
        BY <1>11, <3>0, <4>2 DEF OInv, LiveInv
      <4> QED BY <4>1, <4>2
    <3>2. ~Over(j)'
      BY <1>24, <3>1
    <3> QED BY <3>0, <3>2
  <2> QED BY <2>1, <2>2, <2>3, <2>4, <2>5 DEF LiveInv
<1>29. IdInv'
  <2>1. \A c \in Cores : q'.InFlight[c] <= nextId
    BY <1>8, <1>11, <1>12 DEF OInv, IdInv
  <2>2. \A b \in Agents : \A e \in Todo(b)' : e.job <= nextId
    BY <1>5, <1>8, <1>12 DEF OInv, IdInv
  <2>3. \A j \in JobId : job'[j].mem = job[j].mem
    BY <1>6 DEF Stamped
  <2> QED BY <1>6, <1>10, <1>12, <2>1, <2>2, <2>3 DEF OInv, IdInv
<1> QED BY <1>15, <1>16, <1>20, <1>21, <1>22, <1>23, <1>28, <1>29 DEF OInv

\* The promotion at the end of a submission, and a pass of the worker.
LEMMA EnqueuePromotes ==
    ASSUME TInv, OInv, NEW t \in Threads, SubmitEnqueue(t)
    PROVE  \E out : Promoted(t, out)
<1> USE AgentFacts, ConstantFacts, QueueFacts
<1> DEFINE p == AppendPending(q, cur[t])
           r == PromoteUntilFull(p, Owner)
<1>1. /\ pc[t] = "enqueue" /\ q' = r.q /\ job' = StampCores(job, r.out)
      /\ promos' = [promos EXCEPT ![t] = r.out] /\ pc' = [pc EXCEPT ![t] = "kick"]
      /\ UNCHANGED <<nextId, hwJob, isr, atPeer, cur>>
  BY DEF SubmitEnqueue, Goto, hwVars
<1>2. cur[t] \in JobId
  BY <1>1 DEF TInv, Holding
<1>3. p \in QueueType
  BY <1>2, AppendPendingType
<1>4. Owner \in OwnerType
  BY OwnerIsTyped DEF TInv
<1>5. /\ p.Pending = q.Pending \cup {cur[t]} /\ p.Completed = q.Completed
      /\ p.InFlight = q.InFlight /\ p.CoreIdle = q.CoreIdle /\ p.CorePending = q.CorePending
      /\ p.CoreCount = q.CoreCount /\ p.PeerOpen = q.PeerOpen
  BY DEF AppendPending, QueueType
<1> HIDE DEF p
<1>6. /\ r.out \in Seq(Promotion) /\ DistinctCores(r.out)
      /\ Promotes(p, r.q, Entries(r.out))
  BY <1>3, <1>4, PromoteFacts
<1> HIDE DEF r
<1>7. Stamped(Entries(r.out))
  <2>1. \A e, g \in Entries(r.out) : e.job = g.job => e = g
    BY <1>6 DEF Promotes
  <2> QED BY <1>1, <1>6, <2>1, StampFacts
<1>8. p.Pending = Pool(t)
  BY <1>1, <1>5 DEF Pool
<1>9. Promoted(t, r.out)
  BY <1>1, <1>3, <1>5, <1>6, <1>7, <1>8 DEF Promoted
<1> QED BY <1>9

LEMMA PassPromotes ==
    ASSUME TInv, OInv, KickWorkerPass
    PROVE  \E out : Promoted("worker", out)
<1> USE AgentFacts, ConstantFacts, QueueFacts
<1> DEFINE p == [q EXCEPT !.KickRearm = FALSE]
           r == PromoteUntilFull(p, Owner)
<1>1. /\ pc["worker"] = "loop" /\ q' = r.q /\ job' = StampCores(job, r.out)
      /\ promos' = [promos EXCEPT !["worker"] = r.out]
      /\ pc' = [pc EXCEPT !["worker"] = "kick"]
      /\ UNCHANGED <<nextId, hwJob, isr, atPeer, cur>>
  BY DEF KickWorkerPass, Goto, hwVars
<1>3. p \in QueueType
  BY DEF QueueType
<1>4. Owner \in OwnerType
  BY OwnerIsTyped DEF TInv
<1>5. /\ p.Pending = q.Pending /\ p.Completed = q.Completed
      /\ p.InFlight = q.InFlight /\ p.CoreIdle = q.CoreIdle /\ p.CorePending = q.CorePending
      /\ p.CoreCount = q.CoreCount /\ p.PeerOpen = q.PeerOpen
  BY DEF QueueType
<1> HIDE DEF p
<1>6. /\ r.out \in Seq(Promotion) /\ DistinctCores(r.out)
      /\ Promotes(p, r.q, Entries(r.out))
  BY <1>3, <1>4, PromoteFacts
<1> HIDE DEF r
<1>7. Stamped(Entries(r.out))
  <2>1. \A e, g \in Entries(r.out) : e.job = g.job => e = g
    BY <1>6 DEF Promotes
  <2> QED BY <1>1, <1>6, <2>1, StampFacts
<1>8. p.Pending = Pool("worker")
  BY <1>1, <1>5 DEF Pool
<1>9. \E pp \in QueueType :
         /\ pp.Pending = Pool("worker") /\ pp.Completed = q.Completed
         /\ pp.InFlight = q.InFlight
         /\ pp.CoreIdle = q.CoreIdle /\ pp.CorePending = q.CorePending
         /\ pp.CoreCount = q.CoreCount /\ pp.PeerOpen = q.PeerOpen
         /\ Promotes(pp, q', Entries(r.out))
  BY <1>1, <1>3, <1>5, <1>6, <1>8
<1>10. Promoted("worker", r.out)
  BY <1>1, <1>6, <1>7, <1>9 DEF Promoted
<1> QED BY <1>10

-----------------------------------------------------------------------------
(***************************************************************************)
(* Steps of one agent that change neither the queue's places nor any       *)
(* promotion list.                                                         *)
(***************************************************************************)
Strolls(a, l, c) ==
    /\ pc' = [pc EXCEPT ![a] = l] /\ cur' = [cur EXCEPT ![a] = c]
    /\ c \in JobId \cup {NoJob} /\ c <= nextId
    /\ pc[a] \notin {"complete", "peerFailed", "enqueue"}
    /\ l \notin {"complete", "peerFailed", "enqueue", "take"} \cup SignalPcs
    /\ promos[a] # <<>> => l \in KickPcs \cup EndPcs
    /\ l = "kickStart" => Head(promos[a]).core = 0
    /\ l = "peerCall" => Head(promos[a]).core = 1
    /\ l \notin EndPcs \/ pc[a] \in EndPcs \/ promos[a] = <<>>
    /\ SameSlots /\ q'.Pending = q.Pending /\ q'.Completed = q.Completed
    /\ \A j \in JobId : /\ job'[j].TargetCore = job[j].TargetCore /\ job'[j].mem = job[j].mem
                        /\ job'[j].Done => Over(j)
    /\ hwJob' \in {hwJob, NoJob}
    /\ UNCHANGED <<promos, nextId, isr, atPeer>>

LEMMA StrollsInv ==
    ASSUME TInv, OInv, NEW a \in Agents, NEW l, NEW c, Strolls(a, l, c), PcInv'
    PROVE  OInv'
<1> USE AgentFacts, ConstantFacts, QueueFacts, SteadyFacts
<1>1. pc'[a] = l /\ \A b \in Agents : b # a => pc'[b] = pc[b]
  BY DEF Strolls
<1>2. cur'[a] = c /\ \A b \in Agents : b # a => cur'[b] = cur[b]
  BY DEF Strolls
<1>3. promos' = promos /\ \A b \in Agents : Todo(b)' = Todo(b)
  BY DEF Strolls, Todo
<1>4. Todo(a) = {} <=> promos[a] = <<>>
  BY EntriesTyped, EmptyFacts DEF TInv, TypeOK, Todo
<1>5. PromoInv'
  <2>1. l \in EndPcs => \A e \in Todo(a) : e.core # 0
    BY <1>4 DEF Strolls, OInv, PromoInv
  <2> QED BY <1>1, <1>3, <2>1 DEF OInv, PromoInv, Strolls
<1>6. \A b \in Agents : \A e : Holds(b, e)' <=> Holds(b, e)
  BY <1>1, <1>3 DEF Holds, Strolls
<1>7. KickInv' /\ PeerInv'
  BY <1>3, <1>6 DEF OInv, KickInv, PeerInv, Strolls, SameSlots
<1>8. \A b \in Agents : Active(b)' <=> Active(b)
  BY <1>1, <1>3 DEF Active, Strolls
<1>9. DriveInv'
  BY <1>8 DEF OInv, DriveInv, Strolls, SameSlots
<1>10. SlotInv'
  BY SlotKeeps DEF Strolls
<1>11. \A j \in JobId : Over(j)' => Over(j)
  <2> SUFFICES ASSUME NEW j \in JobId, Over(j)' PROVE Over(j)
    OBVIOUS
  <2>1. job'[j].mem = job[j].mem /\ (job'[j].Done => Over(j)) /\ q'.Completed = q.Completed
    BY DEF Strolls
  <2>2. \A b \in Agents : pc'[b] \in {"take", "peerFailed"} \cup SignalPcs =>
           pc[b] = pc'[b] /\ promos'[b] = promos[b] /\ cur'[b] = cur[b]
    BY <1>1, <1>2, <1>3 DEF Strolls
  <2> QED BY <2>1, <2>2 DEF Over
<1>12. \A u \in Threads : pc'[u] = "enqueue" => pc[u] = "enqueue" /\ cur'[u] = cur[u]
  BY <1>1, <1>2 DEF Strolls
<1>13. \A j \in JobId : Peered(j)' => Peered(j)
  BY <1>3 DEF Peered, Strolls, SameSlots
<1>14. LiveInv'
  <2>1. q'.InFlight = q.InFlight /\ q'.Pending \subseteq q.Pending
    BY DEF Strolls, SameSlots
  <2>2. q.InFlight[1] # NoJob /\ 1 \in Steady => (Over(q.InFlight[1])' => Over(q.InFlight[1]))
    BY <1>11, <2>1
  <2> QED BY <1>11, <1>12, <1>13, <2>1, <2>2, LiveKeeps
<1>15. IdInv'
  <2>1. \A b \in Agents : cur'[b] <= nextId
    BY <1>2 DEF OInv, IdInv, Strolls
  <2> QED BY <1>3, <2>1 DEF OInv, IdInv, Strolls, SameSlots
<1> QED BY <1>5, <1>7, <1>9, <1>10, <1>14, <1>15 DEF OInv

\* The end of a list, the reset before a start, the test of PeerOpen.
LEMMA KickMovesInv ==
    ASSUME TInv, OInv, NEW a \in Agents,
           \/ KickDone(a)
           \/ KickReset(a) /\ mmio # "none"
           \/ KickPeerCheck(a) /\ q.PeerOpen
    PROVE  OInv'
<1> USE AgentFacts, ConstantFacts, QueueFacts DEF Goto, hwVars, ctlVars
<1>1. Kicker(a) /\ pc[a] = "kick" /\ UNCHANGED <<q, job, nextId, isr, atPeer, cur, promos>>
  BY DEF KickDone, KickReset, KickPeerCheck
<1>2. hwJob' \in {hwJob, NoJob}
  BY DEF KickDone, KickReset, KickPeerCheck
<1>3. PICK l \in PC : /\ pc' = [pc EXCEPT ![a] = l]
                      /\ \/ promos[a] = <<>> /\ l = (IF a = "worker" THEN "loop" ELSE "submitted")
                         \/ l = "kickStart" /\ Head(promos[a]).core = 0
                         \/ l = "peerCall" /\ Head(promos[a]).core = 1
  BY DEF KickDone, KickReset, KickPeerCheck, PC
<1>4. PcInv'
  BY <1>1, <1>3 DEF OInv, PcInv, KickPcs, EndPcs, SignalPcs, PnpPcs, Kicker
<1>5. \A j \in JobId : job'[j].Done => Over(j)
  BY <1>1 DEF Over
<1>6. cur' = [cur EXCEPT ![a] = cur[a]] /\ cur[a] <= nextId
  BY <1>1 DEF OInv, IdInv
<1>7. Strolls(a, l, cur[a])
  BY <1>1, <1>2, <1>3, <1>5, <1>6 DEF Strolls, SameSlots, KickPcs, EndPcs, SignalPcs
<1> QED BY <1>4, <1>7, StrollsInv

\* What follows a completion, and the worker's run.
LEMMA AfterInv ==
    ASSUME TInv, OInv, NEW a \in Agents,
           \/ JobCompleteGate(a) \/ EnqueueKickWorker(a)
           \/ a = "worker" /\ (KickWorkerStart \/ KickWorkerExit)
    PROVE  OInv'
<1> USE AgentFacts, ConstantFacts, QueueFacts DEF Goto, hwVars, ctlVars
<1>1. UNCHANGED <<job, nextId, hwJob, isr, atPeer, cur, promos>>
  BY DEF JobCompleteGate, EnqueueKickWorker, KickWorkerStart, KickWorkerExit
<1>2. SameSlots /\ q'.Pending = q.Pending /\ q'.Completed = q.Completed
  BY DEF JobCompleteGate, EnqueueKickWorker, KickWorkerStart, KickWorkerExit, QueueType,
         SameSlots
<1>3. PICK l \in {"idle", "kick", "loop"} :
         /\ pc' = [pc EXCEPT ![a] = l]
         /\ \/ /\ pc[a] \in {"gate", "arm"}
               /\ l = (IF a \in {"dpc", "peer"} THEN "idle" ELSE "kick")
            \/ /\ a = "worker" /\ pc[a] \in {"idle", "loop"}
               /\ l \in {"idle", "loop"}
  BY DEF JobCompleteGate, EnqueueKickWorker, KickWorkerStart, KickWorkerExit, Return, EndPcs,
         OInv, PcInv, SignalPcs
<1>4. PcInv'
  BY <1>3 DEF OInv, PcInv, KickPcs, EndPcs, SignalPcs, PnpPcs, Agents, System
<1>5. \A j \in JobId : job'[j].Done => Over(j)
  BY <1>1 DEF Over
<1>6. cur' = [cur EXCEPT ![a] = cur[a]] /\ cur[a] <= nextId
  BY <1>1 DEF OInv, IdInv
<1>7. promos[a] # <<>> => l \in KickPcs
  BY <1>3 DEF OInv, PromoInv, KickPcs, EndPcs
<1>8. Strolls(a, l, cur[a])
  BY <1>1, <1>2, <1>3, <1>5, <1>6, <1>7 DEF Strolls, KickPcs, EndPcs, SignalPcs
<1> QED BY <1>4, <1>8, StrollsInv

-----------------------------------------------------------------------------
(***************************************************************************)
(* Kicks.  Agent a is done with the promotion h at the head of its list.   *)
(***************************************************************************)
Pops(a, h, l) ==
    /\ pc[a] \in KickPcs /\ promos[a] # <<>> /\ h = Head(promos[a])
    /\ pc' = [pc EXCEPT ![a] = l] /\ l \in {"kick", "complete"}
    /\ l = "complete" => h.core = 0
    /\ promos' = [promos EXCEPT ![a] = Tail(@)]
    /\ atPeer' \subseteq atPeer \cup (IF pc[a] = "peerCall" THEN {h.job} ELSE {})
    /\ \A j \in JobId : /\ job'[j].TargetCore = job[j].TargetCore /\ job'[j].mem = job[j].mem
                        /\ job'[j].Done => Over(j)
    /\ UNCHANGED <<q, cur, nextId>>

LEMMA PopsFacts ==
    ASSUME TInv, OInv, NEW a \in Agents, NEW h, NEW l, Pops(a, h, l)
    PROVE  /\ pc'[a] = l /\ \A b \in Agents : b # a => pc'[b] = pc[b]
           /\ h \in Todo(a) /\ h.job \in JobId /\ h.core \in Cores
           /\ Todo(a)' = Todo(a) \ {h} /\ \A e \in Todo(a)' : e.core # h.core
           /\ \A b \in Agents : b # a => promos'[b] = promos[b] /\ Todo(b)' = Todo(b)
           /\ DistinctCores(promos'[a])
<1>1. pc'[a] = l /\ \A b \in Agents : b # a => pc'[b] = pc[b]
  BY QueueFacts DEF Pops
<1>2. promos[a] \in Seq(Promotion) /\ promos[a] # <<>> /\ DistinctCores(promos[a])
  BY DEF Pops, TInv, TypeOK, OInv, PromoInv
<1>3. promos'[a] = Tail(promos[a]) /\ \A b \in Agents : b # a => promos'[b] = promos[b]
  BY DEF Pops, TInv, TypeOK
<1>4. h \in Todo(a) /\ h \in Promotion
  BY <1>2, TailFacts DEF Pops, Todo
<1>5. /\ Entries(Tail(promos[a])) = Todo(a) \ {h} /\ DistinctCores(Tail(promos[a]))
      /\ \A e \in Entries(Tail(promos[a])) : e.core # h.core
  BY <1>2, TailFacts DEF Pops, Todo
<1>6. Todo(a)' = Entries(Tail(promos[a])) /\ \A b \in Agents : b # a => Todo(b)' = Todo(b)
  BY <1>3 DEF Todo
<1> QED BY <1>1, <1>3, <1>4, <1>5, <1>6, PromotionFacts

LEMMA PopsInv ==
    ASSUME TInv, OInv, NEW a \in Agents, Kicker(a), NEW h, NEW l, Pops(a, h, l)
    PROVE  PcInv' /\ PromoInv' /\ KickInv' /\ PeerInv' /\ SlotInv' /\ LiveInv' /\ IdInv'
<1> USE AgentFacts, ConstantFacts, QueueFacts, SteadyFacts
<1>1. /\ pc'[a] = l /\ \A b \in Agents : b # a => pc'[b] = pc[b]
      /\ h \in Todo(a) /\ h.job \in JobId /\ h.core \in Cores
      /\ Todo(a)' = Todo(a) \ {h} /\ \A e \in Todo(a)' : e.core # h.core
      /\ \A b \in Agents : b # a => promos'[b] = promos[b] /\ Todo(b)' = Todo(b)
      /\ DistinctCores(promos'[a])
  BY PopsFacts
<1>2. l \in {"kick", "complete"} /\ pc[a] \in KickPcs /\ (l = "complete" => h.core = 0)
  BY DEF Pops
<1>3. pc[a] \in {"peerCall", "peerFailed"} => h.core = 1
  BY DEF Pops, OInv, PromoInv
<1>4. PcInv'
  BY <1>1, <1>2 DEF OInv, PcInv, KickPcs, EndPcs, SignalPcs, PnpPcs, Kicker
<1>5. PromoInv'
  <2>1. a # "dpc" /\ a # "peer"
    BY DEF Kicker
  <2>2. l \in KickPcs \cup EndPcs /\ l # "kickStart" /\ l \notin {"peerCall", "peerFailed"}
    BY <1>2 DEF KickPcs, EndPcs
  <2>3. l \in EndPcs => \A e \in Todo(a)' : e.core # 0
    BY <1>1, <1>2 DEF EndPcs
  <2> QED BY <1>1, <2>1, <2>2, <2>3 DEF OInv, PromoInv
<1>6. \A b \in Agents : \A e \in Todo(b)' : e \in Todo(b) /\ (Holds(b, e)' => Holds(b, e))
  BY <1>1, <1>3 DEF Holds
<1>7. KickInv'
  BY <1>6 DEF OInv, KickInv, Pops
<1>8. PeerInv'
  <2> SUFFICES ASSUME 1 \in Steady PROVE PeerInv'
    BY DEF PeerInv
  <2>1. pc[a] = "peerCall" => h.core = 1 /\ Holds(a, h) /\ q.InFlight[1] = h.job
    BY <1>1, <1>3 DEF Holds, OInv, KickInv
  <2>2. \A j \in atPeer' : q'.InFlight[1] = j
    BY <2>1 DEF Pops, OInv, PeerInv
  <2>3. ASSUME NEW b \in Agents, NEW e \in Todo(b)', e.core = 1, Holds(b, e)' PROVE atPeer' = {}
    <3>1. e \in Todo(b) /\ Holds(b, e) /\ atPeer = {}
      BY <1>6, <2>3 DEF OInv, PeerInv
    <3>2. pc[a] # "peerCall"
      BY <1>1, <2>1, <2>3, <3>1 DEF OInv, KickInv
    <3> QED BY <3>1, <3>2 DEF Pops
  <2> QED BY <2>2, <2>3 DEF PeerInv
<1>9. SlotInv'
  BY SlotKeeps DEF SameSlots, Pops
<1>10. \A j \in JobId : Over(j)' => Over(j)
  <2> SUFFICES ASSUME NEW j \in JobId, Over(j)' PROVE Over(j)
    OBVIOUS
  <2>1. job'[j].mem = job[j].mem /\ (job'[j].Done => Over(j)) /\ q' = q /\ cur' = cur
    BY DEF Pops
  <2>2. \A b \in Agents : pc'[b] \in {"take", "peerFailed"} \cup SignalPcs =>
           pc[b] = pc'[b] /\ promos'[b] = promos[b]
    BY <1>1, <1>2 DEF SignalPcs
  <2> QED BY <2>1, <2>2 DEF Over
<1>11. \A u \in Threads : pc'[u] = "enqueue" => pc[u] = "enqueue" /\ cur'[u] = cur[u]
  BY <1>1, <1>2 DEF Pops
<1>12. \A j \in JobId : Peered(j)' => Peered(j)
  BY <1>1, <1>3, <1>6 DEF Peered, Pops
<1>13. LiveInv'
  <2>1. q' = q
    BY DEF Pops
  <2>2. q.InFlight[1] # NoJob /\ 1 \in Steady => (Over(q.InFlight[1])' => Over(q.InFlight[1]))
    BY <1>10, <2>1
  <2> QED BY <1>10, <1>11, <1>12, <2>1, <2>2, LiveKeeps
<1>14. IdInv'
  BY <1>1, <1>6 DEF OInv, IdInv, Pops
<1> QED BY <1>4, <1>5, <1>7, <1>8, <1>9, <1>13, <1>14

\* A kick of core 0 that fails before it starts, and one that starts the codec.
LEMMA KickLocalInv ==
    ASSUME TInv, OInv, NEW a \in Agents, (KickReset(a) /\ mmio = "none") \/ KickStart(a)
    PROVE  OInv'
<1> USE AgentFacts, ConstantFacts, QueueFacts, SteadyFacts DEF Goto, hwVars, ctlVars
<1>1. PICK h : h = Head(promos[a])
  OBVIOUS
<1>2. Kicker(a) /\ pc[a] \in {"kick", "kickStart"} /\ promos[a] # <<>> /\ h.core = 0
  BY <1>1 DEF KickReset, KickStart, TInv, Holding, OInv, PromoInv
<1>3. PICK l \in {"kick", "complete"} :
         /\ pc' = [pc EXCEPT ![a] = l] /\ promos' = [promos EXCEPT ![a] = Tail(@)]
         /\ l = "kick" => hwJob' = h.job
         /\ l = "complete" => hwJob' = hwJob
  BY <1>1 DEF KickReset, KickStart, KickFails
<1>4. UNCHANGED <<q, job, cur, nextId, isr, atPeer>>
  BY DEF KickReset, KickStart
<1>5. \A j \in JobId : job'[j].Done => Over(j)
  BY <1>4 DEF Over
<1>6. Pops(a, h, l)
  BY <1>1, <1>2, <1>3, <1>4, <1>5 DEF Pops, KickPcs
<1>7. /\ pc'[a] = l /\ \A b \in Agents : b # a => pc'[b] = pc[b]
      /\ h \in Todo(a) /\ h.job \in JobId /\ h.core \in Cores
      /\ Todo(a)' = Todo(a) \ {h} /\ \A e \in Todo(a)' : e.core # h.core
      /\ \A b \in Agents : b # a => promos'[b] = promos[b] /\ Todo(b)' = Todo(b)
  BY <1>6, PopsFacts
<1>8. Active(a) /\ Holds(a, h)
  BY <1>2, <1>7 DEF Active, Holds
<1>9. /\ hwJob = NoJob /\ isr = "none" /\ q.InFlight[0] = h.job
      /\ \A b \in Agents : b # a => ~Active(b)
  BY <1>2, <1>7, <1>8 DEF OInv, DriveInv, KickInv
<1>10. \A b \in Agents : b # a => ~Active(b)'
  BY <1>7, <1>9 DEF Active
<1>11. l = "kick" => ~Active(a)'
  BY <1>2, <1>7 DEF Active
<1>12. DriveInv'
  <2>1. CASE l = "kick"
    BY <1>3, <1>4, <1>9, <1>10, <1>11, <2>1 DEF DriveInv
  <2>2. CASE l = "complete"
    BY <1>3, <1>4, <1>7, <1>9, <1>10, <2>2 DEF DriveInv
  <2> QED BY <2>1, <2>2
<1> QED BY <1>2, <1>6, <1>12, PopsInv DEF OInv

\* RVD1 takes a kick, and a failed kick of core 1 is signalled.
LEMMA KickPeerInv ==
    ASSUME TInv, OInv, NEW a \in Agents,
           (KickPeerCall(a) /\ ~PeerRollback(a, "notready")) \/ PeerFailSignal(a)
    PROVE  OInv'
<1> USE AgentFacts, ConstantFacts, QueueFacts, SteadyFacts DEF Goto, hwVars, ctlVars
<1>1. PICK h : h = Head(promos[a])
  OBVIOUS
<1>2. /\ Kicker(a) /\ pc[a] \in {"peerCall", "peerFailed"} /\ promos[a] # <<>> /\ h.core = 1
      /\ promos[a] \in Seq(Promotion) /\ h.job \in JobId
  <2>1. Kicker(a) /\ pc[a] \in {"peerCall", "peerFailed"}
    BY DEF KickPeerCall, PeerFailSignal
  <2>2. promos[a] # <<>> /\ h.core = 1
    BY <1>1, <2>1 DEF TInv, Holding, OInv, PromoInv
  <2> QED BY <1>1, <2>1, <2>2, HeadIsTyped DEF TInv, TypeOK
<1>3. /\ pc' = [pc EXCEPT ![a] = "kick"] /\ promos' = [promos EXCEPT ![a] = Tail(@)]
      /\ atPeer' = atPeer \cup (IF pc[a] = "peerCall" THEN {h.job} ELSE {})
      /\ UNCHANGED <<q, cur, nextId, isr, hwJob>>
  BY <1>1 DEF KickPeerCall, PeerFailSignal
<1>4. \A j \in JobId : /\ job'[j].TargetCore = job[j].TargetCore /\ job'[j].mem = job[j].mem
                       /\ job'[j].Done => Over(j)
  <2>1. CASE KickPeerCall(a)
    BY <2>1 DEF KickPeerCall, Over
  <2>2. CASE PeerFailSignal(a)
    <3>1. job' = [job EXCEPT ![h.job].Result = arg[a], ![h.job].Done = TRUE]
      BY <1>1, <2>2 DEF PeerFailSignal
    <3>2. Over(h.job)
      BY <1>1, <2>2 DEF PeerFailSignal, Over
    <3>3. \A j \in JobId : j # h.job => job'[j] = job[j]
      BY <1>2, <3>1 DEF TInv, TypeOK
    <3>4. job'[h.job].TargetCore = job[h.job].TargetCore /\ job'[h.job].mem = job[h.job].mem
      BY <1>2, <3>1 DEF TInv, TypeOK, JobType
    <3> QED BY <3>2, <3>3, <3>4 DEF Over
  <2> QED BY <2>1, <2>2
<1>6. Pops(a, h, "kick")
  BY <1>1, <1>2, <1>3, <1>4 DEF Pops, KickPcs
<1>7. /\ pc'[a] = "kick" /\ \A b \in Agents : b # a => pc'[b] = pc[b]
      /\ h \in Todo(a) /\ h.job \in JobId /\ h.core \in Cores
      /\ Todo(a)' = Todo(a) \ {h} /\ \A e \in Todo(a)' : e.core # h.core
      /\ \A b \in Agents : b # a => promos'[b] = promos[b] /\ Todo(b)' = Todo(b)
  BY <1>6, PopsFacts
<1>8. \A b \in Agents : Active(b)' => Active(b)
  BY <1>7 DEF Active
<1>9. DriveInv'
  BY <1>3, <1>8 DEF OInv, DriveInv
<1> QED BY <1>2, <1>6, <1>9, PopsInv DEF OInv

-----------------------------------------------------------------------------
(***************************************************************************)
(* A slot is given up: job j leaves core c and is over.                    *)
(***************************************************************************)

\* Queue x is queue r with core c released and s as its Completed.
Releases(r, c, s, x) ==
    /\ x.InFlight[c] = NoJob /\ x.CoreIdle = r.CoreIdle \cup {c}
    /\ x.CorePending[c] = IF r.CorePending[c] > 0 THEN r.CorePending[c] - 1 ELSE 0
    /\ \A d \in Cores : d # c => x.InFlight[d] = r.InFlight[d]
                                 /\ x.CorePending[d] = r.CorePending[d]
    /\ x.Pending = r.Pending /\ x.Completed = s /\ x.CoreCount = r.CoreCount
    /\ x.PeerOpen = r.PeerOpen

LEMMA ReleaseFacts ==
    ASSUME NEW r \in QueueType, NEW c \in Cores, NEW s
    PROVE  Releases(r, c, s, [ReleaseSlot(r, c) EXCEPT !.Completed = s])
<1> DEFINE x == [ReleaseSlot(r, c) EXCEPT !.Completed = s]
<1>1. /\ x.InFlight = [r.InFlight EXCEPT ![c] = NoJob] /\ x.CoreIdle = r.CoreIdle \cup {c}
      /\ x.CorePending = [r.CorePending EXCEPT ![c] = IF @ > 0 THEN @ - 1 ELSE 0]
      /\ x.Pending = r.Pending /\ x.Completed = s /\ x.CoreCount = r.CoreCount
      /\ x.PeerOpen = r.PeerOpen
  BY DEF ReleaseSlot, QueueType
<1>2. r.InFlight \in [Cores -> JobId \cup {NoJob}] /\ r.CorePending \in [Cores -> Nat]
  BY DEF QueueType
<1> HIDE DEF x
<1>3. Releases(r, c, s, x)
  BY <1>1, <1>2 DEF Releases
<1> QED BY <1>3 DEF x

\* The completion of the job in slot 0.
Released0(a, j, l) ==
    /\ pc[a] = "complete" /\ j = q.InFlight[0] /\ j \in JobId
    /\ pc' = [pc EXCEPT ![a] = l]
    /\ l \in {"arm", "gate", IF a = "dpc" THEN "idle" ELSE "kick"}
    /\ \E s : /\ q' = [ReleaseSlot(q, 0) EXCEPT !.Completed = s]
              /\ q.Completed \subseteq s /\ s \subseteq q.Completed \cup {j}
              /\ j \in s \/ job'[j].mem = "freed"
    /\ \A k \in JobId : k # j => job'[k] = job[k]
    /\ UNCHANGED <<hwJob, isr, atPeer, promos, cur, nextId>>

LEMMA CompleteReleases ==
    ASSUME TInv, OInv, NEW a \in Agents, JobComplete(a)
    PROVE  \E j, l : /\ Released0(a, j, l) /\ a \in Threads \cup {"worker", "dpc"}
                     /\ IF FreeHere(j) THEN job' = Free({j}) /\ q'.Completed = q.Completed
                        ELSE /\ job' = [job EXCEPT ![j].Result = arg[a], ![j].Done = TRUE]
                             /\ q'.Completed = q.Completed \cup {j}
                     /\ UNCHANGED <<inited, mapped, closed>>
<1> USE AgentFacts, ConstantFacts, QueueFacts, SteadyFacts DEF Goto, hwVars, fileVars
<1>1. pc[a] = "complete" /\ a \in Threads \cup {"worker", "dpc"}
  BY DEF JobComplete, Kicker
<1>2. PICK j : j = q.InFlight[0]
  OBVIOUS
<1>3. Active(a) /\ j # NoJob /\ j \in JobId
  BY <1>1, <1>2 DEF Active, OInv, DriveInv
<1>4. job[j].TargetCore = 0
  BY <1>2, <1>3 DEF OInv, SlotInv
<1> DEFINE s  == IF FreeHere(j) THEN q.Completed ELSE q.Completed \cup {j}
           q1 == ReleaseSlot(q, 0)
           q2 == [q1 EXCEPT !.Completed = IF FreeHere(j) THEN @ ELSE @ \cup {j}]
           l  == IF q2.Pending # {} THEN "arm"
                 ELSE IF q2.CoreIdle = VisibleCores(q2) /\ ~(q2.Pending # {}) THEN "gate"
                 ELSE Return(a)
<1>5. /\ q' = q2 /\ pc' = [pc EXCEPT ![a] = l]
      /\ job' = IF FreeHere(j) THEN Free({j})
                ELSE [job EXCEPT ![j].Result = arg[a], ![j].Done = TRUE]
      /\ UNCHANGED <<hwJob, isr, atPeer, promos, cur, nextId, inited, mapped, closed>>
  BY <1>2, <1>3, <1>4 DEF JobComplete
<1>6. q1.Completed = q.Completed
  BY DEF ReleaseSlot, QueueType
<1>7. q2 = [q1 EXCEPT !.Completed = s]
  BY <1>6
<1>8. l \in {"arm", "gate", IF a = "dpc" THEN "idle" ELSE "kick"}
  BY DEF Return
<1> HIDE DEF l, q2
<1>9. q'.Completed = s
  BY <1>5, <1>7, ReleaseFacts DEF Releases
<1>10. \A k \in JobId : k # j => job'[k] = job[k]
  <2>1. CASE FreeHere(j)
    BY <1>5, <2>1 DEF Free
  <2>2. CASE ~FreeHere(j)
    BY <1>3, <1>5, <2>2 DEF TInv, TypeOK
  <2> QED BY <2>1, <2>2
<1>11. j \in s \/ job'[j].mem = "freed"
  <2>1. CASE FreeHere(j)
    BY <1>3, <1>5, <2>1 DEF Free, Freed, NewJob
  <2>2. CASE ~FreeHere(j)
    BY <2>2
  <2> QED BY <2>1, <2>2
<1>12. Released0(a, j, l)
  <2>1. q.Completed \subseteq s /\ s \subseteq q.Completed \cup {j}
    OBVIOUS
  <2>2. q' = [ReleaseSlot(q, 0) EXCEPT !.Completed = s]
    BY <1>5, <1>7
  <2> HIDE DEF s, q1
  <2>3. \E cs : /\ q' = [ReleaseSlot(q, 0) EXCEPT !.Completed = cs]
                /\ q.Completed \subseteq cs /\ cs \subseteq q.Completed \cup {j}
                /\ j \in cs \/ job'[j].mem = "freed"
    BY <1>11, <2>1, <2>2
  <2> QED BY <1>1, <1>2, <1>3, <1>5, <1>8, <1>10, <2>3 DEF Released0
<1> QED BY <1>1, <1>5, <1>9, <1>12

LEMMA Released0Inv ==
    ASSUME TInv, OInv, NEW a \in Threads \cup {"worker", "dpc"}, NEW j, NEW l,
           Released0(a, j, l)
    PROVE  OInv'
<1> USE AgentFacts, ConstantFacts, QueueFacts, SteadyFacts
<1>1. pc[a] = "complete" /\ j = q.InFlight[0] /\ j \in JobId
  BY DEF Released0
<1>2. PICK s : /\ q' = [ReleaseSlot(q, 0) EXCEPT !.Completed = s]
               /\ q.Completed \subseteq s /\ s \subseteq q.Completed \cup {j}
  BY DEF Released0
<1>3. /\ q'.InFlight[0] = NoJob /\ q'.CoreIdle = q.CoreIdle \cup {0}
      /\ q'.CorePending[0] = (IF q.CorePending[0] > 0 THEN q.CorePending[0] - 1 ELSE 0)
      /\ q'.InFlight[1] = q.InFlight[1] /\ q'.CorePending[1] = q.CorePending[1]
      /\ q'.Pending = q.Pending /\ q'.Completed = s /\ q'.CoreCount = q.CoreCount
      /\ q'.PeerOpen = q.PeerOpen
  <2>1. Releases(q, 0, s, q')
    BY <1>2, ReleaseFacts
  <2> QED BY <2>1 DEF Releases
<1>4. l \in {"arm", "gate", "kick", "idle"} /\ (l = "idle" <=> a = "dpc" /\ l \notin EndPcs)
  BY DEF Released0, EndPcs
<1>5. pc'[a] = l /\ \A b \in Agents : b # a => pc'[b] = pc[b]
  BY DEF Released0
<1>6. /\ promos' = promos /\ cur' = cur /\ atPeer' = atPeer /\ hwJob' = hwJob /\ isr' = isr
      /\ nextId' = nextId /\ \A b \in Agents : Todo(b)' = Todo(b)
  BY DEF Released0, Todo
<1>7. \A k \in JobId : k # j => job'[k] = job[k]
  BY DEF Released0
<1>8. Active(a) /\ \A e \in Todo(a) : e.core # 0
  BY <1>1 DEF Active, OInv, PromoInv, EndPcs
<1>9. hwJob = NoJob /\ isr = "none" /\ \A b \in Agents : b # a => ~Active(b)
  BY <1>8 DEF OInv, DriveInv
<1>10. PcInv'
  BY <1>4, <1>5 DEF OInv, PcInv, KickPcs, EndPcs, SignalPcs, PnpPcs
<1>11. PromoInv'
  <2>1. a = "dpc" => promos[a] = <<>>
    BY DEF OInv, PromoInv
  <2>2. promos[a] # <<>> => l \in KickPcs \cup EndPcs
    BY <1>4, <2>1 DEF KickPcs, EndPcs
  <2>3. l # "kickStart" /\ l \notin {"peerCall", "peerFailed"}
    BY <1>4
  <2> QED BY <1>5, <1>6, <1>8, <2>2, <2>3 DEF OInv, PromoInv
<1>12. \A b \in Agents : \A e \in Todo(b) : (Holds(b, e)' <=> Holds(b, e)) /\ e.core # 0
                                           /\ e.core \in Cores
  <2>1. \A b \in Agents : \A e \in Todo(b) : e.core # 0 /\ e.core \in Cores
    BY <1>8, <1>9, EntriesTyped, PromotionFacts DEF Active, TInv, TypeOK, Todo
  <2>2. pc[a] # "peerFailed" /\ l # "peerFailed"
    BY <1>1, <1>4
  <2> QED BY <1>5, <1>6, <2>1, <2>2 DEF Holds
<1>13. KickInv'
  BY <1>3, <1>6, <1>12 DEF OInv, KickInv
<1>14. DriveInv'
  <2>1. \A b \in Agents : ~Active(b)'
    BY <1>4, <1>5, <1>6, <1>8, <1>9 DEF Active
  <2> QED BY <1>6, <1>9, <2>1 DEF DriveInv
<1>15. PeerInv'
  BY <1>3, <1>6, <1>12 DEF OInv, PeerInv
<1>16. Ahead(j) /\ ~Peered(j) /\ ~Over(j)
  BY <1>1 DEF Ahead, OInv, LiveInv
<1>17. q.InFlight[1] # j /\ j \notin q.Pending
       /\ \A t \in Threads : pc[t] = "enqueue" => cur[t] # j
  BY <1>1, <1>16 DEF Peered, OInv, LiveInv
<1>18. SlotInv'
  <2>1. q.CorePending[0] = 1 /\ 0 < q.CoreCount
    BY <1>1 DEF OInv, SlotInv
  <2>2. q.InFlight[1] # NoJob => job'[q.InFlight[1]] = job[q.InFlight[1]]
    BY <1>7, <1>17
  <2>3. 1 \in q'.CoreIdle <=> 1 \in q.CoreIdle
    BY <1>3
  <2>4. ASSUME NEW c \in Steady
        PROVE  /\ c \in q'.CoreIdle <=> q'.InFlight[c] = NoJob /\ c < q'.CoreCount
               /\ q'.CorePending[c] = IF q'.InFlight[c] = NoJob THEN 0 ELSE 1
               /\ q'.InFlight[c] # NoJob =>
                     c < q'.CoreCount /\ job'[q'.InFlight[c]].TargetCore = c
    <3>1. CASE c = 0
      BY <1>3, <2>1, <3>1
    <3>2. CASE c = 1
      BY <1>3, <2>2, <2>3, <3>2 DEF OInv, SlotInv
    <3> QED BY <3>1, <3>2
  <2> QED BY <1>3, <2>4 DEF OInv, SlotInv
<1>19. \A t \in Threads : pc'[t] = "enqueue" => pc[t] = "enqueue"
  BY <1>4, <1>5
<1>20. \A k \in JobId : (Ahead(k)' => Ahead(k) /\ k # j) /\ (Peered(k)' => Peered(k))
  <2>1. \A k \in JobId : Ahead(k)' => Ahead(k) /\ k # j
    BY <1>3, <1>6, <1>17, <1>19 DEF Ahead
  <2>2. \A k \in JobId : Peered(k)' => Peered(k)
    BY <1>3, <1>6 DEF Peered
  <2> QED BY <2>1, <2>2
<1>21. \A k \in JobId : k # j /\ Over(k)' => Over(k)
  <2>1. \A b \in Agents : pc'[b] \in {"take", "peerFailed"} \cup SignalPcs => pc[b] = pc'[b]
    BY <1>4, <1>5 DEF SignalPcs
  <2> QED BY <1>2, <1>3, <1>6, <1>7, <2>1 DEF Over
<1>22. LiveInv'
  <2>1. \A k \in JobId : Ahead(k)' => ~Over(k)' /\ ~Peered(k)'
    BY <1>20, <1>21 DEF OInv, LiveInv
  <2>2. 1 \in Steady /\ q'.InFlight[1] # NoJob => ~Over(q.InFlight[1])'
    BY <1>3, <1>17, <1>21 DEF OInv, LiveInv
  <2>3. q'.InFlight[0] \notin q'.Pending
    BY <1>3
  <2>4. \A t \in Threads : pc'[t] = "enqueue" => cur'[t] \notin q'.Pending /\ cur'[t] # q'.InFlight[0]
    BY <1>3, <1>6, <1>19 DEF OInv, LiveInv, TInv, Holding
  <2>5. \A t, u \in Threads : pc'[t] = "enqueue" /\ pc'[u] = "enqueue" /\ cur'[u] = cur'[t] => t = u
    BY <1>6, <1>19 DEF OInv, LiveInv
  <2> QED BY <2>1, <2>2, <2>3, <2>4, <2>5 DEF LiveInv
<1>23. IdInv'
  <2>1. j <= nextId
    BY <1>1 DEF OInv, IdInv
  <2>2. \A c \in Cores : q'.InFlight[c] <= nextId
    BY <1>3 DEF OInv, IdInv, NoJob
  <2>3. \A k \in JobId : k > nextId => job'[k].mem = "none"
    BY <1>7, <2>1 DEF OInv, IdInv
  <2> QED BY <1>2, <1>3, <1>6, <2>1, <2>2, <2>3 DEF OInv, IdInv
<1> QED BY <1>10, <1>11, <1>13, <1>14, <1>15, <1>18, <1>22, <1>23 DEF OInv

\* Job j, which core 1 had, goes to Completed: agent a rolls a kick back, or is
\* RVD1's completion.
Vacates(a, j, l) ==
    /\ \/ /\ Kicker(a) /\ pc[a] \in {"kick", "peerCall"} /\ l = "peerFailed"
          /\ promos[a] # <<>> /\ Head(promos[a]).core = 1 /\ Head(promos[a]).job = j
          /\ cur' = cur
       \/ /\ a = "peer" /\ pc[a] = "idle" /\ l \in SignalPcs
          /\ cur' = [cur EXCEPT ![a] = j]
          /\ 1 \in Steady => j \in atPeer
    /\ pc' = [pc EXCEPT ![a] = l]
    /\ j \in JobId /\ j <= nextId /\ Peered(j)
    /\ \/ q.InFlight[1] = j /\ Releases(q, 1, q.Completed \cup {j}, q')
       \/ /\ q.InFlight[1] # j /\ 1 \notin Steady
          /\ SameSlots /\ q'.Pending = q.Pending /\ q'.Completed = q.Completed \cup {j}
    /\ atPeer' \subseteq atPeer \ (IF a = "peer" THEN {j} ELSE {})
    /\ \A k \in JobId : /\ job'[k].TargetCore = job[k].TargetCore
                        /\ job'[k].mem = job[k].mem /\ job'[k].Done = job[k].Done
    /\ UNCHANGED <<promos, hwJob, isr, nextId>>

LEMMA VacatesInv ==
    ASSUME TInv, OInv, NEW a \in Agents, NEW j, NEW l, Vacates(a, j, l)
    PROVE  OInv'
<1> USE AgentFacts, ConstantFacts, QueueFacts, SteadyFacts
<1>1. pc'[a] = l /\ \A b \in Agents : b # a => pc'[b] = pc[b]
  BY DEF Vacates
<1>2. j \in JobId /\ j <= nextId /\ Peered(j)
  BY DEF Vacates
<1>3. /\ q'.InFlight[0] = q.InFlight[0] /\ q'.CorePending[0] = q.CorePending[0]
      /\ 0 \in q'.CoreIdle <=> 0 \in q.CoreIdle
      /\ q'.CoreCount = q.CoreCount /\ q'.PeerOpen = q.PeerOpen
      /\ q'.Pending = q.Pending /\ q'.Completed = q.Completed \cup {j}
      /\ q'.InFlight[1] \in {q.InFlight[1], NoJob}
  BY DEF Vacates, Releases, SameSlots
<1>4. 1 \in Steady => /\ q.InFlight[1] = j /\ q'.InFlight[1] = NoJob
                      /\ q'.CoreIdle = q.CoreIdle \cup {1}
                      /\ q'.CorePending[1] =
                            (IF q.CorePending[1] > 0 THEN q.CorePending[1] - 1 ELSE 0)
  BY DEF Vacates, Releases
<1>5. /\ promos' = promos /\ hwJob' = hwJob /\ isr' = isr /\ nextId' = nextId
      /\ \A b \in Agents : Todo(b)' = Todo(b)
  BY DEF Vacates, Todo
<1>6. /\ pc[a] \in {"kick", "peerCall", "idle"} /\ l \in {"peerFailed"} \cup SignalPcs
      /\ l = "peerFailed" => /\ Kicker(a) /\ promos[a] # <<>> /\ cur' = cur
                             /\ Head(promos[a]).core = 1 /\ Head(promos[a]).job = j
      /\ l \in SignalPcs => a = "peer" /\ cur' = [cur EXCEPT ![a] = j]
                            /\ (1 \in Steady => j \in atPeer)
  BY DEF Vacates, SignalPcs
<1>7. PcInv'
  BY <1>1, <1>6 DEF OInv, PcInv, KickPcs, EndPcs, SignalPcs, PnpPcs, Kicker
<1>8. PromoInv'
  <2>1. a = "peer" => promos[a] = <<>>
    BY DEF OInv, PromoInv
  <2>2. promos[a] # <<>> => l \in KickPcs \cup EndPcs
    BY <1>6, <2>1 DEF KickPcs
  <2>3. l # "kickStart" /\ l \notin EndPcs /\ l # "peerCall"
    BY <1>6 DEF EndPcs, SignalPcs
  <2> QED BY <1>1, <1>5, <1>6, <2>2, <2>3 DEF OInv, PromoInv
<1>9. \A b \in Agents : \A e \in Todo(b) : Holds(b, e)' => Holds(b, e)
  BY <1>1, <1>5, <1>6 DEF Holds
<1>10. \A b \in Agents : \A e \in Todo(b) : e.core \in Cores
  BY EntriesTyped, PromotionFacts DEF TInv, TypeOK, Todo
\* Nobody holds core 1 any longer.
<1>11. 1 \in Steady => \A b \in Agents : \A e \in Todo(b) : e.core = 1 => ~Holds(b, e)'
  <2> SUFFICES ASSUME 1 \in Steady, NEW b \in Agents, NEW e \in Todo(b), e.core = 1,
                      Holds(b, e)'
               PROVE  FALSE
    OBVIOUS
  <2>1. Holds(b, e)
    BY <1>9
  <2>2. CASE l = "peerFailed"
    <3>1. promos[a] \in Seq(Promotion) /\ DistinctCores(promos[a])
      BY DEF TInv, TypeOK, OInv, PromoInv
    <3>2. Head(promos[a]) \in Todo(a) /\ pc[a] # "peerFailed"
      BY <1>6, <2>2, <3>1, TailFacts DEF Todo
    <3>3. Holds(a, Head(promos[a]))
      BY <3>2 DEF Holds
    <3>4. b = a
      BY <1>6, <2>1, <2>2, <3>2, <3>3 DEF OInv, KickInv
    <3> QED BY <1>1, <2>2, <3>4 DEF Holds
  <2>3. CASE l \in SignalPcs
    BY <1>6, <2>1, <2>3 DEF OInv, PeerInv
  <2> QED BY <1>6, <2>2, <2>3
<1>12. KickInv'
  <2>1. ASSUME NEW b \in Agents, NEW e \in Todo(b), e.core \in Steady, Holds(b, e)'
        PROVE  q'.InFlight[e.core] = e.job
    BY <1>3, <1>9, <1>10, <1>11, <2>1 DEF OInv, KickInv
  <2> QED BY <1>5, <1>9, <2>1 DEF OInv, KickInv
<1>13. DriveInv'
  <2>1. l # "complete" /\ pc[a] # "complete"
    BY <1>6 DEF SignalPcs
  <2>2. \A b \in Agents : Active(b)' <=> Active(b)
    BY <1>1, <1>5, <2>1 DEF Active
  <2> QED BY <1>3, <1>5, <2>2 DEF OInv, DriveInv
<1>14. PeerInv'
  <2> SUFFICES ASSUME 1 \in Steady PROVE PeerInv'
    BY DEF PeerInv
  <2>1. atPeer \subseteq {j}
    BY <1>4 DEF OInv, PeerInv
  <2>2. atPeer' = {}
    <3>1. CASE l = "peerFailed"
      <4>1. promos[a] \in Seq(Promotion) /\ DistinctCores(promos[a])
        BY DEF TInv, TypeOK, OInv, PromoInv
      <4>2. Head(promos[a]) \in Todo(a) /\ pc[a] # "peerFailed"
        BY <1>6, <3>1, <4>1, TailFacts DEF Todo
      <4>3. atPeer = {}
        BY <1>6, <3>1, <4>2 DEF Holds, OInv, PeerInv
      <4> QED BY <4>3 DEF Vacates
    <3>2. CASE l \in SignalPcs
      BY <1>6, <2>1, <3>2 DEF Vacates
    <3> QED BY <1>6, <3>1, <3>2
  <2> QED BY <1>5, <1>11, <2>2 DEF PeerInv
<1>15. \A k \in JobId : /\ job'[k].TargetCore = job[k].TargetCore
                        /\ job'[k].mem = job[k].mem /\ job'[k].Done = job[k].Done
  BY DEF Vacates
<1>16. SlotInv'
  <2>1. 1 \in Steady => 1 < q.CoreCount /\ q.CorePending[1] = 1
    BY <1>2, <1>4 DEF OInv, SlotInv
  <2>2. ASSUME NEW c \in Steady
        PROVE  /\ c \in q'.CoreIdle <=> q'.InFlight[c] = NoJob /\ c < q'.CoreCount
               /\ q'.CorePending[c] = IF q'.InFlight[c] = NoJob THEN 0 ELSE 1
               /\ q'.InFlight[c] # NoJob =>
                     c < q'.CoreCount /\ job'[q'.InFlight[c]].TargetCore = c
    <3>1. CASE c = 0
      BY <1>3, <1>15, <3>1 DEF OInv, SlotInv
    <3>2. CASE c = 1
      BY <1>3, <1>4, <2>1, <2>2, <3>2
    <3> QED BY <3>1, <3>2
  <2> QED BY <1>3, <2>2 DEF OInv, SlotInv
<1>17. \A t \in Threads : (pc'[t] = "enqueue" => pc[t] = "enqueue") /\ cur'[t] = cur[t]
  BY <1>1, <1>6 DEF SignalPcs
<1>18. ~Ahead(j)
  BY <1>2 DEF OInv, LiveInv
<1>19. \A k \in JobId : (Ahead(k)' => Ahead(k)) /\ (Peered(k)' => Peered(k))
  <2>1. \A k \in JobId : Ahead(k)' => Ahead(k)
    BY <1>3, <1>17 DEF Ahead
  <2>2. \A k \in JobId : Peered(k)' => Peered(k)
    BY <1>3, <1>5 DEF Peered, Vacates
  <2> QED BY <2>1, <2>2
<1>20. \A k \in JobId : k # j /\ Over(k)' => Over(k)
  <2> SUFFICES ASSUME NEW k \in JobId, k # j, Over(k)' PROVE Over(k)
    OBVIOUS
  <2>1. job'[k].mem = job[k].mem /\ job'[k].Done = job[k].Done
    BY <1>15
  <2>2. \A t \in Threads : pc'[t] = "take" => pc[t] = "take"
    BY <1>1, <1>6 DEF SignalPcs
  <2>3. ASSUME NEW b \in Agents, pc'[b] = "peerFailed", Head(promos'[b]).job = k
        PROVE  pc[b] = "peerFailed" /\ Head(promos[b]).job = k
    BY <1>1, <1>5, <1>6, <2>3 DEF SignalPcs
  <2>4. pc'["peer"] \in SignalPcs /\ cur'["peer"] = k =>
           pc["peer"] \in SignalPcs /\ cur["peer"] = k
    BY <1>1, <1>6 DEF SignalPcs
  <2> QED BY <1>3, <1>17, <2>1, <2>2, <2>3, <2>4 DEF Over
<1>21. LiveInv'
  <2>1. \A k \in JobId : Ahead(k)' => ~Over(k)' /\ ~Peered(k)'
    BY <1>18, <1>19, <1>20 DEF OInv, LiveInv
  <2>2. 1 \in Steady /\ q'.InFlight[1] # NoJob => ~Over(q.InFlight[1])'
    BY <1>4
  <2>3. q'.InFlight[0] \notin q'.Pending
    BY <1>3 DEF OInv, LiveInv
  <2>4. \A t \in Threads : pc'[t] = "enqueue" => cur'[t] \notin q'.Pending /\ cur'[t] # q'.InFlight[0]
    BY <1>3, <1>17 DEF OInv, LiveInv
  <2>5. \A t, u \in Threads : pc'[t] = "enqueue" /\ pc'[u] = "enqueue" /\ cur'[u] = cur'[t] => t = u
    BY <1>17 DEF OInv, LiveInv
  <2> QED BY <2>1, <2>2, <2>3, <2>4, <2>5 DEF LiveInv
<1>22. IdInv'
  <2>1. \A c \in Cores : q'.InFlight[c] <= nextId
    BY <1>3 DEF OInv, IdInv, NoJob
  <2>2. \A b \in Agents : cur'[b] <= nextId
    BY <1>2, <1>6 DEF OInv, IdInv
  <2>3. \A k \in JobId : k > nextId => job'[k].mem = "none"
    BY <1>15 DEF OInv, IdInv
  <2>4. \A k \in q'.Pending \cup q'.Completed \cup atPeer' : k <= nextId
    BY <1>2, <1>3 DEF OInv, IdInv, Vacates
  <2> QED BY <1>5, <2>1, <2>2, <2>3, <2>4 DEF OInv, IdInv
<1> QED BY <1>7, <1>8, <1>12, <1>13, <1>14, <1>16, <1>21, <1>22 DEF OInv

\* A rolled-back kick.
LEMMA RollbackVacates ==
    ASSUME TInv, OInv, NEW a \in Agents, KickPeerCheck(a) \/ KickPeerCall(a),
           PeerRollback(a, "notready")
    PROVE  /\ Vacates(a, Head(promos[a]).job, "peerFailed") /\ cur' = cur /\ job' = job
           /\ atPeer' = atPeer
           /\ q'.Completed = q.Completed \cup {Head(promos[a]).job}
           /\ UNCHANGED <<inited, mapped, closed>>
<1> USE AgentFacts, ConstantFacts, QueueFacts, SteadyFacts DEF Goto, hwVars, fileVars
<1>1. PICK h : h = Head(promos[a])
  OBVIOUS
<1>2. PICK j : j = h.job
  OBVIOUS
<1>3. Kicker(a) /\ pc[a] \in {"kick", "peerCall"}
  BY DEF KickPeerCheck, KickPeerCall
<1>4. promos[a] # <<>> /\ h.core = 1
  BY <1>1 DEF KickPeerCheck, KickPeerCall, TInv, Holding, OInv, PromoInv
<1>5. h \in Todo(a) /\ h \in Promotion
  <2>1. promos[a] \in Seq(Promotion) /\ DistinctCores(promos[a])
    BY DEF TInv, TypeOK, OInv, PromoInv
  <2> QED BY <1>1, <1>4, <2>1, TailFacts DEF Todo
<1>6. j \in JobId /\ j <= nextId /\ Peered(j)
  BY <1>2, <1>4, <1>5, PromotionFacts DEF OInv, IdInv, Peered
<1>7. 1 \in Steady => q.InFlight[1] = j
  BY <1>2, <1>3, <1>4, <1>5 DEF Holds, OInv, KickInv
<1>8. pc' = [pc EXCEPT ![a] = "peerFailed"]
  BY DEF PeerRollback
<1>9. pc'[a] = "peerFailed"
  BY <1>8
<1>10. UNCHANGED <<job, nextId, cur, hwJob, isr, atPeer, promos, inited, mapped, closed>>
  <2>1. CASE KickPeerCheck(a)
    BY <2>1 DEF KickPeerCheck
  <2>2. CASE KickPeerCall(a)
    BY <1>9, <2>2 DEF KickPeerCall
  <2> QED BY <2>1, <2>2
<1> DEFINE q1 == IF q.InFlight[1] = j THEN ReleaseSlot(q, 1) ELSE q
<1>11. q' = [q1 EXCEPT !.Completed = @ \cup {j}]
  BY <1>1, <1>2 DEF PeerRollback
<1>12. /\ \/ q.InFlight[1] = j /\ Releases(q, 1, q.Completed \cup {j}, q')
          \/ /\ q.InFlight[1] # j /\ 1 \notin Steady
             /\ SameSlots /\ q'.Pending = q.Pending /\ q'.Completed = q.Completed \cup {j}
  <2>1. CASE q.InFlight[1] = j
    <3>1. ReleaseSlot(q, 1).Completed = q.Completed
      BY DEF ReleaseSlot, QueueType
    <3>2. q' = [ReleaseSlot(q, 1) EXCEPT !.Completed = q.Completed \cup {j}]
      BY <1>11, <2>1, <3>1
    <3> QED BY <2>1, <3>2, ReleaseFacts
  <2>2. CASE q.InFlight[1] # j
    <3>1. q' = [q EXCEPT !.Completed = q.Completed \cup {j}]
      BY <1>11, <2>2
    <3> QED BY <1>7, <2>2, <3>1, ListFrames
  <2> QED BY <2>1, <2>2
<1>13. q'.Completed = q.Completed \cup {j}
  BY <1>12 DEF Releases
<1>14. a # "peer"
  BY <1>3 DEF Kicker
<1>15. Vacates(a, j, "peerFailed")
  BY <1>1, <1>2, <1>3, <1>4, <1>6, <1>8, <1>10, <1>12, <1>14 DEF Vacates
<1> QED BY <1>1, <1>2, <1>10, <1>13, <1>15

-----------------------------------------------------------------------------
(***************************************************************************)
(* RVD1, PnP and the interrupt.                                            *)
(***************************************************************************)

\* A completion of the job in slot 1.
LEMMA PeerVacates ==
    ASSUME TInv, OInv, PeerCompletion, q' # q
    PROVE  \E j \in atPeer, l \in SignalPcs :
              /\ Vacates("peer", j, l) /\ cur' = [cur EXCEPT !["peer"] = j]
              /\ atPeer' = atPeer \ {j}
              /\ q'.Completed = q.Completed \cup {j}
              /\ \E s \in Status : job' = [job EXCEPT ![j].Result = s]
              /\ UNCHANGED <<inited, mapped, closed>>
<1> USE AgentFacts, ConstantFacts, QueueFacts, SteadyFacts DEF Goto, hwVars, fileVars
<1>1. PICK j \in atPeer, s \in {"ok", "error", "timeout"} :
         /\ atPeer' = atPeer \ {j} /\ q.InFlight[1] = j
         /\ q' = [ReleaseSlot(q, 1) EXCEPT !.Completed = @ \cup {j}]
         /\ job' = [job EXCEPT ![j].Result = s]
         /\ cur' = [cur EXCEPT !["peer"] = j]
         /\ pc' = [pc EXCEPT !["peer"] = IF q.Pending # {} THEN "signalKick" ELSE "signal"]
  <2>1. (IF "error" \in Env THEN {"ok", "error", "timeout"} ELSE {"ok"})
           \subseteq {"ok", "error", "timeout"}
    OBVIOUS
  <2>2. PICK j \in atPeer, s \in IF "error" \in Env THEN {"ok", "error", "timeout"} ELSE {"ok"} :
          /\ atPeer' = atPeer \ {j}
          /\ \/ /\ q.InFlight[1] # j
                /\ UNCHANGED <<q, job, cur, pc>>
             \/ /\ q.InFlight[1] = j
                /\ q' = [ReleaseSlot(q, 1) EXCEPT !.Completed = @ \cup {j}]
                /\ job' = [job EXCEPT ![j].Result = s]
                /\ cur' = [cur EXCEPT !["peer"] = j]
                /\ pc' = [pc EXCEPT !["peer"] =
                             IF q.Pending # {} THEN "signalKick" ELSE "signal"]
    BY DEF PeerCompletion
  <2> QED BY <2>1, <2>2
<1>2. pc["peer"] = "idle" /\ UNCHANGED <<nextId, hwJob, isr, promos, inited, mapped, closed>>
  BY DEF PeerCompletion
<1>3. PICK l \in SignalPcs : pc' = [pc EXCEPT !["peer"] = l]
  BY <1>1 DEF SignalPcs
<1>4. j \in JobId /\ j <= nextId /\ Peered(j)
  BY <1>1 DEF TInv, TypeOK, OInv, IdInv, Peered
<1>5. Releases(q, 1, q.Completed \cup {j}, q')
  <2>1. ReleaseSlot(q, 1).Completed = q.Completed
    BY DEF ReleaseSlot, QueueType
  <2>2. q' = [ReleaseSlot(q, 1) EXCEPT !.Completed = q.Completed \cup {j}]
    BY <1>1, <2>1
  <2> QED BY <2>2, ReleaseFacts
<1>6. \A k \in JobId : /\ job'[k].TargetCore = job[k].TargetCore
                       /\ job'[k].mem = job[k].mem /\ job'[k].Done = job[k].Done
  <2>1. \A k \in JobId : k # j => job'[k] = job[k]
    BY <1>1, <1>4 DEF TInv, TypeOK
  <2>2. job'[j] = [job[j] EXCEPT !.Result = s] /\ job[j] \in JobType
    BY <1>1, <1>4 DEF TInv, TypeOK
  <2> QED BY <2>1, <2>2 DEF JobType
<1>7. Vacates("peer", j, l)
  BY <1>1, <1>2, <1>3, <1>4, <1>5, <1>6 DEF Vacates
<1>8. q'.Completed = q.Completed \cup {j}
  BY <1>5 DEF Releases
<1>9. s \in Status
  BY DEF Status
<1> QED BY <1>1, <1>2, <1>7, <1>8, <1>9

\* RVD1 forgets a kick: a stale answer, or none at all.
LEMMA ForgetInv ==
    ASSUME TInv, OInv, atPeer' \subseteq atPeer,
           UNCHANGED <<q, job, nextId, hwJob, isr, pc, cur, promos>>
    PROVE  OInv'
<1>1. \A b \in Agents : Todo(b)' = Todo(b)
  BY DEF Todo
<1>2. \A b \in Agents : \A e : Holds(b, e)' <=> Holds(b, e)
  BY <1>1 DEF Holds
<1>3. PcInv' /\ PromoInv' /\ KickInv' /\ SlotInv'
  BY <1>1, <1>2 DEF OInv, PcInv, PromoInv, KickInv, SlotInv
<1>4. DriveInv'
  BY <1>1 DEF OInv, DriveInv, Active
<1>5. PeerInv'
  BY <1>1, <1>2 DEF OInv, PeerInv
<1>6. LiveInv'
  <2>1. \A j \in JobId : Peered(j)' => Peered(j)
    BY <1>1 DEF Peered
  <2>2. \A j : Over(j)' <=> Over(j)
    BY DEF Over
  <2> QED BY <2>1, <2>2, LiveKeeps
<1>7. IdInv'
  BY <1>1 DEF OInv, IdInv
<1> QED BY <1>3, <1>4, <1>5, <1>6, <1>7 DEF OInv

LEMMA PeerStepInv == ASSUME TInv, OInv, PeerStep \/ PeerDrop PROVE OInv'
<1> USE AgentFacts, ConstantFacts, QueueFacts DEF Goto, hwVars, ctlVars
<1>1. CASE PeerCompletion /\ q' # q
  BY <1>1, PeerVacates, VacatesInv
<1>2. CASE PeerCompletion /\ q' = q
  <2>1. PICK j \in atPeer : /\ atPeer' = atPeer \ {j}
                            /\ \/ UNCHANGED <<q, job, cur, pc>>
                               \/ /\ q.InFlight[1] = j
                                  /\ q' = [ReleaseSlot(q, 1) EXCEPT !.Completed = @ \cup {j}]
    BY <1>2 DEF PeerCompletion
  <2>2. UNCHANGED <<q, job, cur, pc>>
    <3>1. ASSUME q.InFlight[1] = j, q' = [ReleaseSlot(q, 1) EXCEPT !.Completed = @ \cup {j}]
          PROVE  FALSE
      <4>1. ReleaseSlot(q, 1).Completed = q.Completed
        BY DEF ReleaseSlot, QueueType
      <4>2. q' = [ReleaseSlot(q, 1) EXCEPT !.Completed = q.Completed \cup {j}]
        BY <3>1, <4>1
      <4>3. q'.InFlight[1] = NoJob
        BY <4>2, ReleaseFacts, SteadyFacts DEF Releases
      <4> QED BY <1>2, <3>1, <4>3 DEF TInv, TypeOK
    <3> QED BY <2>1, <3>1
  <2>3. UNCHANGED <<nextId, hwJob, isr, promos>>
    BY <1>2 DEF PeerCompletion
  <2> QED BY <2>1, <2>2, <2>3, ForgetInv
<1>3. CASE PeerCompletionSignal
  <2>1. PICK j : j = cur["peer"]
    OBVIOUS
  <2>2. PICK l \in {"arm", "idle"} : pc' = [pc EXCEPT !["peer"] = l]
    BY <1>3 DEF PeerCompletionSignal
  <2>3. /\ pc["peer"] \in SignalPcs /\ job' = [job EXCEPT ![j].Done = TRUE]
        /\ cur' = [cur EXCEPT !["peer"] = NoJob]
        /\ UNCHANGED <<q, nextId, hwJob, isr, atPeer, promos>>
    BY <1>3, <2>1 DEF PeerCompletionSignal, SignalPcs
  <2>4. \A k \in JobId : /\ job'[k].TargetCore = job[k].TargetCore /\ job'[k].mem = job[k].mem
                         /\ job'[k].Done => Over(k)
    <3>1. \A k \in JobId : k # j => job'[k] = job[k]
      BY <2>3 DEF TInv, TypeOK
    <3>2. j \in JobId => job'[j].TargetCore = job[j].TargetCore /\ job'[j].mem = job[j].mem
      BY <2>3 DEF TInv, TypeOK, JobType
    <3>3. Over(j)
      BY <2>1, <2>3 DEF Over
    <3> QED BY <3>1, <3>2, <3>3 DEF Over
  <2>5. promos["peer"] = <<>>
    BY DEF OInv, PromoInv
  <2>6. PcInv'
    BY <2>2 DEF OInv, PcInv, KickPcs, EndPcs, SignalPcs, PnpPcs
  <2>7. NoJob <= nextId
    BY DEF NoJob
  <2>8. Strolls("peer", l, NoJob)
    BY <2>2, <2>3, <2>4, <2>5, <2>7 DEF Strolls, SameSlots, SignalPcs, KickPcs, EndPcs
  <2> QED BY <2>6, <2>8, StrollsInv
<1>4. CASE PeerDrop
  <2>1. atPeer' \subseteq atPeer /\ UNCHANGED <<q, job, nextId, hwJob, isr, pc, cur, promos>>
    BY <1>4 DEF PeerDrop
  <2> QED BY <2>1, ForgetInv
<1> QED BY <1>1, <1>2, <1>3, <1>4 DEF PeerStep

\* The peer comes or goes: slot 1 is the only one touched, and not the job in it.
LEMMA AttachInv == ASSUME TInv, OInv, PeerArrival \/ DetachPeer PROVE OInv'
<1> USE AgentFacts, ConstantFacts, QueueFacts, SteadyFacts DEF Goto, hwVars, ctlVars
<1>1. /\ q'.Pending = q.Pending /\ q'.Completed = q.Completed /\ q'.InFlight = q.InFlight
      /\ q'.CorePending = [q.CorePending EXCEPT ![1] = 0]
  <2>1. CASE PeerArrival
    BY <2>1 DEF PeerArrival, QueueType
  <2>2. CASE DetachPeer
    BY <2>2 DEF DetachPeer, QueueType
  <2> QED BY <2>1, <2>2
<1>2. PICK l \in {"idle", "wait1"} : pc' = [pc EXCEPT !["pnp"] = l]
  BY DEF PeerArrival, DetachPeer
<1>3. pc["pnp"] = "idle" /\ UNCHANGED <<job, nextId, hwJob, isr, atPeer, promos>>
  BY DEF PeerArrival, DetachPeer
<1>4. PICK c \in JobId \cup {NoJob} : cur' = [cur EXCEPT !["pnp"] = c] /\ c <= nextId
  <2>1. CASE PeerArrival
    <3>1. cur' = [cur EXCEPT !["pnp"] = cur["pnp"]]
      BY <2>1 DEF PeerArrival
    <3> QED BY <3>1 DEF OInv, IdInv
  <2>2. CASE DetachPeer
    BY <2>2 DEF DetachPeer, OInv, IdInv
  <2> QED BY <2>1, <2>2
<1>5. pc'["pnp"] = l /\ \A b \in Agents : b # "pnp" => pc'[b] = pc[b] /\ cur'[b] = cur[b]
  BY <1>2, <1>4
<1>6. PcInv'
  BY <1>5 DEF OInv, PcInv, KickPcs, EndPcs, SignalPcs, PnpPcs
<1>7. promos["pnp"] = <<>>
  BY <1>3 DEF OInv, PromoInv, KickPcs, EndPcs
<1>8. \A b \in Agents : Todo(b)' = Todo(b)
  BY <1>3 DEF Todo
<1>9. PromoInv'
  BY <1>3, <1>5, <1>7, <1>8 DEF OInv, PromoInv, KickPcs, EndPcs
<1>10. \A b \in Agents : \A e : Holds(b, e)' <=> Holds(b, e)
  BY <1>3, <1>5, <1>8 DEF Holds
<1>11. KickInv' /\ PeerInv'
  BY <1>1, <1>3, <1>8, <1>10 DEF OInv, KickInv, PeerInv
<1>12. \A b \in Agents : Active(b)' <=> Active(b)
  BY <1>3, <1>5, <1>8 DEF Active
<1>13. DriveInv'
  BY <1>1, <1>3, <1>12 DEF OInv, DriveInv
<1>14. SlotInv'
  <2>1. q.CorePending \in [Cores -> Nat] /\ q.CoreCount \in 1 .. 2
    BY DEF QueueType
  <2>2. q'.CorePending[0] = q.CorePending[0] /\ q'.CorePending[1] = 0
    BY <1>1, <2>1
  <2>3. CASE PeerArrival
    <3>1. /\ ~q.PeerOpen /\ q'.PeerOpen /\ q'.CoreCount = 2 /\ q'.CoreIdle = q.CoreIdle \cup {1}
      BY <2>3 DEF PeerArrival, QueueType
    <3>2. q.CoreCount = 1
      BY <2>1, <3>1 DEF OInv, SlotInv
    <3>3. 1 \in Steady => q.InFlight[1] = NoJob
      BY <3>2 DEF OInv, SlotInv
    <3>4. ASSUME NEW d \in Steady
          PROVE  /\ d \in q'.CoreIdle <=> q'.InFlight[d] = NoJob /\ d < q'.CoreCount
                 /\ q'.CorePending[d] = IF q'.InFlight[d] = NoJob THEN 0 ELSE 1
                 /\ q'.InFlight[d] # NoJob =>
                       d < q'.CoreCount /\ job'[q'.InFlight[d]].TargetCore = d
      <4>1. CASE d = 0
        BY <1>1, <1>3, <2>2, <3>1, <3>2, <4>1 DEF OInv, SlotInv
      <4>2. CASE d = 1
        BY <1>1, <1>3, <2>2, <3>1, <3>3, <3>4, <4>2
      <4> QED BY <4>1, <4>2
    <3> QED BY <3>1, <3>4 DEF SlotInv
  <2>4. CASE DetachPeer
    <3>1. /\ ~q'.PeerOpen /\ q'.CoreCount = 1 /\ q'.CoreIdle = q.CoreIdle \cap {0}
          /\ Steady = {0} /\ q.PeerOpen
      BY <2>4 DEF DetachPeer, QueueType, Steady
    <3>2. q.CoreCount = 2
      BY <3>1 DEF OInv, SlotInv
    <3> QED BY <1>1, <1>3, <2>2, <3>1, <3>2 DEF OInv, SlotInv
  <2> QED BY <2>3, <2>4
<1>15. LiveInv'
  <2>1. \A u \in Threads : pc'[u] = "enqueue" => pc[u] = "enqueue" /\ cur'[u] = cur[u]
    BY <1>5
  <2>2. \A j \in JobId : Peered(j)' => Peered(j)
    BY <1>1, <1>3, <1>8 DEF Peered
  <2>3. \A j : Over(j)' => Over(j)
    BY <1>1, <1>3, <1>5 DEF Over
  <2>4. Over(q.InFlight[1])' => Over(q.InFlight[1])
    BY <1>1, <2>3
  <2> QED BY <1>1, <2>1, <2>2, <2>3, <2>4, LiveKeeps
<1>16. IdInv'
  <2>1. \A b \in Agents : cur'[b] <= nextId
    BY <1>4, <1>5 DEF OInv, IdInv
  <2> QED BY <1>1, <1>3, <1>8, <2>1 DEF OInv, IdInv
<1> QED BY <1>6, <1>9, <1>11, <1>13, <1>14, <1>15, <1>16 DEF OInv

LEMMA PnpStepInv == ASSUME TInv, OInv, PnpStep PROVE OInv'
<1> USE AgentFacts, ConstantFacts, QueueFacts DEF Goto, hwVars, ctlVars
<1>1. CASE UnpinnedWaitEnds \/ MasterIommuQueryRemove \/ \E c \in Cores : QueryRemoveProbe(c)
  <2>1. PICK l \in {"idle"} \cup PnpPcs : pc' = [pc EXCEPT !["pnp"] = l]
    BY <1>1 DEF UnpinnedWaitEnds, MasterIommuQueryRemove, QueryRemoveProbe, PnpPcs
  <2>2. /\ pc["pnp"] \in {"idle"} \cup PnpPcs
        /\ UNCHANGED <<q, job, nextId, hwJob, isr, atPeer, promos>>
    BY <1>1 DEF UnpinnedWaitEnds, MasterIommuQueryRemove, QueryRemoveProbe, OInv, PcInv
  <2>3. PICK j \in JobId \cup {NoJob} : cur' = [cur EXCEPT !["pnp"] = j] /\ j <= nextId
    <3>1. CASE UnpinnedWaitEnds
      <4>1. NoJob <= nextId
        BY DEF NoJob
      <4> QED BY <3>1, <4>1 DEF UnpinnedWaitEnds
    <3>2. CASE MasterIommuQueryRemove
      <4>1. cur' = [cur EXCEPT !["pnp"] = cur["pnp"]]
        BY <3>2 DEF MasterIommuQueryRemove
      <4> QED BY <4>1 DEF OInv, IdInv
    <3>3. CASE \E c \in Cores : QueryRemoveProbe(c)
      BY <3>3 DEF QueryRemoveProbe, OInv, IdInv
    <3> QED BY <1>1, <3>1, <3>2, <3>3
  <2>4. promos["pnp"] = <<>>
    BY <2>2 DEF OInv, PromoInv, PnpPcs, KickPcs, EndPcs
  <2>5. PcInv'
    BY <2>1 DEF OInv, PcInv
  <2>6. \A k \in JobId : job'[k].Done => Over(k)
    BY <2>2 DEF Over
  <2>7. Strolls("pnp", l, j)
    BY <2>1, <2>2, <2>3, <2>4, <2>6
       DEF Strolls, SameSlots, SignalPcs, KickPcs, EndPcs, PnpPcs
  <2> QED BY <2>5, <2>7, StrollsInv
<1> QED BY <1>1, AttachInv DEF PnpStep

LEMMA InterruptInv == ASSUME TInv, OInv, EvtIsr \/ EvtDpc PROVE OInv'
<1> USE AgentFacts, ConstantFacts, QueueFacts DEF Goto, hwVars, ctlVars
<1>1. UNCHANGED <<q, job, nextId, atPeer, cur, promos>>
  BY DEF EvtIsr, EvtDpc
<1>2. \A b \in Agents : b # "dpc" => pc'[b] = pc[b]
  BY DEF EvtIsr, EvtDpc
<1>3. pc'["dpc"] = pc["dpc"] \/ (pc["dpc"] = "idle" /\ pc'["dpc"] \in {"complete", "idle"})
  BY DEF EvtIsr, EvtDpc
<1>4. \A b \in Agents : Todo(b)' = Todo(b)
  BY <1>1 DEF Todo
<1>5. Todo("dpc") = {} /\ promos["dpc"] = <<>>
  BY EmptyFacts DEF Todo, OInv, PromoInv
<1>6. PcInv'
  BY <1>2, <1>3 DEF OInv, PcInv, EndPcs
<1>7. PromoInv'
  <2>1. pc'["dpc"] \in {"idle"} \cup EndPcs
    BY <1>3 DEF OInv, PcInv, EndPcs
  <2> QED BY <1>1, <1>2, <1>4, <1>5, <2>1 DEF OInv, PromoInv, EndPcs
<1>8. \A b \in Agents : \A e \in Todo(b) : Holds(b, e)' <=> Holds(b, e)
  BY <1>2, <1>4, <1>5 DEF Holds
<1>9. KickInv' /\ PeerInv' /\ SlotInv'
  BY <1>1, <1>4, <1>8 DEF OInv, KickInv, PeerInv, SlotInv
<1>10. DriveInv'
  <2>1. CASE EvtIsr
    <3>1. hwJob # NoJob /\ hwJob' = NoJob /\ isr' # "none" /\ pc' = pc
      BY <2>1 DEF EvtIsr
    <3>2. \A b \in Agents : ~Active(b) /\ ~Active(b)'
      BY <1>4, <3>1 DEF OInv, DriveInv, Active
    <3> QED BY <1>1, <3>1, <3>2 DEF OInv, DriveInv
  <2>2. CASE EvtDpc
    <3>1. isr # "none" /\ isr' = "none" /\ hwJob' = hwJob
      BY <2>2 DEF EvtDpc
    <3>2. hwJob = NoJob /\ q.InFlight[0] # NoJob /\ \A b \in Agents : ~Active(b)
      BY <3>1 DEF OInv, DriveInv
    <3>3. \A b \in Agents : b # "dpc" => ~Active(b)'
      BY <1>2, <1>4, <3>2 DEF Active
    <3> QED BY <1>1, <3>1, <3>2, <3>3 DEF DriveInv
  <2> QED BY <2>1, <2>2
<1>11. LiveInv'
  <2>1. \A u \in Threads : pc'[u] = pc[u]
    BY <1>2
  <2>2. \A j \in JobId : Peered(j)' => Peered(j)
    BY <1>1, <1>4 DEF Peered
  <2>3. \A j : Over(j)' => Over(j)
    BY <1>1, <1>2, <1>3 DEF Over
  <2>4. Over(q.InFlight[1])' => Over(q.InFlight[1])
    BY <1>1, <2>3
  <2> QED BY <1>1, <2>1, <2>2, <2>3, <2>4, LiveKeeps
<1>12. IdInv'
  BY <1>1, <1>4 DEF OInv, IdInv
<1> QED BY <1>6, <1>7, <1>9, <1>10, <1>11, <1>12 DEF OInv

-----------------------------------------------------------------------------
LEMMA KickStepInv == ASSUME TInv, OInv, NEW a \in Agents, KickStep(a) PROVE OInv'
<1>1. CASE KickDone(a) \/ KickReset(a)
  BY <1>1, KickMovesInv, KickLocalInv
<1>2. CASE KickStart(a) \/ PeerFailSignal(a)
  BY <1>2, KickLocalInv, KickPeerInv
<1>3. CASE KickPeerCheck(a) \/ KickPeerCall(a)
  <2>1. CASE PeerRollback(a, "notready")
    BY <1>3, <2>1, RollbackVacates, VacatesInv
  <2>2. CASE ~PeerRollback(a, "notready")
    <3>1. KickPeerCheck(a) => q.PeerOpen
      BY <2>2 DEF KickPeerCheck
    <3> QED BY <1>3, <2>2, <3>1, KickMovesInv, KickPeerInv
  <2> QED BY <2>1, <2>2
<1> QED BY <1>1, <1>2, <1>3 DEF KickStep

LEMMA ThreadStepInv == ASSUME TInv, OInv, NEW t \in Threads, ThreadStep(t) PROVE OInv'
<1>1. CASE \/ AllocBuffer(t) \/ FreeBuffer(t) \/ SubmitReturn(t) \/ CloseUnused(t)
           \/ DrainEmpty(t) \/ CleanupFreeBuffers(t) \/ CleanupDecide(t)
  BY <1>1, PlainInv
<1>2. CASE SubmitAlloc(t) \/ SubmitBusy(t) \/ CleanupPowerCycle(t)
  BY <1>2, SubmitAllocInv, SubmitBusyInv, PowerCycleInv
<1>3. CASE SubmitEnqueue(t)
  BY <1>3, EnqueuePromotes, PromotedInv, AgentFacts
<1>4. CASE \/ \E j \in JobId : WaitTake(t, j) \/ WaitPin(t, j)
           \/ WaitTakeFree(t) \/ WaitDone(t) \/ WaitTimeout(t)
  BY <1>4, WaitInv
<1>5. CASE DrainSweep(t) \/ DrainPin(t) \/ DrainDone(t) \/ DrainTimeout(t)
  BY <1>5, DrainInv
<1> QED BY <1>1, <1>2, <1>3, <1>4, <1>5 DEF ThreadStep

LEMMA StutterInv == OInv /\ UNCHANGED vars => OInv'
<1> SUFFICES ASSUME OInv, UNCHANGED vars PROVE OInv'
  OBVIOUS
<1>1. UNCHANGED <<q, job, nextId, hwJob, isr, atPeer, pc, cur, promos>>
  BY DEF vars, devVars, hwVars, fileVars, ctlVars
<1>2. PcInv' /\ PromoInv' /\ SlotInv'
  BY <1>1 DEF OInv, PcInv, PromoInv, SlotInv, Todo
<1>3. KickInv' /\ DriveInv' /\ PeerInv'
  BY <1>1 DEF OInv, KickInv, DriveInv, PeerInv, Todo, Holds, Active
<1>4. LiveInv' /\ IdInv'
  BY <1>1 DEF OInv, LiveInv, IdInv, Todo, Ahead, Over, Peered
<1> QED BY <1>2, <1>3, <1>4 DEF OInv

LEMMA NextInv == TInv /\ OInv /\ [Next]_vars => OInv'
<1> SUFFICES ASSUME TInv, OInv, [Next]_vars PROVE OInv'
  OBVIOUS
<1>1. CASE UNCHANGED vars
  BY <1>1, StutterInv
<1>2. CASE \E t \in Threads : ThreadStep(t)
  BY <1>2, ThreadStepInv
<1>3. ASSUME NEW a \in Agents, CompleteStep(a) PROVE OInv'
  <2>1. CASE JobComplete(a)
    BY <2>1, CompleteReleases, Released0Inv
  <2>2. CASE JobCompleteGate(a) \/ EnqueueKickWorker(a)
    BY <2>2, AfterInv
  <2> QED BY <1>3, <2>1, <2>2 DEF CompleteStep
<1>4. CASE \E a \in Agents : KickStep(a) \/ CompleteStep(a)
  BY <1>3, <1>4, KickStepInv
<1>5. CASE WorkerStep
  BY <1>5, AfterInv, PassPromotes, PromotedInv, AgentFacts DEF WorkerStep
<1>6. CASE EvtIsr \/ EvtDpc \/ PeerStep \/ PeerDrop \/ PnpStep
  BY <1>6, InterruptInv, PeerStepInv, PnpStepInv
<1> QED BY <1>1, <1>2, <1>4, <1>5, <1>6 DEF Next, Quiescent

LEMMA OwnershipInvariant == Spec => [](TInv /\ OInv)
<1>1. Init => TInv /\ OInv
  BY InitTyped, OInit
<1>2. TInv /\ OInv /\ [Next]_vars => (TInv /\ OInv)'
  BY NextTyped, NextInv
<1> QED BY <1>1, <1>2, PTL DEF Spec

\* At most one activity drives core 0 (OneDriver), in every environment and
\* with every kind of handle: the promotion that names slot 0 is in one list
\* only, its kick ends in the codec or in a completion, the codec in an
\* interrupt, and the interrupt in the DPC's completion, which alone empties
\* the slot that the next promotion needs empty.
THEOREM CoreDrivenOnce == Spec => []OneDriver
<1>1. TInv /\ OInv => OneDriver
  <2> SUFFICES ASSUME TInv, OInv PROVE OneDriver
    OBVIOUS
  <2>1. \A a \in Agents : KickingCore0(a) \/ pc[a] = "complete" => Active(a)
    BY DEF KickingCore0, Active, Todo, Entries
  <2>2. \A x \in Drivers : \/ x \in Agents /\ Active(x)
                           \/ x = "codec" /\ hwJob # NoJob
                           \/ x = "interrupt" /\ isr # "none"
    BY <2>1 DEF Drivers
  <2>3. \A x, y \in Drivers : x = y
    BY <2>2 DEF OInv, DriveInv
  <2>4. Drivers = {} \/ \E x : Drivers = {x}
    BY <2>3
  <2>5. Cardinality(Drivers) <= 1
    <3>1. Cardinality({}) = 0 /\ \A x : Cardinality({x}) = 1
      BY FS_EmptySet, FS_Singleton, Zenon
    <3>2. CASE Drivers = {}
      BY <3>1, <3>2
    <3>3. ASSUME NEW x, Drivers = {x} PROVE Cardinality(Drivers) <= 1
      <4>1. Cardinality(Drivers) = 1
        BY <3>1, <3>3, Zenon
      <4> QED BY <4>1
    <3> QED BY <2>4, <3>2, <3>3
  <2> QED BY <2>2, <2>5 DEF OneDriver, OInv, DriveInv
<1> QED BY <1>1, OwnershipInvariant, PTL

\* The idle mask, the pending count and the slot of every core in use agree,
\* and an in-flight job's TargetCore is the core it is on (SlotsAgree), as long
\* as the peer is never detached: RkMppDetachPeer clears the count and the idle
\* bit of a slot that may still hold a job, and a later arrival reopens it.
THEOREM SlotsKeepAgreeing == "peerDetach" \notin Env => (Spec => []SlotsAgree)
<1> SUFFICES ASSUME "peerDetach" \notin Env PROVE Spec => []SlotsAgree
  OBVIOUS
<1>1. OInv => SlotsAgree
  BY DEF OInv, SlotInv, SlotsAgree, Steady, VisibleCores
<1> QED BY <1>1, OwnershipInvariant, PTL
-----------------------------------------------------------------------------
(***************************************************************************)
(* Who owns the memory of a job and the buffers it uses.  Everything here  *)
(* is about handles on which the I/O manager serialises requests, which is *)
(* how the decoder opens them, and about a peer that is not detached:      *)
(* without either, the run-time checks of the model have counterexamples.  *)
(***************************************************************************)

Sessions == SyncHandles /\ "peerDetach" \notin Env

\* A thread that submits, that waits, that cleans its file up.
SubmitPcs  == {"enqueue", "submitted"} \cup KickPcs \cup EndPcs
WaitPcs    == {"waiting", "drainWait"}
HoldPcs    == SubmitPcs \cup WaitPcs \cup {"take"}
CleanupPcs == {"drain", "drainWait", "freeBuffers", "decide", "pdCycle"}

\* One request at a time on a file.
OneBusy == \A t, u \in Threads :
    FileOf[t] = FileOf[u] /\ pc[t] # "idle" /\ pc[u] # "idle" => t = u

\* The job a thread works on is allocated and its file's; it is not abandoned
\* while the thread submits it, and has one pin and a place while the thread
\* waits for it.
MineInv ==
    \A t \in Threads :
        /\ pc[t] \in HoldPcs =>
              cur[t] \in JobId /\ job[cur[t]].mem = "alloc" /\ job[cur[t]].Owner = FileOf[t]
        /\ pc[t] \in SubmitPcs => ~job[cur[t]].OrphanOnComplete
        /\ pc[t] \in WaitPcs => job[cur[t]].WaiterPin = 1 /\ cur[t] \in Queued

\* A pin belongs to a waiting thread.
PinInv ==
    \A j \in JobId : job[j].WaiterPin # 0 => \E t \in Threads : pc[t] \in WaitPcs /\ cur[t] = j

Taken(j) == \E t \in Threads : pc[t] = "take" /\ cur[t] = j

\* An allocated job is somewhere, and a completed one is allocated.
PlacedInv ==
    /\ \A j \in JobId : job[j].mem = "alloc" =>
          Ahead(j) \/ q.InFlight[1] = j \/ j \in q.Completed \/ Taken(j)
    /\ \A j \in q.Completed : job[j].mem = "alloc"
    /\ \A j \in q.Completed : ~Taken(j)

\* Job j's buffers are mapped, or its file's cleanup has given it up.
Backed(j) == \/ job[j].Owner \in mapped
             \/ job[j].OrphanOnComplete /\ job[j].Owner \in closed

\* Files, their cleanup, and the jobs on the lists and in the slots.
ClosedInv ==
    /\ mapped \subseteq inited
    /\ \A t \in Threads : pc[t] \in CleanupPcs => FileOf[t] \in closed
    /\ \A t \in Threads : FileOf[t] \in closed => pc[t] \in CleanupPcs \cup {"idle"}
    /\ \A t \in Threads : pc[t] = "enqueue" => FileOf[t] \in mapped
    /\ \A j \in q.Pending : job[j].Owner \in mapped \ closed
    /\ \A c \in Cores : q.InFlight[c] # NoJob =>
          /\ Backed(q.InFlight[c])
          /\ \A t \in Threads : pc[t] = "freeBuffers" /\ job[q.InFlight[c]].Owner = FileOf[t] =>
                job[q.InFlight[c]].OrphanOnComplete

MInv == OneBusy /\ MineInv /\ PinInv /\ PlacedInv /\ ClosedInv

LEMMA SessionFacts == Sessions => SyncHandles /\ "peerDetach" \notin Env /\ Steady = Cores
                                  /\ 0 \in Steady /\ 1 \in Steady
BY SteadyFacts DEF Sessions, Steady

LEMMA MInit == Init => MInv
<1> SUFFICES ASSUME Init PROVE MInv
  OBVIOUS
<1> USE AgentFacts, ConstantFacts DEF Init
<1>1. /\ q.Pending = {} /\ q.Completed = {} /\ \A c \in Cores : q.InFlight[c] = NoJob
  BY DEF RkMppJobQueueInit
<1>2. \A t \in Threads : pc[t] = "idle"
  OBVIOUS
<1>3. \A j \in JobId : job[j].mem = "none" /\ job[j].WaiterPin = 0
  BY DEF NoRecord, NewJob
<1>4. OneBusy /\ MineInv
  BY <1>2 DEF OneBusy, MineInv, HoldPcs, SubmitPcs, WaitPcs, KickPcs, EndPcs
<1>5. PinInv /\ PlacedInv
  BY <1>1, <1>3 DEF PinInv, PlacedInv
<1>6. ClosedInv
  BY <1>1, <1>2 DEF ClosedInv, CleanupPcs
<1> QED BY <1>4, <1>5, <1>6 DEF MInv

-----------------------------------------------------------------------------
(***************************************************************************)
(* Steps that touch no job's memory, pin or mark and no list: threads move *)
(* only within a submission.                                               *)
(***************************************************************************)
SameJobs ==
    \A j \in JobId : /\ job'[j].mem = job[j].mem /\ job'[j].Owner = job[j].Owner
                     /\ job'[j].OrphanOnComplete = job[j].OrphanOnComplete
                     /\ job'[j].WaiterPin = job[j].WaiterPin

\* A thread stays where it is or goes on with its submission.
Submitting ==
    \A t \in Threads : /\ cur'[t] = cur[t]
                       /\ pc'[t] = pc[t] \/ {pc[t], pc'[t]} \subseteq SubmitPcs \ {"enqueue"}

Passive ==
    /\ SameJobs /\ Submitting
    /\ q'.Pending = q.Pending /\ q'.Completed = q.Completed /\ q'.InFlight = q.InFlight
    /\ UNCHANGED <<inited, mapped, closed>>

LEMMA PcFacts ==
    /\ \A l \in SubmitPcs : l \notin WaitPcs /\ l # "take" /\ l \notin CleanupPcs /\ l # "idle"
    /\ \A l \in WaitPcs : l # "take" /\ l # "idle" /\ l # "enqueue" /\ l # "freeBuffers"
    /\ HoldPcs = SubmitPcs \cup WaitPcs \cup {"take"} /\ "enqueue" \in SubmitPcs
    /\ "idle" \notin HoldPcs /\ "idle" \notin CleanupPcs
    /\ "take" \notin CleanupPcs /\ "enqueue" \notin CleanupPcs
BY DEF HoldPcs, SubmitPcs, WaitPcs, CleanupPcs, KickPcs, EndPcs

LEMMA SubmittingFacts ==
    ASSUME Submitting
    PROVE  \A t \in Threads : /\ cur'[t] = cur[t]
                              /\ pc'[t] = "idle" <=> pc[t] = "idle"
                              /\ pc'[t] \in SubmitPcs <=> pc[t] \in SubmitPcs
                              /\ pc'[t] \in WaitPcs <=> pc[t] \in WaitPcs
                              /\ pc'[t] \in HoldPcs <=> pc[t] \in HoldPcs
                              /\ pc'[t] = "take" <=> pc[t] = "take"
                              /\ pc'[t] = "enqueue" <=> pc[t] = "enqueue"
                              /\ pc'[t] = "freeBuffers" <=> pc[t] = "freeBuffers"
                              /\ pc'[t] \in CleanupPcs <=> pc[t] \in CleanupPcs
BY DEF Submitting, HoldPcs, SubmitPcs, WaitPcs, CleanupPcs, KickPcs, EndPcs

LEMMA SlotJobs ==
    TInv => \A c \in Cores : q.InFlight[c] # NoJob => q.InFlight[c] \in JobId
BY QueueFacts

LEMMA PassiveInv == ASSUME TInv, OInv, MInv, Passive PROVE MInv'
<1> USE QueueFacts, SteadyFacts, SlotJobs
<1>1. /\ SameJobs /\ Submitting /\ UNCHANGED <<inited, mapped, closed>>
      /\ q'.Pending = q.Pending /\ q'.Completed = q.Completed /\ q'.InFlight = q.InFlight
  BY DEF Passive
<1>2. \A t \in Threads : /\ cur'[t] = cur[t]
                         /\ pc'[t] = "idle" <=> pc[t] = "idle"
                         /\ pc'[t] \in SubmitPcs <=> pc[t] \in SubmitPcs
                         /\ pc'[t] \in WaitPcs <=> pc[t] \in WaitPcs
                         /\ pc'[t] \in HoldPcs <=> pc[t] \in HoldPcs
                         /\ pc'[t] = "take" <=> pc[t] = "take"
                         /\ pc'[t] = "enqueue" <=> pc[t] = "enqueue"
                         /\ pc'[t] = "freeBuffers" <=> pc[t] = "freeBuffers"
                         /\ pc'[t] \in CleanupPcs <=> pc[t] \in CleanupPcs
  BY <1>1, SubmittingFacts
<1>3. Queued' = Queued
  BY <1>1 DEF Queued
<1>4. OneBusy'
  BY <1>2 DEF MInv, OneBusy
<1>5. MineInv'
  <2> SUFFICES ASSUME NEW t \in Threads
      PROVE /\ pc'[t] \in HoldPcs => /\ cur'[t] \in JobId /\ job'[cur'[t]].mem = "alloc"
                                     /\ job'[cur'[t]].Owner = FileOf[t]
            /\ pc'[t] \in SubmitPcs => ~job'[cur'[t]].OrphanOnComplete
            /\ pc'[t] \in WaitPcs => job'[cur'[t]].WaiterPin = 1 /\ cur'[t] \in Queued'
    BY DEF MineInv
  <2>1. pc[t] \in SubmitPcs \cup WaitPcs => pc[t] \in HoldPcs
    BY PcFacts
  <2> QED BY <1>1, <1>2, <1>3, <2>1 DEF MInv, MineInv, SameJobs
<1>6. PinInv'
  BY <1>1, <1>2 DEF MInv, PinInv, SameJobs
<1>7. \A j : (Taken(j)' <=> Taken(j)) /\ (Ahead(j)' <=> Ahead(j))
  BY <1>1, <1>2 DEF Taken, Ahead
<1>8. PlacedInv'
  BY <1>1, <1>7 DEF MInv, PlacedInv, SameJobs
<1>9. ClosedInv'
  <2>1. /\ mapped' \subseteq inited'
        /\ \A t \in Threads : pc'[t] \in CleanupPcs => FileOf[t] \in closed'
        /\ \A t \in Threads : FileOf[t] \in closed' => pc'[t] \in CleanupPcs \cup {"idle"}
        /\ \A t \in Threads : pc'[t] = "enqueue" => FileOf[t] \in mapped'
        /\ \A j \in q'.Pending : job'[j].Owner \in mapped' \ closed'
    BY <1>1, <1>2 DEF MInv, ClosedInv, SameJobs
  <2>2. ASSUME NEW c \in Cores, q'.InFlight[c] # NoJob
        PROVE  /\ Backed(q.InFlight[c])'
               /\ \A t \in Threads : pc'[t] = "freeBuffers"
                                     /\ job'[q'.InFlight[c]].Owner = FileOf[t] =>
                     job'[q'.InFlight[c]].OrphanOnComplete
    BY <1>1, <1>2, <2>2 DEF MInv, ClosedInv, SameJobs, Backed
  <2> QED BY <2>1, <2>2 DEF ClosedInv
<1> QED BY <1>4, <1>5, <1>6, <1>8, <1>9 DEF MInv

\* The steps of a kick, of what follows a completion, of the worker's start
\* and end, of the interrupt, of RVD1's signal and of PnP.
LEMMA KickPassive ==
    ASSUME TInv, OInv, NEW a \in Agents, KickStep(a), ~PeerRollback(a, "notready")
    PROVE  Passive
<1> USE AgentFacts, ConstantFacts, QueueFacts DEF Goto, hwVars, fileVars, ctlVars
<1>1. UNCHANGED <<q, cur, inited, mapped, closed>>
  BY DEF KickStep, KickDone, KickReset, KickFails, KickStart, KickPeerCheck, KickPeerCall,
         PeerFailSignal
<1>2. PICK l \in PC : /\ pc' = [pc EXCEPT ![a] = l] /\ pc[a] \in KickPcs
                      /\ a \in Threads => l \in SubmitPcs \ {"enqueue"}
  BY DEF KickStep, KickDone, KickReset, KickFails, KickStart, KickPeerCheck, KickPeerCall,
         PeerFailSignal, PC, KickPcs, EndPcs, SubmitPcs
<1>3. Submitting
  BY <1>1, <1>2 DEF Submitting, KickPcs, SubmitPcs
<1>4. SameJobs
  <2>1. CASE PeerFailSignal(a)
    <3>1. PICK j : j = Head(promos[a]).job
      OBVIOUS
    <3>2. job' = [job EXCEPT ![j].Result = arg[a], ![j].Done = TRUE]
      BY <2>1, <3>1 DEF PeerFailSignal
    <3>3. \A k \in JobId : k # j => job'[k] = job[k]
      BY <3>2 DEF TInv, TypeOK
    <3>4. j \in JobId => /\ job'[j].mem = job[j].mem /\ job'[j].Owner = job[j].Owner
                         /\ job'[j].OrphanOnComplete = job[j].OrphanOnComplete
                         /\ job'[j].WaiterPin = job[j].WaiterPin
      BY <3>2 DEF TInv, TypeOK, JobType
    <3> QED BY <3>3, <3>4 DEF SameJobs
  <2>2. CASE ~PeerFailSignal(a)
    <3>1. job' = job
      BY <2>2 DEF KickStep, KickDone, KickReset, KickStart, KickPeerCheck, KickPeerCall
    <3> QED BY <3>1 DEF SameJobs
  <2> QED BY <2>1, <2>2
<1> QED BY <1>1, <1>3, <1>4 DEF Passive

LEMMA AfterPassive ==
    ASSUME TInv, OInv, NEW a \in Agents,
           \/ JobCompleteGate(a) \/ EnqueueKickWorker(a)
           \/ KickWorkerStart \/ KickWorkerExit \/ EvtIsr \/ EvtDpc
    PROVE  Passive
<1> USE AgentFacts, ConstantFacts, QueueFacts DEF Goto, hwVars, fileVars, ctlVars
<1>1. UNCHANGED <<job, cur, inited, mapped, closed>>
  BY DEF JobCompleteGate, EnqueueKickWorker, KickWorkerStart, KickWorkerExit, EvtIsr, EvtDpc
<1>2. q'.Pending = q.Pending /\ q'.Completed = q.Completed /\ q'.InFlight = q.InFlight
  BY DEF JobCompleteGate, EnqueueKickWorker, KickWorkerStart, KickWorkerExit, EvtIsr, EvtDpc,
         QueueType
<1>3. Submitting
  <2>1. CASE KickWorkerStart \/ KickWorkerExit \/ EvtIsr \/ EvtDpc
    <3>1. \A t \in Threads : pc'[t] = pc[t]
      BY <2>1 DEF KickWorkerStart, KickWorkerExit, EvtIsr, EvtDpc
    <3> QED BY <1>1, <3>1 DEF Submitting
  <2>2. CASE JobCompleteGate(a) \/ EnqueueKickWorker(a)
    <3>1. PICK l \in {"idle", "kick"} : /\ pc' = [pc EXCEPT ![a] = l]
                                        /\ a \in Threads => l = "kick"
                                        /\ pc[a] \in {"gate", "arm"}
      BY <2>2 DEF JobCompleteGate, EnqueueKickWorker, Return
    <3> QED BY <1>1, <3>1 DEF Submitting, SubmitPcs, KickPcs, EndPcs
  <2> QED BY <2>1, <2>2
<1> QED BY <1>1, <1>2, <1>3 DEF Passive, SameJobs

LEMMA PeerPassive ==
    ASSUME TInv, OInv, (PeerCompletion /\ q' = q) \/ PeerCompletionSignal \/ PeerDrop \/ PnpStep
    PROVE  Passive
<1> USE AgentFacts, ConstantFacts, QueueFacts DEF Goto, hwVars, fileVars, ctlVars
<1>1. UNCHANGED <<inited, mapped, closed>>
  BY DEF PeerCompletion, PeerCompletionSignal, PeerDrop, PnpStep, PeerArrival, DetachPeer,
         UnpinnedWaitEnds, MasterIommuQueryRemove, QueryRemoveProbe
<1>2. Submitting
  <2>1. \A t \in Threads : pc'[t] = pc[t]
    BY DEF PeerCompletion, PeerCompletionSignal, PeerDrop, PnpStep, PeerArrival,
           DetachPeer, UnpinnedWaitEnds, MasterIommuQueryRemove, QueryRemoveProbe
  <2>2. \A t \in Threads : cur'[t] = cur[t]
    BY DEF PeerCompletion, PeerCompletionSignal, PeerDrop, PnpStep, PeerArrival,
           DetachPeer, UnpinnedWaitEnds, MasterIommuQueryRemove, QueryRemoveProbe
  <2> QED BY <2>1, <2>2 DEF Submitting
<1>3. q'.Pending = q.Pending /\ q'.Completed = q.Completed /\ q'.InFlight = q.InFlight
  BY DEF PeerCompletion, PeerCompletionSignal, PeerDrop, PnpStep, PeerArrival, DetachPeer,
         UnpinnedWaitEnds, MasterIommuQueryRemove, QueryRemoveProbe, QueueType
<1>4. SameJobs
  <2>1. CASE PeerDrop \/ PnpStep
    <3>1. job' = job
      BY <2>1 DEF PeerDrop, PnpStep, PeerArrival, DetachPeer, UnpinnedWaitEnds,
                  MasterIommuQueryRemove, QueryRemoveProbe
    <3> QED BY <3>1 DEF SameJobs
  <2>2. ASSUME NEW j, NEW s, job' = [job EXCEPT ![j].Result = s] PROVE SameJobs
    <3>1. \A k \in JobId : k # j => job'[k] = job[k]
      BY <2>2 DEF TInv, TypeOK
    <3>2. j \in JobId => job'[j] = [job[j] EXCEPT !.Result = s] /\ job[j] \in JobType
      BY <2>2 DEF TInv, TypeOK
    <3> QED BY <3>1, <3>2 DEF SameJobs, JobType
  <2>3. ASSUME NEW j, job' = [job EXCEPT ![j].Done = TRUE] PROVE SameJobs
    <3>1. \A k \in JobId : k # j => job'[k] = job[k]
      BY <2>3 DEF TInv, TypeOK
    <3>2. j \in JobId => job'[j] = [job[j] EXCEPT !.Done = TRUE] /\ job[j] \in JobType
      BY <2>3 DEF TInv, TypeOK
    <3> QED BY <3>1, <3>2 DEF SameJobs, JobType
  <2>4. job' = job => SameJobs
    BY DEF SameJobs
  <2>5. CASE PeerCompletionSignal
    BY <2>3, <2>5 DEF PeerCompletionSignal
  <2>6. CASE PeerCompletion
    BY <2>2, <2>4, <2>6 DEF PeerCompletion
  <2> QED BY <2>1, <2>5, <2>6
<1> QED BY <1>1, <1>2, <1>3, <1>4 DEF Passive

-----------------------------------------------------------------------------
(***************************************************************************)
(* Steps that move jobs along the queue and leave their memory alone: a    *)
(* promotion, a rolled-back kick, and completions that free nothing.       *)
(***************************************************************************)

\* A thread stays where it is or goes on with its submission.
Submits ==
    \A t \in Threads : /\ cur'[t] = cur[t]
                       /\ pc'[t] = pc[t] \/ (pc[t] \in SubmitPcs /\ pc'[t] \in SubmitPcs \ {"enqueue"})

\* Job j is not on a core: on Pending, or in the hands of its submitter.
Waits(j) == j \in q.Pending \/ \E t \in Threads : pc[t] = "enqueue" /\ cur[t] = j

\* Job j is somewhere in the queue, or about to be.
Housed(j) == Ahead(j) \/ q.InFlight[1] = j \/ j \in q.Completed

Rehouses ==
    /\ SameJobs /\ Submits /\ UNCHANGED <<inited, mapped, closed>>
    /\ \A j \in JobId : Housed(j) => Housed(j)'
    /\ Queued \subseteq Queued'
    /\ \A j \in q'.Completed : j \in q.Completed \/ (job[j].mem = "alloc" /\ ~Taken(j))
    /\ \A j \in q'.Pending : Waits(j)
    /\ \A c \in Cores : q'.InFlight[c] # NoJob =>
          q'.InFlight[c] = q.InFlight[c] \/ Waits(q'.InFlight[c])

LEMMA SubmitsFacts ==
    ASSUME Submits
    PROVE  \A t \in Threads : /\ cur'[t] = cur[t]
                              /\ pc'[t] = "idle" <=> pc[t] = "idle"
                              /\ pc'[t] \in SubmitPcs <=> pc[t] \in SubmitPcs
                              /\ pc'[t] \in WaitPcs <=> pc[t] \in WaitPcs
                              /\ pc'[t] \in HoldPcs <=> pc[t] \in HoldPcs
                              /\ pc'[t] = "take" <=> pc[t] = "take"
                              /\ pc'[t] = "enqueue" => pc[t] = "enqueue"
                              /\ pc'[t] = "freeBuffers" <=> pc[t] = "freeBuffers"
                              /\ pc'[t] \in CleanupPcs <=> pc[t] \in CleanupPcs
BY DEF Submits, HoldPcs, SubmitPcs, WaitPcs, CleanupPcs, KickPcs, EndPcs

\* A job not on a core has its buffers, and its file is open.
LEMMA WaitsFacts ==
    ASSUME TInv, MInv, NEW j \in JobId, Waits(j)
    PROVE  job[j].Owner \in mapped \ closed
<1>1. CASE j \in q.Pending
  BY <1>1 DEF MInv, ClosedInv
<1>2. ASSUME NEW t \in Threads, pc[t] = "enqueue", cur[t] = j
      PROVE  job[j].Owner \in mapped \ closed
  <2>1. job[j].Owner = FileOf[t] /\ FileOf[t] \in mapped
    BY <1>2, PcFacts DEF MInv, MineInv, ClosedInv
  <2>2. FileOf[t] \notin closed
    BY <1>2, PcFacts DEF MInv, ClosedInv
  <2> QED BY <2>1, <2>2
<1> QED BY <1>1, <1>2 DEF Waits

LEMMA RehousesInv == ASSUME TInv, OInv, MInv, Rehouses, TInv' PROVE MInv'
<1> USE QueueFacts, SteadyFacts, SlotJobs
<1>1. /\ SameJobs /\ Submits /\ UNCHANGED <<inited, mapped, closed>>
      /\ Queued \subseteq Queued'
      /\ \A j \in q'.Pending : Waits(j)
  BY DEF Rehouses
<1>2. \A t \in Threads : /\ cur'[t] = cur[t]
                         /\ pc'[t] = "idle" <=> pc[t] = "idle"
                         /\ pc'[t] \in SubmitPcs <=> pc[t] \in SubmitPcs
                         /\ pc'[t] \in WaitPcs <=> pc[t] \in WaitPcs
                         /\ pc'[t] \in HoldPcs <=> pc[t] \in HoldPcs
                         /\ pc'[t] = "take" <=> pc[t] = "take"
                         /\ pc'[t] = "enqueue" => pc[t] = "enqueue"
                         /\ pc'[t] = "freeBuffers" <=> pc[t] = "freeBuffers"
                         /\ pc'[t] \in CleanupPcs <=> pc[t] \in CleanupPcs
  BY <1>1, SubmitsFacts
<1>4. OneBusy'
  BY <1>2 DEF MInv, OneBusy
<1>5. MineInv'
  <2> SUFFICES ASSUME NEW t \in Threads
      PROVE /\ pc'[t] \in HoldPcs => /\ cur'[t] \in JobId /\ job'[cur'[t]].mem = "alloc"
                                     /\ job'[cur'[t]].Owner = FileOf[t]
            /\ pc'[t] \in SubmitPcs => ~job'[cur'[t]].OrphanOnComplete
            /\ pc'[t] \in WaitPcs => job'[cur'[t]].WaiterPin = 1 /\ cur'[t] \in Queued'
    BY DEF MineInv
  <2>1. pc[t] \in SubmitPcs \cup WaitPcs => pc[t] \in HoldPcs
    BY PcFacts
  <2> QED BY <1>1, <1>2, <2>1 DEF MInv, MineInv, SameJobs
<1>6. PinInv'
  BY <1>1, <1>2 DEF MInv, PinInv, SameJobs
<1>7. \A j : Taken(j)' <=> Taken(j)
  BY <1>2 DEF Taken
<1>8. PlacedInv'
  <2>1. \A j \in JobId : job'[j].mem = "alloc" =>
           Ahead(j)' \/ q'.InFlight[1] = j \/ j \in q'.Completed \/ Taken(j)'
    BY <1>1, <1>7 DEF MInv, PlacedInv, Rehouses, SameJobs, Housed
  <2>2. q'.Completed \subseteq JobId
    BY DEF TInv, TypeOK, QueueType
  <2>3. \A j \in q'.Completed : job'[j].mem = "alloc" /\ ~Taken(j)'
    BY <1>1, <1>7, <2>2 DEF MInv, PlacedInv, Rehouses, SameJobs
  <2> QED BY <2>1, <2>3 DEF PlacedInv
<1>9. ClosedInv'
  <2>1. /\ mapped' \subseteq inited'
        /\ \A t \in Threads : pc'[t] \in CleanupPcs => FileOf[t] \in closed'
        /\ \A t \in Threads : FileOf[t] \in closed' => pc'[t] \in CleanupPcs \cup {"idle"}
        /\ \A t \in Threads : pc'[t] = "enqueue" => FileOf[t] \in mapped'
    BY <1>1, <1>2 DEF MInv, ClosedInv
  <2>2. q'.Pending \subseteq JobId
    BY DEF TInv, TypeOK, QueueType
  <2>3. \A j \in q'.Pending : job'[j].Owner \in mapped' \ closed'
    BY <1>1, <2>2, WaitsFacts DEF SameJobs
  <2>4. ASSUME NEW c \in Cores, q'.InFlight[c] # NoJob
        PROVE  /\ Backed(q.InFlight[c])'
               /\ \A t \in Threads : pc'[t] = "freeBuffers"
                                     /\ job'[q'.InFlight[c]].Owner = FileOf[t] =>
                     job'[q'.InFlight[c]].OrphanOnComplete
    <3>1. PICK j : j = q'.InFlight[c]
      OBVIOUS
    <3>2. j \in JobId
      BY <2>4, <3>1 DEF TInv, TypeOK, QueueType
    <3>3. CASE j = q.InFlight[c]
      BY <1>1, <1>2, <2>4, <3>1, <3>2, <3>3 DEF MInv, ClosedInv, SameJobs, Backed
    <3>4. CASE Waits(j)
      <4>1. job[j].Owner \in mapped \ closed
        BY <3>2, <3>4, WaitsFacts
      <4>2. \A t \in Threads : pc[t] = "freeBuffers" => FileOf[t] \in closed
        BY DEF MInv, ClosedInv, CleanupPcs
      <4> QED BY <1>1, <1>2, <3>1, <3>2, <4>1, <4>2 DEF SameJobs, Backed
    <3> QED BY <2>4, <3>1, <3>3, <3>4 DEF Rehouses
  <2> QED BY <2>1, <2>3, <2>4 DEF ClosedInv
<1> QED BY <1>4, <1>5, <1>6, <1>8, <1>9 DEF MInv

LEMMA PromotedRehouses ==
    ASSUME Sessions, TInv, OInv, MInv, NEW a \in Agents, NEW out, Promoted(a, out),
           UNCHANGED <<inited, mapped, closed>>
    PROVE  Rehouses
<1> USE AgentFacts, ConstantFacts, QueueFacts, SteadyFacts, SessionFacts
<1>0. PICK es : es = Entries(out)
  OBVIOUS
<1>1. PICK p \in QueueType :
          /\ p.Pending = Pool(a) /\ p.Completed = q.Completed /\ p.InFlight = q.InFlight
          /\ p.CoreIdle = q.CoreIdle /\ p.CoreCount = q.CoreCount
          /\ Promotes(p, q', es)
  BY <1>0 DEF Promoted
<1>2. (pc[a] = "loop" /\ a = "worker") \/ (pc[a] = "enqueue" /\ a \in Threads)
  BY DEF Promoted
<1>3. Stamped(es) /\ cur' = cur /\ pc' = [pc EXCEPT ![a] = "kick"]
  BY <1>0 DEF Promoted
<1>4. /\ \A e \in es : e.job \in Pool(a) /\ e.core \in q.CoreIdle /\ q'.InFlight[e.core] = e.job
      /\ q'.Pending = Pool(a) \ {e.job : e \in es} /\ q'.Completed = q.Completed
      /\ \A c \in Cores : (\A e \in es : e.core # c) => q'.InFlight[c] = q.InFlight[c]
  BY <1>1 DEF Promotes
<1>5. \A e \in es : e.job \in JobId /\ e.core \in Cores
  BY <1>0, EntriesTyped, PromotionFacts DEF Promoted
<1>6. \A e \in es : q.InFlight[e.core] = NoJob
  BY <1>4, <1>5 DEF OInv, SlotInv
<1>7. \A c \in Cores : q.InFlight[c] # NoJob => q'.InFlight[c] = q.InFlight[c]
  BY <1>4, <1>6
<1>8. SameJobs
  BY <1>3 DEF Stamped, SameJobs
<1>9. Submits
  BY <1>2, <1>3 DEF Submits, SubmitPcs, KickPcs
<1>10. \A j \in Pool(a) : Waits(j) /\ j \in JobId
  BY <1>2 DEF Pool, Waits, TInv, Holding
<1>11. \A j \in Pool(a) : j \in q'.Pending \/ \E c \in Cores : q'.InFlight[c] = j
  BY <1>4, <1>5
<1>12. \A j \in q.Pending : j \in Pool(a)
  BY DEF Pool
<1>13. Queued \subseteq Queued'
  <2>1. \A j \in Queued : /\ j \in JobId
                          /\ \/ j \in q.Pending \/ j \in q.Completed
                             \/ \E c \in Cores : q.InFlight[c] = j
    BY DEF Queued
  <2>2. \A j \in Queued : /\ j \in JobId
                          /\ \/ j \in q'.Pending \/ j \in q'.Completed
                             \/ \E c \in Cores : q'.InFlight[c] = j
    BY <1>4, <1>7, <1>11, <1>12, <2>1
  <2> QED BY <2>2 DEF Queued
<1>14. ASSUME NEW j \in JobId, Housed(j) PROVE Housed(j)'
  <2>1. CASE j \in Pool(a)
    BY <1>11, <2>1 DEF Housed, Ahead
  <2>2. CASE j \notin Pool(a) /\ \E t \in Threads : pc[t] = "enqueue" /\ cur[t] = j
    <3>1. PICK t \in Threads : pc[t] = "enqueue" /\ cur[t] = j
      BY <2>2
    <3>2. t # a
      BY <2>2, <3>1 DEF Pool
    <3>3. pc'[t] = "enqueue" /\ cur'[t] = j
      BY <1>3, <3>1, <3>2
    <3> QED BY <3>3 DEF Housed, Ahead
  <2>3. CASE q.InFlight[0] = j \/ q.InFlight[1] = j \/ j \in q.Completed
    <3>1. j # NoJob
      OBVIOUS
    <3> QED BY <1>4, <1>7, <2>3, <3>1 DEF Housed, Ahead
  <2> QED BY <1>12, <1>14, <2>1, <2>2, <2>3 DEF Housed, Ahead
<1>15. \A j \in q'.Pending : Waits(j)
  BY <1>4, <1>10
<1>16. \A c \in Cores : q'.InFlight[c] # NoJob =>
          q'.InFlight[c] = q.InFlight[c] \/ Waits(q'.InFlight[c])
  BY <1>4, <1>10
<1> QED BY <1>4, <1>8, <1>9, <1>13, <1>14, <1>15, <1>16 DEF Rehouses

\* Job j leaves core c for Completed.
Completes(c, j) ==
    /\ q.InFlight[c] = j /\ j \in JobId /\ Releases(q, c, q.Completed \cup {j}, q')
    /\ SameJobs /\ Submits /\ UNCHANGED <<inited, mapped, closed>>

\* A job on a core is allocated and has not been taken.
LEMMA SlotAlive ==
    ASSUME Sessions, TInv, OInv, NEW c \in Cores, q.InFlight[c] # NoJob
    PROVE  ~Over(q.InFlight[c]) /\ job[q.InFlight[c]].mem = "alloc" /\ ~Taken(q.InFlight[c])
<1> USE QueueFacts, SteadyFacts, SessionFacts
<1>1. ~Over(q.InFlight[c])
  <2>1. CASE c = 0
    BY <2>1 DEF OInv, LiveInv, Ahead
  <2>2. CASE c = 1
    BY <2>2 DEF OInv, LiveInv
  <2> QED BY <2>1, <2>2
<1> QED BY <1>1 DEF Over, Taken

LEMMA CompletesRehouses ==
    ASSUME Sessions, TInv, OInv, MInv, NEW c \in Cores, NEW j, Completes(c, j),
           \A t \in Threads : pc[t] = "enqueue" => pc'[t] = "enqueue"
    PROVE  Rehouses
<1> USE ConstantFacts, QueueFacts, SteadyFacts
<1>1. /\ q.InFlight[c] = j /\ j \in JobId /\ q'.InFlight[c] = NoJob
      /\ \A d \in Cores : d # c => q'.InFlight[d] = q.InFlight[d]
      /\ q'.Pending = q.Pending /\ q'.Completed = q.Completed \cup {j}
      /\ SameJobs /\ Submits /\ UNCHANGED <<inited, mapped, closed>>
  BY DEF Completes, Releases
<1>2. job[j].mem = "alloc" /\ ~Taken(j)
  BY <1>1, SlotAlive
<1>3. Queued \subseteq Queued'
  <2>1. \A k \in Queued : /\ k \in JobId
                          /\ \/ k \in q'.Pending \/ k \in q'.Completed
                             \/ \E d \in Cores : q'.InFlight[d] = k
    BY <1>1 DEF Queued
  <2> QED BY <2>1 DEF Queued
<1>4. ASSUME NEW k \in JobId, Housed(k) PROVE Housed(k)'
  <2>1. (\E t \in Threads : pc[t] = "enqueue" /\ cur[t] = k) =>
           \E t \in Threads : pc'[t] = "enqueue" /\ cur'[t] = k
    BY <1>1 DEF Submits
  <2> QED BY <1>1, <1>4, <2>1 DEF Housed, Ahead
<1> QED BY <1>1, <1>2, <1>3, <1>4 DEF Rehouses, Waits

\* An abandoned job is freed by its completion: nobody holds it.
Discards(j) ==
    /\ q.InFlight[0] = j /\ j \in JobId /\ FreeHere(j) /\ job' = Free({j})
    /\ Releases(q, 0, q.Completed, q')
    /\ Submits /\ UNCHANGED <<inited, mapped, closed>>
    /\ \A t \in Threads : pc[t] = "enqueue" => pc'[t] = "enqueue"

LEMMA DiscardsInv ==
    ASSUME Sessions, TInv, OInv, MInv, NEW j, Discards(j), TInv' PROVE MInv'
<1> USE ConstantFacts, QueueFacts, SteadyFacts, SlotJobs
<1>1. /\ q.InFlight[0] = j /\ j \in JobId /\ q'.InFlight[0] = NoJob
      /\ q'.InFlight[1] = q.InFlight[1]
      /\ q'.Pending = q.Pending /\ q'.Completed = q.Completed
      /\ Submits /\ UNCHANGED <<inited, mapped, closed>>
      /\ job[j].OrphanOnComplete /\ job[j].WaiterPin = 0
  BY DEF Discards, Releases, FreeHere
<1>2. \A t \in Threads : /\ cur'[t] = cur[t]
                         /\ pc'[t] = "idle" <=> pc[t] = "idle"
                         /\ pc'[t] \in SubmitPcs <=> pc[t] \in SubmitPcs
                         /\ pc'[t] \in WaitPcs <=> pc[t] \in WaitPcs
                         /\ pc'[t] \in HoldPcs <=> pc[t] \in HoldPcs
                         /\ pc'[t] = "take" <=> pc[t] = "take"
                         /\ pc'[t] = "enqueue" <=> pc[t] = "enqueue"
                         /\ pc'[t] = "freeBuffers" <=> pc[t] = "freeBuffers"
                         /\ pc'[t] \in CleanupPcs <=> pc[t] \in CleanupPcs
  BY <1>1, SubmitsFacts DEF Discards
<1>3. /\ \A k \in JobId : k # j => job'[k] = job[k]
      /\ job'[j].mem = "freed" /\ job'[j].WaiterPin = 0
  <2>1. job' = Free({j})
    BY DEF Discards
  <2> QED BY <1>1, <2>1 DEF Free, Freed, NewJob
<1>4. ~Over(j) /\ ~Taken(j) /\ j \notin q.Completed
  BY <1>1, SlotAlive DEF Over
<1>5. j \notin q.Pending /\ j # q.InFlight[1] /\ j # NoJob
  BY <1>1 DEF OInv, LiveInv, Ahead, Peered
<1>6. \A t \in Threads : pc[t] \in HoldPcs => cur[t] # j
  <2> SUFFICES ASSUME NEW t \in Threads, pc[t] \in HoldPcs, cur[t] = j PROVE FALSE
    OBVIOUS
  <2>1. CASE pc[t] \in SubmitPcs
    BY <1>1, <2>1 DEF MInv, MineInv
  <2>2. CASE pc[t] \in WaitPcs
    BY <1>1, <2>2 DEF MInv, MineInv
  <2>3. CASE pc[t] = "take"
    BY <1>4, <2>3 DEF Taken
  <2> QED BY <2>1, <2>2, <2>3, PcFacts
<1>7. OneBusy'
  BY <1>2 DEF MInv, OneBusy
<1>8. MineInv'
  <2> SUFFICES ASSUME NEW t \in Threads
      PROVE /\ pc'[t] \in HoldPcs => /\ cur'[t] \in JobId /\ job'[cur'[t]].mem = "alloc"
                                     /\ job'[cur'[t]].Owner = FileOf[t]
            /\ pc'[t] \in SubmitPcs => ~job'[cur'[t]].OrphanOnComplete
            /\ pc'[t] \in WaitPcs => job'[cur'[t]].WaiterPin = 1 /\ cur'[t] \in Queued'
    BY DEF MineInv
  <2>1. pc[t] \in SubmitPcs \cup WaitPcs => pc[t] \in HoldPcs
    BY PcFacts
  <2>2. \A k \in Queued : k # j => k \in Queued'
    BY <1>1 DEF Queued
  <2> QED BY <1>2, <1>3, <1>6, <2>1, <2>2 DEF MInv, MineInv
<1>9. PinInv'
  BY <1>2, <1>3 DEF MInv, PinInv
<1>10. \A k \in JobId : /\ Taken(k)' <=> Taken(k)
                        /\ k # j => (Ahead(k)' <=> Ahead(k))
  BY <1>1, <1>2 DEF Taken, Ahead
<1>11. PlacedInv'
  <2>1. \A k \in JobId : job'[k].mem = "alloc" =>
           Ahead(k)' \/ q'.InFlight[1] = k \/ k \in q'.Completed \/ Taken(k)'
    BY <1>1, <1>3, <1>10 DEF MInv, PlacedInv
  <2>2. \A k \in q'.Completed : job'[k].mem = "alloc" /\ ~Taken(k)'
    BY <1>1, <1>3, <1>4, <1>10 DEF MInv, PlacedInv
  <2> QED BY <2>1, <2>2 DEF PlacedInv
<1>12. ClosedInv'
  <2>1. /\ mapped' \subseteq inited'
        /\ \A t \in Threads : pc'[t] \in CleanupPcs => FileOf[t] \in closed'
        /\ \A t \in Threads : FileOf[t] \in closed' => pc'[t] \in CleanupPcs \cup {"idle"}
        /\ \A t \in Threads : pc'[t] = "enqueue" => FileOf[t] \in mapped'
        /\ \A k \in q'.Pending : job'[k].Owner \in mapped' \ closed'
    BY <1>1, <1>2, <1>3, <1>5 DEF MInv, ClosedInv
  <2>2. ASSUME NEW c \in Cores, q'.InFlight[c] # NoJob
        PROVE  /\ Backed(q.InFlight[c])'
               /\ \A t \in Threads : pc'[t] = "freeBuffers"
                                     /\ job'[q'.InFlight[c]].Owner = FileOf[t] =>
                     job'[q'.InFlight[c]].OrphanOnComplete
    <3>1. q'.InFlight[c] = q.InFlight[c] /\ q.InFlight[c] # j
      BY <1>1, <1>5, <2>2
    <3> QED BY <1>1, <1>2, <1>3, <2>2, <3>1 DEF MInv, ClosedInv, Backed
  <2> QED BY <2>1, <2>2 DEF ClosedInv
<1> QED BY <1>7, <1>8, <1>9, <1>11, <1>12 DEF MInv

LEMMA JobCompleteMInv ==
    ASSUME Sessions, TInv, OInv, MInv, NEW a \in Agents, JobComplete(a), TInv' PROVE MInv'
<1> USE AgentFacts, ConstantFacts, QueueFacts, SteadyFacts
<1>1. PICK j, l : /\ Released0(a, j, l) /\ a \in Threads \cup {"worker", "dpc"}
                  /\ IF FreeHere(j) THEN job' = Free({j}) /\ q'.Completed = q.Completed
                     ELSE /\ job' = [job EXCEPT ![j].Result = arg[a], ![j].Done = TRUE]
                          /\ q'.Completed = q.Completed \cup {j}
                  /\ UNCHANGED <<inited, mapped, closed>>
  BY CompleteReleases
<1>2. /\ pc[a] = "complete" /\ q.InFlight[0] = j /\ j \in JobId /\ cur' = cur
      /\ pc' = [pc EXCEPT ![a] = l]
      /\ l \in {"arm", "gate", IF a = "dpc" THEN "idle" ELSE "kick"}
  BY <1>1 DEF Released0
<1>3. PICK s : q' = [ReleaseSlot(q, 0) EXCEPT !.Completed = s]
  BY <1>1 DEF Released0
<1>4. Releases(q, 0, s, q')
  BY <1>3, ReleaseFacts
<1>5. s = q'.Completed
  BY <1>4 DEF Releases
<1>6. Submits
  BY <1>2 DEF Submits, SubmitPcs, KickPcs, EndPcs
<1>7. \A t \in Threads : pc[t] = "enqueue" => pc'[t] = "enqueue"
  BY <1>2
<1>8. CASE FreeHere(j)
  BY <1>1, <1>2, <1>4, <1>5, <1>6, <1>7, <1>8, DiscardsInv DEF Discards
<1>9. CASE ~FreeHere(j)
  <2>1. \A k \in JobId : k # j => job'[k] = job[k]
    BY <1>1 DEF Released0
  <2>2. /\ job'[j].mem = job[j].mem /\ job'[j].Owner = job[j].Owner
        /\ job'[j].OrphanOnComplete = job[j].OrphanOnComplete
        /\ job'[j].WaiterPin = job[j].WaiterPin
    <3>1. PICK s1 : s1 = arg[a]
      OBVIOUS
    <3>2. job' = [job EXCEPT ![j].Result = s1, ![j].Done = TRUE] /\ j \in JobId
      BY <1>1, <1>2, <1>9, <3>1
    <3> QED BY <3>2 DEF TInv, TypeOK, JobType
  <2>3. SameJobs
    BY <2>1, <2>2 DEF SameJobs
  <2>4. Completes(0, j)
    BY <1>1, <1>2, <1>4, <1>5, <1>6, <1>9, <2>3 DEF Completes
  <2> QED BY <1>7, <2>4, CompletesRehouses, RehousesInv
<1> QED BY <1>8, <1>9

LEMMA RollbackMInv ==
    ASSUME Sessions, TInv, OInv, MInv, NEW a \in Agents, KickPeerCheck(a) \/ KickPeerCall(a),
           PeerRollback(a, "notready"), TInv'
    PROVE  MInv'
<1> USE AgentFacts, ConstantFacts, QueueFacts, SteadyFacts, SessionFacts
<1>1. PICK j : j = Head(promos[a]).job
  OBVIOUS
<1>2. /\ Vacates(a, j, "peerFailed") /\ cur' = cur /\ job' = job
      /\ UNCHANGED <<inited, mapped, closed>>
  BY <1>1, RollbackVacates
<1>3. /\ q.InFlight[1] = j /\ j \in JobId /\ Releases(q, 1, q.Completed \cup {j}, q')
      /\ pc' = [pc EXCEPT ![a] = "peerFailed"]
  BY <1>2 DEF Vacates
<1>4. pc[a] \in {"kick", "peerCall"}
  BY DEF KickPeerCheck, KickPeerCall
<1>5. Submits
  BY <1>2, <1>3, <1>4 DEF Submits, SubmitPcs, KickPcs
<1>6. Completes(1, j)
  BY <1>2, <1>3, <1>5 DEF Completes, SameJobs
<1> QED BY <1>3, <1>4, <1>6, CompletesRehouses, RehousesInv

LEMMA PeerCompletionMInv ==
    ASSUME Sessions, TInv, OInv, MInv, PeerCompletion, q' # q, TInv'
    PROVE  MInv'
<1> USE AgentFacts, ConstantFacts, QueueFacts, SteadyFacts, SessionFacts
<1>1. PICK j \in atPeer, l \in SignalPcs :
              /\ Vacates("peer", j, l) /\ cur' = [cur EXCEPT !["peer"] = j]
              /\ \E s \in Status : job' = [job EXCEPT ![j].Result = s]
              /\ UNCHANGED <<inited, mapped, closed>>
  BY PeerVacates
<1>2. PICK s \in Status : job' = [job EXCEPT ![j].Result = s]
  BY <1>1
<1>3. /\ q.InFlight[1] = j /\ j \in JobId /\ Releases(q, 1, q.Completed \cup {j}, q')
      /\ pc' = [pc EXCEPT !["peer"] = l]
  BY <1>1 DEF Vacates
<1>4. Submits
  BY <1>1, <1>3 DEF Submits
<1>5. SameJobs
  <2>1. \A k \in JobId : k # j => job'[k] = job[k]
    BY <1>2 DEF TInv, TypeOK
  <2>2. job'[j] = [job[j] EXCEPT !.Result = s] /\ job[j] \in JobType
    BY <1>2, <1>3 DEF TInv, TypeOK
  <2> QED BY <2>1, <2>2 DEF SameJobs, JobType
<1>6. Completes(1, j)
  BY <1>1, <1>3, <1>4, <1>5 DEF Completes
<1> QED BY <1>3, <1>6, CompletesRehouses, RehousesInv

-----------------------------------------------------------------------------
(***************************************************************************)
(* A request or the cleanup of a file: thread t, alone on its file, goes   *)
(* to l with job c in its hands and frees the jobs js of its file.         *)
(***************************************************************************)
Alone(t) == \A u \in Threads : u # t /\ FileOf[u] = FileOf[t] => pc[u] = "idle"

Serves(t, l, c, js) ==
    /\ pc' = [pc EXCEPT ![t] = l] /\ cur' = [cur EXCEPT ![t] = c]
    /\ \A j \in js : /\ j \in JobId /\ job[j].Owner = FileOf[t]
                     /\ job'[j].mem # "alloc" /\ job'[j].WaiterPin = 0
                     /\ j # q.InFlight[0] /\ j # q.InFlight[1]
    /\ \A j \in JobId : j \notin js =>
          /\ job'[j].mem = job[j].mem /\ job'[j].Owner = job[j].Owner
          /\ job[j].OrphanOnComplete => job'[j].OrphanOnComplete
          /\ job[j].Owner # FileOf[t] =>
                /\ job'[j].WaiterPin = job[j].WaiterPin
                /\ job'[j].OrphanOnComplete = job[j].OrphanOnComplete
          /\ job[j].Owner = FileOf[t] /\ job'[j].WaiterPin # 0 => l \in WaitPcs /\ c = j
    /\ q'.InFlight = q.InFlight /\ q'.Pending = q.Pending \ js
    /\ q'.Completed = q.Completed \ (js \cup (IF l = "take" THEN {c} ELSE {}))
    /\ l \notin SubmitPcs
    /\ l \in HoldPcs => c \in JobId /\ c \notin js /\ job[c].mem = "alloc"
                        /\ job[c].Owner = FileOf[t]
    /\ l \in WaitPcs => job'[c].WaiterPin = 1 /\ c \in Queued
    /\ pc[t] \in {"enqueue", "take"} => cur[t] \in js

LEMMA AloneFacts ==
    ASSUME Sessions, MInv, NEW t \in Threads, pc[t] # "idle" \/ Idle(t)
    PROVE  Alone(t)
<1>1. CASE pc[t] # "idle"
  BY <1>1 DEF MInv, OneBusy, Alone
<1>2. CASE Idle(t)
  BY <1>2 DEF Idle, Alone, Sessions
<1> QED BY <1>1, <1>2

LEMMA ServesInv ==
    ASSUME Sessions, TInv, OInv, MInv, NEW t \in Threads, NEW l, NEW c, NEW js,
           Alone(t), Serves(t, l, c, js), ClosedInv'
    PROVE  MInv'
<1> USE AgentFacts, ConstantFacts, QueueFacts, SteadyFacts, SlotJobs
<1>1. /\ pc' = [pc EXCEPT ![t] = l] /\ cur' = [cur EXCEPT ![t] = c]
      /\ \A j \in js : /\ j \in JobId /\ job[j].Owner = FileOf[t]
                       /\ job'[j].mem # "alloc" /\ job'[j].WaiterPin = 0
                       /\ j # q.InFlight[0] /\ j # q.InFlight[1]
      /\ \A j \in JobId : j \notin js => job'[j].mem = job[j].mem /\ job'[j].Owner = job[j].Owner
      /\ q'.InFlight = q.InFlight /\ q'.Pending = q.Pending \ js
      /\ q'.Completed = q.Completed \ (js \cup (IF l = "take" THEN {c} ELSE {}))
  BY DEF Serves
<1>2. /\ pc'[t] = l /\ cur'[t] = c
      /\ \A u \in Threads : u # t => pc'[u] = pc[u] /\ cur'[u] = cur[u]
  BY <1>1
\* The jobs that other threads hold are another file's.
<1>3. ASSUME NEW u \in Threads, u # t, pc[u] \in HoldPcs
      PROVE  /\ cur[u] \in JobId /\ job[cur[u]].Owner = FileOf[u] /\ FileOf[u] # FileOf[t]
             /\ cur[u] \notin js
  <2>1. pc[u] # "idle"
    BY <1>3, PcFacts
  <2>2. FileOf[u] # FileOf[t]
    BY <1>3, <2>1 DEF Alone
  <2>3. cur[u] \in JobId /\ job[cur[u]].Owner = FileOf[u]
    BY <1>3 DEF MInv, MineInv
  <2> QED BY <1>1, <2>2, <2>3
<1>4. \A j \in Queued : j \notin js /\ ~(l = "take" /\ j = c) => j \in Queued'
  BY <1>1 DEF Queued
<1>5. OneBusy'
  BY <1>2 DEF MInv, OneBusy, Alone
<1>6. MineInv'
  <2> SUFFICES ASSUME NEW u \in Threads
      PROVE /\ pc'[u] \in HoldPcs => /\ cur'[u] \in JobId /\ job'[cur'[u]].mem = "alloc"
                                     /\ job'[cur'[u]].Owner = FileOf[u]
            /\ pc'[u] \in SubmitPcs => ~job'[cur'[u]].OrphanOnComplete
            /\ pc'[u] \in WaitPcs => job'[cur'[u]].WaiterPin = 1 /\ cur'[u] \in Queued'
    BY DEF MineInv
  <2>1. CASE u = t
    <3>1. l \in WaitPcs => l \in HoldPcs /\ l # "take"
      BY PcFacts
    <3>2. l \in WaitPcs => job'[c].WaiterPin = 1 /\ c \in Queued'
      BY <1>4, <3>1 DEF Serves
    <3>3. l \in HoldPcs => c \in JobId /\ job'[c].mem = "alloc" /\ job'[c].Owner = FileOf[t]
      BY <1>1 DEF Serves
    <3>4. l \notin SubmitPcs
      BY DEF Serves
    <3> QED BY <1>2, <2>1, <3>2, <3>3, <3>4
  <2>2. CASE u # t /\ pc[u] \in HoldPcs
    <3>1. /\ cur[u] \in JobId /\ job[cur[u]].Owner = FileOf[u] /\ FileOf[u] # FileOf[t]
          /\ cur[u] \notin js
      BY <1>3, <2>2
    <3>2. /\ job'[cur[u]].WaiterPin = job[cur[u]].WaiterPin
          /\ job'[cur[u]].OrphanOnComplete = job[cur[u]].OrphanOnComplete
      BY <3>1 DEF Serves
    <3>3. l = "take" => cur[u] # c
      BY <3>1, PcFacts DEF Serves
    <3>4. cur[u] \in Queued => cur[u] \in Queued'
      BY <1>4, <3>1, <3>3
    <3> QED BY <1>1, <1>2, <2>2, <3>1, <3>2, <3>4 DEF MInv, MineInv
  <2>3. CASE u # t /\ pc[u] \notin HoldPcs
    BY <1>2, <2>3, PcFacts
  <2> QED BY <2>1, <2>2, <2>3
<1>7. PinInv'
  <2> SUFFICES ASSUME NEW j \in JobId, job'[j].WaiterPin # 0
               PROVE  \E u \in Threads : pc'[u] \in WaitPcs /\ cur'[u] = j
    BY DEF PinInv
  <2>1. j \notin js
    BY <1>1
  <2>2. CASE job[j].Owner = FileOf[t]
    BY <1>2, <2>1, <2>2 DEF Serves
  <2>3. CASE job[j].Owner # FileOf[t]
    <3>1. job[j].WaiterPin # 0
      BY <2>1, <2>3 DEF Serves
    <3>2. PICK u \in Threads : pc[u] \in WaitPcs /\ cur[u] = j
      BY <3>1 DEF MInv, PinInv
    <3>3. job[j].Owner = FileOf[u]
      BY <3>2, PcFacts DEF MInv, MineInv
    <3>4. u # t
      BY <2>3, <3>3
    <3> QED BY <1>2, <3>2, <3>4
  <2> QED BY <2>2, <2>3
<1>8. PlacedInv'
  <2>1. ASSUME NEW j \in JobId, job'[j].mem = "alloc"
        PROVE  Ahead(j)' \/ q'.InFlight[1] = j \/ j \in q'.Completed \/ Taken(j)'
    <3>1. j \notin js /\ job[j].mem = "alloc"
      BY <1>1, <2>1
    <3>2. \A u \in Threads : pc[u] \in {"enqueue", "take"} /\ cur[u] = j => u # t
      BY <3>1 DEF Serves
    <3>3. \A u \in Threads : pc[u] \in {"enqueue", "take"} /\ cur[u] = j =>
             pc'[u] = pc[u] /\ cur'[u] = j
      BY <1>2, <3>2
    <3>4. Ahead(j) => Ahead(j)'
      BY <1>1, <3>1, <3>3 DEF Ahead
    <3>5. Taken(j) => Taken(j)'
      BY <3>3 DEF Taken
    <3>6. j \in q.Completed => j \in q'.Completed \/ Taken(j)'
      BY <1>1, <1>2, <3>1 DEF Taken
    <3> QED BY <1>1, <3>1, <3>4, <3>5, <3>6 DEF MInv, PlacedInv
  <2>2. ASSUME NEW j \in q'.Completed PROVE job'[j].mem = "alloc" /\ ~Taken(j)'
    <3>1. j \in q.Completed /\ j \notin js /\ j \in JobId /\ ~(l = "take" /\ c = j)
      BY <1>1
    <3>2. \A u \in Threads : ~(pc[u] = "take" /\ cur[u] = j)
      BY <3>1 DEF MInv, PlacedInv, Taken
    <3> QED BY <1>1, <1>2, <3>1, <3>2 DEF MInv, PlacedInv, Taken
  <2> QED BY <2>1, <2>2 DEF PlacedInv
<1> QED BY <1>5, <1>6, <1>7, <1>8 DEF MInv

\* The same when no file is opened, closed or changed.
LEMMA ServesClosed ==
    ASSUME Sessions, TInv, OInv, MInv, NEW t \in Threads, NEW l, NEW c, NEW js,
           Serves(t, l, c, js), UNCHANGED <<inited, mapped, closed>>,
           l \in CleanupPcs => FileOf[t] \in closed,
           FileOf[t] \in closed => l \in CleanupPcs \cup {"idle"},
           l = "freeBuffers" => \A d \in Cores :
              q.InFlight[d] # NoJob /\ job[q.InFlight[d]].Owner = FileOf[t] =>
                 job'[q.InFlight[d]].OrphanOnComplete
    PROVE  ClosedInv'
<1> USE AgentFacts, ConstantFacts, QueueFacts, SteadyFacts, SlotJobs
<1>1. /\ pc' = [pc EXCEPT ![t] = l]
      /\ q'.InFlight = q.InFlight /\ q'.Pending = q.Pending \ js /\ l \notin SubmitPcs
      /\ \A j \in js : j # q.InFlight[0] /\ j # q.InFlight[1]
      /\ \A j \in JobId : j \notin js =>
            /\ job'[j].Owner = job[j].Owner
            /\ job[j].OrphanOnComplete => job'[j].OrphanOnComplete
  BY DEF Serves
<1>2. pc'[t] = l /\ \A u \in Threads : u # t => pc'[u] = pc[u]
  BY <1>1
<1>3. l # "enqueue"
  BY <1>1, PcFacts
<1>4. /\ mapped' \subseteq inited'
      /\ \A u \in Threads : pc'[u] \in CleanupPcs => FileOf[u] \in closed'
      /\ \A u \in Threads : FileOf[u] \in closed' => pc'[u] \in CleanupPcs \cup {"idle"}
      /\ \A u \in Threads : pc'[u] = "enqueue" => FileOf[u] \in mapped'
      /\ \A j \in q'.Pending : job'[j].Owner \in mapped' \ closed'
  BY <1>1, <1>2, <1>3 DEF MInv, ClosedInv
<1>5. ASSUME NEW d \in Cores, q'.InFlight[d] # NoJob
      PROVE  /\ Backed(q.InFlight[d])'
             /\ \A u \in Threads : pc'[u] = "freeBuffers"
                                   /\ job'[q'.InFlight[d]].Owner = FileOf[u] =>
                   job'[q'.InFlight[d]].OrphanOnComplete
  <2>1. PICK j : j = q.InFlight[d]
    OBVIOUS
  <2>2. j \in JobId /\ j \notin js /\ q'.InFlight[d] = j /\ q.InFlight[d] # NoJob
    BY <1>1, <1>5, <2>1
  <2>3. /\ job'[j].Owner = job[j].Owner
        /\ job[j].OrphanOnComplete => job'[j].OrphanOnComplete
    BY <1>1, <2>2
  <2>4. \/ job'[j].Owner \in mapped'
        \/ job'[j].OrphanOnComplete /\ job'[j].Owner \in closed'
    BY <2>1, <2>2, <2>3 DEF MInv, ClosedInv, Backed
  <2>5. ASSUME NEW u \in Threads, pc'[u] = "freeBuffers", job'[j].Owner = FileOf[u]
        PROVE  job'[j].OrphanOnComplete
    <3>1. CASE u = t
      BY <1>2, <2>1, <2>2, <2>3, <2>5, <3>1
    <3>2. CASE u # t
      <4>1. pc[u] = "freeBuffers" /\ job[q.InFlight[d]].Owner = FileOf[u]
        BY <1>2, <2>1, <2>3, <2>5, <3>2
      <4>2. job[q.InFlight[d]].OrphanOnComplete
        BY <2>2, <4>1 DEF MInv, ClosedInv
      <4> QED BY <2>1, <2>3, <4>2
    <3> QED BY <3>1, <3>2
  <2> QED BY <2>1, <2>2, <2>4, <2>5 DEF Backed
<1> QED BY <1>4, <1>5 DEF ClosedInv

\* On a file with one busy thread, only its own wait pins a job.
LEMMA OwnPins ==
    ASSUME MInv, NEW t \in Threads, Alone(t), NEW j \in JobId, job[j].Owner = FileOf[t],
           job[j].WaiterPin # 0
    PROVE  pc[t] \in WaitPcs /\ cur[t] = j
<1>1. PICK u \in Threads : pc[u] \in WaitPcs /\ cur[u] = j
  BY DEF MInv, PinInv
<1>2. FileOf[u] = FileOf[t]
  BY <1>1, PcFacts DEF MInv, MineInv
<1> QED BY <1>1, <1>2, PcFacts DEF Alone

\* Steps of a thread that change neither the queue nor a job.
LEMMA ServesPlain ==
    ASSUME Sessions, TInv, OInv, MInv, NEW t \in Threads,
           SubmitReturn(t) \/ DrainEmpty(t) \/ CleanupDecide(t) \/ CleanupPowerCycle(t)
    PROVE  MInv'
<1> USE AgentFacts, ConstantFacts, QueueFacts, SteadyFacts, SessionFacts, SlotJobs
        DEF Goto, fileVars, ctlVars
<1>1. PICK l \in {"idle", "freeBuffers", "pdCycle"} :
         /\ pc' = [pc EXCEPT ![t] = l]
         /\ l = "freeBuffers" => DrainEmpty(t)
         /\ l = "pdCycle" => pc[t] = "decide"
  BY DEF SubmitReturn, DrainEmpty, CleanupDecide, CleanupPowerCycle
<1>2. PICK c : cur' = [cur EXCEPT ![t] = c]
  <2>1. cur' = cur \/ cur' = [cur EXCEPT ![t] = NoJob]
    BY DEF SubmitReturn, DrainEmpty, CleanupDecide, CleanupPowerCycle
  <2>2. cur = [cur EXCEPT ![t] = cur[t]]
    OBVIOUS
  <2> QED BY <2>1, <2>2
<1>3. UNCHANGED <<q, job, inited, mapped, closed>>
  BY DEF SubmitReturn, DrainEmpty, CleanupDecide, CleanupPowerCycle
<1>4. pc[t] \in {"submitted", "drain", "decide", "pdCycle"}
  BY DEF SubmitReturn, DrainEmpty, CleanupDecide, CleanupPowerCycle
<1>5. Alone(t)
  BY <1>4, AloneFacts
<1>6. \A j \in JobId : job[j].Owner = FileOf[t] => job[j].WaiterPin = 0
  BY <1>4, <1>5, OwnPins DEF WaitPcs
<1>7. l \notin HoldPcs /\ l \notin WaitPcs /\ l \notin SubmitPcs
  BY DEF HoldPcs, WaitPcs, SubmitPcs, KickPcs, EndPcs
<1>8. Serves(t, l, c, {})
  BY <1>1, <1>2, <1>3, <1>4, <1>6, <1>7 DEF Serves
<1>9. l \in CleanupPcs => FileOf[t] \in closed
  BY <1>1, <1>4 DEF DrainEmpty, MInv, ClosedInv, CleanupPcs
<1>10. l = "freeBuffers" => \A d \in Cores :
          q.InFlight[d] # NoJob /\ job[q.InFlight[d]].Owner = FileOf[t] =>
             job'[q.InFlight[d]].OrphanOnComplete
  <2>1. \A d \in Cores : q.InFlight[d] # NoJob => d < q.CoreCount
    BY DEF OInv, SlotInv
  <2> QED BY <1>1, <2>1 DEF DrainEmpty, OwnedCores, VisibleCores
<1>11. FileOf[t] \in closed => l \in CleanupPcs \cup {"idle"}
  BY DEF CleanupPcs
<1>12. ClosedInv'
  BY <1>3, <1>8, <1>9, <1>10, <1>11, ServesClosed
<1> QED BY <1>5, <1>8, <1>12, ServesInv

\* A thread that frees the job it holds: a submission refused, a result taken.
LEMMA ServesFree ==
    ASSUME Sessions, TInv, OInv, MInv, NEW t \in Threads, SubmitBusy(t) \/ WaitTakeFree(t)
    PROVE  MInv'
<1> USE AgentFacts, ConstantFacts, QueueFacts, SteadyFacts, SessionFacts, SlotJobs
        DEF Goto, fileVars, ctlVars
<1>1. /\ pc' = [pc EXCEPT ![t] = "idle"] /\ cur' = [cur EXCEPT ![t] = NoJob]
      /\ job' = Free({cur[t]}) /\ UNCHANGED <<q, inited, mapped, closed>>
      /\ pc[t] \in {"enqueue", "take"}
  BY DEF SubmitBusy, WaitTakeFree
<1>2. PICK j : j = cur[t]
  OBVIOUS
<1>3. Alone(t)
  BY <1>1, AloneFacts
<1>4. pc[t] \in HoldPcs
  BY <1>1 DEF HoldPcs, SubmitPcs
<1>5. j \in JobId /\ job[j].Owner = FileOf[t]
  BY <1>2, <1>4 DEF MInv, MineInv
<1>6. j \notin q.Pending /\ j # q.InFlight[0] /\ j # q.InFlight[1] /\ j \notin q.Completed
  <2>1. CASE pc[t] = "enqueue"
    <3>1. Ahead(j)
      BY <1>2, <2>1 DEF Ahead
    <3>2. ~Over(j) /\ ~Peered(j)
      BY <1>5, <3>1 DEF OInv, LiveInv
    <3> QED BY <1>2, <2>1, <3>2 DEF OInv, LiveInv, Over, Peered
  <2>2. CASE pc[t] = "take"
    <3>1. Over(j) /\ Taken(j)
      BY <1>2, <2>2 DEF Over, Taken
    <3> QED BY <1>5, <3>1, OverFacts DEF MInv, PlacedInv
  <2> QED BY <1>1, <2>1, <2>2
<1>7. /\ \A k \in JobId : k # j => job'[k] = job[k]
      /\ job'[j].mem = "freed" /\ job'[j].WaiterPin = 0
  BY <1>1, <1>2, <1>5 DEF Free, Freed, NewJob
<1>8. \A k \in JobId : job[k].Owner = FileOf[t] => job[k].WaiterPin = 0
  BY <1>1, <1>3, OwnPins DEF WaitPcs
<1>9. "idle" \notin HoldPcs /\ "idle" \notin WaitPcs /\ "idle" \notin SubmitPcs
  BY DEF HoldPcs, WaitPcs, SubmitPcs, KickPcs, EndPcs
<1>10. Serves(t, "idle", NoJob, {j})
  <2>1. /\ q'.InFlight = q.InFlight /\ q'.Pending = q.Pending \ {j}
        /\ q'.Completed = q.Completed \ ({j} \cup (IF "idle" = "take" THEN {NoJob} ELSE {}))
    BY <1>1, <1>6
  <2>2. \A k \in JobId : k \notin {j} =>
          /\ job'[k].mem = job[k].mem /\ job'[k].Owner = job[k].Owner
          /\ job[k].OrphanOnComplete => job'[k].OrphanOnComplete
          /\ job'[k].WaiterPin = job[k].WaiterPin
          /\ job'[k].OrphanOnComplete = job[k].OrphanOnComplete
          /\ job[k].Owner = FileOf[t] => job'[k].WaiterPin = 0
    BY <1>7, <1>8
  <2>3. \A k \in {j} : /\ k \in JobId /\ job[k].Owner = FileOf[t]
                       /\ job'[k].mem # "alloc" /\ job'[k].WaiterPin = 0
                       /\ k # q.InFlight[0] /\ k # q.InFlight[1]
    BY <1>5, <1>6, <1>7
  <2> QED BY <1>1, <1>2, <1>9, <2>1, <2>2, <2>3 DEF Serves
<1>11. ClosedInv'
  BY <1>1, <1>10, ServesClosed, PcFacts
<1> QED BY <1>3, <1>10, <1>11, ServesInv

\* A job a thread waits for is on Pending, in a slot or on Completed, and alive.
LEMMA ServesWait ==
    ASSUME Sessions, TInv, OInv, MInv, NEW t \in Threads, NEW j \in JobId,
           WaitTake(t, j) \/ WaitPin(t, j)
    PROVE  MInv'
<1> USE AgentFacts, ConstantFacts, QueueFacts, SteadyFacts, SessionFacts, SlotJobs
        DEF Goto, fileVars, ctlVars
<1>1. /\ pc[t] = "idle" /\ FileOf[t] \notin closed /\ job[j].Owner = FileOf[t]
      /\ cur' = [cur EXCEPT ![t] = j] /\ UNCHANGED <<inited, mapped, closed>> /\ Idle(t)
  BY DEF WaitTake, WaitPin, MayEnter, Idle
<1>2. Alone(t)
  BY <1>1, AloneFacts
<1>3. \A k \in JobId : job[k].Owner = FileOf[t] => job[k].WaiterPin = 0
  BY <1>1, <1>2, OwnPins DEF WaitPcs
<1>4. CASE WaitTake(t, j)
  <2>1. /\ j \in q.Completed /\ q' = [q EXCEPT !.Completed = q.Completed \ {j}] /\ job' = job
        /\ pc' = [pc EXCEPT ![t] = "take"]
    BY <1>4 DEF WaitTake
  <2>2. q'.InFlight = q.InFlight /\ q'.Pending = q.Pending /\ q'.Completed = q.Completed \ {j}
    BY <2>1, ListFrames DEF SameSlots
  <2>3. job[j].mem = "alloc"
    BY <2>1 DEF MInv, PlacedInv
  <2>4. "take" \notin WaitPcs /\ "take" \notin SubmitPcs /\ "take" \notin CleanupPcs
    BY PcFacts
  <2>5. Serves(t, "take", j, {})
    BY <1>1, <1>3, <2>1, <2>2, <2>3, <2>4 DEF Serves
  <2>6. ClosedInv'
    BY <1>1, <2>4, <2>5, ServesClosed
  <2> QED BY <1>2, <2>5, <2>6, ServesInv
<1>5. CASE WaitPin(t, j)
  <2>1. /\ job' = [job EXCEPT ![j].WaiterPin = @ + 1] /\ q' = q
        /\ pc' = [pc EXCEPT ![t] = "waiting"]
        /\ j \in q.Pending \/ \E c \in Cores : q.InFlight[c] = j
    BY <1>5 DEF WaitPin, VisibleCores
  <2>2. j \in Queued /\ j # NoJob
    BY <2>1 DEF Queued
  <2>3. job[j].mem = "alloc"
    <3>1. CASE j \in q.Pending
      BY <3>1 DEF OInv, LiveInv, Ahead, Over
    <3>2. ASSUME NEW c \in Cores, q.InFlight[c] = j PROVE job[j].mem = "alloc"
      BY <2>2, <3>2, SlotAlive
    <3> QED BY <2>1, <3>1, <3>2
  <2>4. Pinned(job', j, job[j].WaiterPin + 1, job[j].OrphanOnComplete)
    BY <2>1, PinFacts
  <2>5. /\ \A k \in JobId : k # j => job'[k] = job[k]
        /\ job'[j].WaiterPin = 1 /\ job'[j].OrphanOnComplete = job[j].OrphanOnComplete
        /\ job'[j].mem = job[j].mem /\ job'[j].Owner = job[j].Owner
    BY <1>1, <1>3, <2>4 DEF Pinned
  <2>6. "waiting" \in WaitPcs /\ "waiting" \notin SubmitPcs /\ "waiting" \notin CleanupPcs
    BY DEF WaitPcs, SubmitPcs, KickPcs, EndPcs, CleanupPcs
  <2>7. Serves(t, "waiting", j, {})
    BY <1>1, <1>3, <2>1, <2>2, <2>3, <2>5, <2>6 DEF Serves
  <2>8. ClosedInv'
    BY <1>1, <2>6, <2>7, ServesClosed
  <2> QED BY <1>2, <2>7, <2>8, ServesInv
<1> QED BY <1>4, <1>5

\* A wait ends: the one pin goes, and with it the job if nobody else has it.
LEMMA ServesLeave ==
    ASSUME Sessions, TInv, OInv, MInv, NEW t \in Threads, WaitDone(t) \/ WaitTimeout(t)
    PROVE  MInv'
<1> USE AgentFacts, ConstantFacts, QueueFacts, SteadyFacts, SessionFacts, SlotJobs
        DEF Goto, fileVars, ctlVars
<1>1. PICK j : j = cur[t]
  OBVIOUS
<1>2. pc[t] = "waiting" /\ pc[t] \in WaitPcs /\ pc[t] \in HoldPcs
  BY DEF WaitDone, WaitTimeout, WaitPcs, HoldPcs
<1>3. j \in JobId /\ job[j].mem = "alloc" /\ job[j].Owner = FileOf[t] /\ job[j].WaiterPin = 1
  BY <1>1, <1>2 DEF MInv, MineInv
<1>4. Alone(t)
  BY <1>2, AloneFacts
<1>5. PICK js \in SUBSET {j}, b \in BOOLEAN :
         /\ WaitLeave(t, js, b)
         /\ js # {} => j \notin {q.InFlight[0], q.InFlight[1]}
  <2>1. CASE WaitDone(t)
    <3>1. job[j].Done /\ WaitLeave(t, {j}, FALSE)
      BY <1>1, <1>3, <2>1 DEF WaitDone, LastPin
    <3>2. Over(j)
      BY <3>1 DEF Over
    <3>3. j # q.InFlight[0] /\ j # q.InFlight[1]
      BY <1>3, <3>2, OverFacts
    <3> QED BY <3>1, <3>3
  <2>2. CASE WaitTimeout(t)
    <3> DEFINE ks == IF LastPin(j) /\ j \in q.Pending \cup q.Completed THEN {j} ELSE {}
               o  == LastPin(j) /\ \E d \in VisibleCores(q) : q.InFlight[d] = j
    <3>1. WaitLeave(t, ks, o)
      BY <1>1, <2>2 DEF WaitTimeout
    <3>2. o \in BOOLEAN /\ ks \in SUBSET {j}
      OBVIOUS
    <3>3. ks # {} => j \in q.Pending \cup q.Completed
      OBVIOUS
    <3> HIDE DEF ks, o
    <3>4. ks # {} => j # q.InFlight[0] /\ j # q.InFlight[1]
      BY <3>3, ListedFacts
    <3> QED BY <3>1, <3>2, <3>4
  <2> QED BY <2>1, <2>2
<1>6. /\ pc' = [pc EXCEPT ![t] = "idle"] /\ cur' = [cur EXCEPT ![t] = NoJob]
      /\ q'.InFlight = q.InFlight
      /\ q'.Pending = q.Pending \ js /\ q'.Completed = q.Completed \ js
      /\ UNCHANGED <<inited, mapped, closed>>
      /\ js # {} => job' = Free(js)
      /\ js = {} => job' = [job EXCEPT ![j].WaiterPin = @ - 1, ![j].OrphanOnComplete = @ \/ b]
  BY <1>1, <1>5, WaitLeaveFacts DEF SameSlots
<1>7. \A k \in JobId : k # j /\ job[k].Owner = FileOf[t] => job[k].WaiterPin = 0
  BY <1>1, <1>4, OwnPins
<1>8. "idle" \notin HoldPcs /\ "idle" \notin WaitPcs /\ "idle" \notin SubmitPcs
  BY DEF HoldPcs, WaitPcs, SubmitPcs, KickPcs, EndPcs
<1>9. /\ \A k \in js : job'[k].mem # "alloc" /\ job'[k].WaiterPin = 0
      /\ \A k \in JobId : k # j => job'[k] = job[k]
      /\ j \notin js =>
            /\ job'[j].mem = job[j].mem /\ job'[j].Owner = job[j].Owner
            /\ job[j].OrphanOnComplete => job'[j].OrphanOnComplete
            /\ job'[j].WaiterPin = 0
  <2>1. CASE js # {}
    <3>1. js = {j}
      BY <1>5, <2>1
    <3>2. job' = Free({j})
      BY <1>6, <2>1, <3>1
    <3> QED BY <1>3, <3>1, <3>2 DEF Free, Freed, NewJob
  <2>2. CASE js = {}
    <3>1. job' = [job EXCEPT ![j].WaiterPin = @ - 1, ![j].OrphanOnComplete = @ \/ b]
      BY <1>6, <2>2
    <3>2. Pinned(job', j, job[j].WaiterPin - 1, job[j].OrphanOnComplete \/ b)
      BY <3>1, PinFacts
    <3>3. job'[j].OrphanOnComplete = (job[j].OrphanOnComplete \/ b)
      BY <1>3, <3>2 DEF Pinned
    <3>4. job[j].OrphanOnComplete => job'[j].OrphanOnComplete
      BY <3>3
    <3>5. job'[j].mem = job[j].mem /\ job'[j].Owner = job[j].Owner /\ job'[j].WaiterPin = 0
      BY <1>3, <3>2 DEF Pinned
    <3>6. \A k \in JobId : k # j => job'[k] = job[k]
      BY <3>2 DEF Pinned
    <3> QED BY <2>2, <3>4, <3>5, <3>6
  <2> QED BY <2>1, <2>2
<1>10. Serves(t, "idle", NoJob, js)
  <2>1. \A k \in js : /\ k \in JobId /\ job[k].Owner = FileOf[t]
                      /\ k # q.InFlight[0] /\ k # q.InFlight[1]
    BY <1>3, <1>5
  <2>2. \A k \in JobId : k \notin js =>
          /\ job'[k].mem = job[k].mem /\ job'[k].Owner = job[k].Owner
          /\ job[k].OrphanOnComplete => job'[k].OrphanOnComplete
          /\ job[k].Owner # FileOf[t] =>
                /\ job'[k].WaiterPin = job[k].WaiterPin
                /\ job'[k].OrphanOnComplete = job[k].OrphanOnComplete
          /\ job[k].Owner = FileOf[t] => job'[k].WaiterPin = 0
    BY <1>3, <1>7, <1>9
  <2> QED BY <1>2, <1>6, <1>8, <1>9, <2>1, <2>2 DEF Serves
<1>11. ClosedInv'
  BY <1>6, <1>10, ServesClosed, PcFacts
<1> QED BY <1>4, <1>10, <1>11, ServesInv

\* The cleanup pins a job of its file that is in a slot.
LEMMA ServesDrainPin ==
    ASSUME Sessions, TInv, OInv, MInv, NEW t \in Threads, DrainPin(t)
    PROVE  MInv'
<1> USE AgentFacts, ConstantFacts, QueueFacts, SteadyFacts, SessionFacts, SlotJobs
        DEF Goto, fileVars, ctlVars
<1> DEFINE cs == OwnedCores(FileOf[t])
           d  == CHOOSE c \in cs : \A e \in cs : c <= e
<1>1. PICK j : j = q.InFlight[d]
  OBVIOUS
<1>2. /\ pc[t] = "drain" /\ pc' = [pc EXCEPT ![t] = "drainWait"]
      /\ cur' = [cur EXCEPT ![t] = j] /\ job' = [job EXCEPT ![j].WaiterPin = @ + 1]
      /\ UNCHANGED <<q, inited, mapped, closed>>
  BY <1>1 DEF DrainPin
<1>3. cs # {} /\ cs \subseteq {0, 1}
  <2>1. cs # {}
    BY DEF DrainPin
  <2> QED BY <2>1 DEF OwnedCores, VisibleCores
<1>4. d \in cs
  <2>1. CASE 0 \in cs
    BY <1>3, <2>1
  <2>2. CASE 0 \notin cs
    <3>1. cs = {1}
      BY <1>3, <2>2
    <3> QED BY <3>1
  <2> QED BY <2>1, <2>2
<1>5. d \in Cores /\ q.InFlight[d] # NoJob /\ job[q.InFlight[d]].Owner = FileOf[t]
  BY <1>4 DEF OwnedCores, VisibleCores
<1> HIDE DEF d, cs
<1>6. /\ j \in JobId /\ job[j].Owner = FileOf[t] /\ job[j].mem = "alloc" /\ j \in Queued
  BY <1>1, <1>5, SlotAlive DEF Queued
<1>7. Alone(t)
  BY <1>2, AloneFacts
<1>8. \A k \in JobId : job[k].Owner = FileOf[t] => job[k].WaiterPin = 0
  BY <1>2, <1>7, OwnPins DEF WaitPcs
<1>9. Pinned(job', j, job[j].WaiterPin + 1, job[j].OrphanOnComplete)
  BY <1>2, PinFacts
<1>10. /\ \A k \in JobId : k # j => job'[k] = job[k]
       /\ job'[j].WaiterPin = 1 /\ job'[j].OrphanOnComplete = job[j].OrphanOnComplete
       /\ job'[j].mem = job[j].mem /\ job'[j].Owner = job[j].Owner
  BY <1>6, <1>8, <1>9 DEF Pinned
<1>11. "drainWait" \in WaitPcs /\ "drainWait" \notin SubmitPcs /\ "drainWait" \in CleanupPcs
  BY DEF WaitPcs, SubmitPcs, KickPcs, EndPcs, CleanupPcs
<1>12. Serves(t, "drainWait", j, {})
  BY <1>2, <1>6, <1>8, <1>10, <1>11 DEF Serves
<1>13. FileOf[t] \in closed
  BY <1>2 DEF MInv, ClosedInv, CleanupPcs
<1>14. ClosedInv'
  BY <1>2, <1>11, <1>12, <1>13, ServesClosed
<1> QED BY <1>7, <1>12, <1>14, ServesInv

\* The end of such a wait.  After a timeout every job of the file that is
\* still in a slot has been given up.
LEMMA ServesUnpin ==
    ASSUME Sessions, TInv, OInv, MInv, NEW t \in Threads, DrainDone(t) \/ DrainTimeout(t)
    PROVE  MInv'
<1> USE AgentFacts, ConstantFacts, QueueFacts, SteadyFacts, SessionFacts, SlotJobs
        DEF Goto, fileVars, ctlVars
<1>1. PICK b \in BOOLEAN, l \in {"drain", "freeBuffers"} :
         /\ DrainUnpin(t, b) /\ pc' = [pc EXCEPT ![t] = l] /\ (l = "freeBuffers" => b)
         /\ UNCHANGED <<inited, mapped, closed>>
  <2>1. CASE DrainDone(t)
    BY <2>1 DEF DrainDone
  <2>2. CASE DrainTimeout(t)
    BY <2>2 DEF DrainTimeout
  <2> QED BY <2>1, <2>2
<1>2. PICK js, ab \in SUBSET JobId : Unpinned(t, b, js, ab)
  BY <1>1, DrainUnpinFacts
<1>3. PICK j : j = cur[t]
  OBVIOUS
<1>4. /\ js = {k \in q.Completed :
                  /\ job[k].Owner = FileOf[t]
                  /\ job[k].WaiterPin - (IF k = j THEN 1 ELSE 0) = 0}
      /\ ab = IF b THEN {q.InFlight[c] : c \in OwnedCores(FileOf[t])} ELSE {}
      /\ pc[t] = "drainWait" /\ cur' = [cur EXCEPT ![t] = NoJob]
      /\ q'.InFlight = q.InFlight /\ q'.Pending = q.Pending /\ q'.Completed = q.Completed \ js
      /\ \A k \in JobId : k \in js => job'[k].mem = "freed" /\ job'[k].WaiterPin = 0
      /\ \A k \in JobId : k \notin js =>
            /\ job'[k].WaiterPin = job[k].WaiterPin - (IF k = j THEN 1 ELSE 0)
            /\ job'[k].OrphanOnComplete = (job[k].OrphanOnComplete \/ k \in ab)
            /\ job'[k].mem = job[k].mem /\ job'[k].Owner = job[k].Owner
  BY <1>2, <1>3 DEF Unpinned, SameSlots
<1>5. j \in JobId /\ job[j].Owner = FileOf[t] /\ job[j].WaiterPin = 1
  BY <1>3, <1>4 DEF MInv, MineInv, HoldPcs, WaitPcs
<1>6. Alone(t)
  BY <1>4, AloneFacts
<1>7. \A k \in JobId : k # j /\ job[k].Owner = FileOf[t] => job[k].WaiterPin = 0
  BY <1>3, <1>6, OwnPins
<1>8. \A k \in js : /\ k \in q.Completed /\ k \in JobId /\ job[k].Owner = FileOf[t]
                    /\ k \notin q.Pending /\ k # q.InFlight[0] /\ k # q.InFlight[1]
  <2>1. \A k \in js : k \in q.Completed /\ k \in JobId /\ job[k].Owner = FileOf[t] /\ Over(k)
    BY <1>4 DEF Over
  <2> QED BY <2>1, OverFacts
<1>9. \A k \in ab : job[k].Owner = FileOf[t]
  BY <1>4 DEF OwnedCores
<1>10. ASSUME NEW k \in JobId, k \notin js
       PROVE  /\ job'[k].mem = job[k].mem /\ job'[k].Owner = job[k].Owner
              /\ job[k].OrphanOnComplete => job'[k].OrphanOnComplete
              /\ job[k].Owner # FileOf[t] =>
                    /\ job'[k].WaiterPin = job[k].WaiterPin
                    /\ job'[k].OrphanOnComplete = job[k].OrphanOnComplete
              /\ job[k].Owner = FileOf[t] => job'[k].WaiterPin = 0
  <2>1. /\ job'[k].mem = job[k].mem /\ job'[k].Owner = job[k].Owner
        /\ job'[k].WaiterPin = job[k].WaiterPin - (IF k = j THEN 1 ELSE 0)
    BY <1>4, <1>10
  <2>2. job'[k].OrphanOnComplete = (job[k].OrphanOnComplete \/ k \in ab)
    BY <1>4, <1>10
  <2>3. job[k].OrphanOnComplete \in BOOLEAN /\ job[k].WaiterPin \in Int
    BY DEF TInv, TypeOK, JobType
  <2>4. job[k].OrphanOnComplete => job'[k].OrphanOnComplete
    BY <2>2
  <2>5. k \notin ab => job'[k].OrphanOnComplete = job[k].OrphanOnComplete
    BY <2>2, <2>3
  <2> QED BY <1>5, <1>7, <1>9, <2>1, <2>3, <2>4, <2>5
<1>11. l \notin HoldPcs /\ l \notin WaitPcs /\ l \notin SubmitPcs /\ l # "take"
  BY DEF HoldPcs, WaitPcs, SubmitPcs, KickPcs, EndPcs
<1>12. Serves(t, l, NoJob, js)
  <2>1. /\ q'.InFlight = q.InFlight /\ q'.Pending = q.Pending \ js
        /\ q'.Completed = q.Completed \ (js \cup (IF l = "take" THEN {NoJob} ELSE {}))
    BY <1>4, <1>8, <1>11
  <2>2. \A k \in js : job'[k].mem # "alloc" /\ job'[k].WaiterPin = 0
    BY <1>4, <1>8
  <2> QED BY <1>1, <1>4, <1>8, <1>10, <1>11, <2>1, <2>2 DEF Serves
<1>13. FileOf[t] \in closed /\ l \in CleanupPcs
  BY <1>4 DEF MInv, ClosedInv, CleanupPcs
<1>14. ASSUME NEW d \in Cores, l = "freeBuffers",
              q.InFlight[d] # NoJob, job[q.InFlight[d]].Owner = FileOf[t]
       PROVE  job'[q.InFlight[d]].OrphanOnComplete
  <2>1. d < q.CoreCount
    BY <1>14 DEF OInv, SlotInv
  <2>2. d \in OwnedCores(FileOf[t]) /\ b
    BY <1>1, <1>14, <2>1 DEF OwnedCores, VisibleCores
  <2>3. q.InFlight[d] \in ab /\ q.InFlight[d] \in JobId
    BY <1>4, <1>14, <2>2
  <2>4. q.InFlight[d] \notin js
    BY <1>8
  <2>5. PICK k : k = q.InFlight[d]
    OBVIOUS
  <2>6. job'[k].OrphanOnComplete = (job[k].OrphanOnComplete \/ k \in ab)
    BY <1>4, <2>3, <2>4, <2>5
  <2>7. job'[k].OrphanOnComplete
    BY <2>3, <2>5, <2>6
  <2> QED BY <2>5, <2>7
<1>15. ClosedInv'
  BY <1>1, <1>12, <1>13, <1>14, ServesClosed
<1> QED BY <1>6, <1>12, <1>15, ServesInv

\* Steps that change only which files exist and have buffers.
LEMMA FilesInv ==
    ASSUME Sessions, TInv, OInv, MInv, NEW t \in Threads,
           AllocBuffer(t) \/ FreeBuffer(t) \/ CloseUnused(t)
    PROVE  MInv'
<1> USE AgentFacts, ConstantFacts, QueueFacts, SteadyFacts, SessionFacts, SlotJobs
        DEF Goto, fileVars, ctlVars
<1>1. UNCHANGED <<q, job, pc, cur>> /\ Idle(t)
  BY DEF AllocBuffer, FreeBuffer, CloseUnused, MayEnter
<1>2. OneBusy' /\ MineInv'
  BY <1>1 DEF MInv, OneBusy, MineInv, Queued
<1>3. PinInv' /\ PlacedInv'
  BY <1>1 DEF MInv, PinInv, PlacedInv, Taken, Ahead
<1>4. FileOf[t] \notin closed /\ \A u \in Threads : FileOf[u] = FileOf[t] => pc[u] = "idle"
  BY <1>1 DEF Idle
<1>5. ClosedInv'
  <2>1. CASE AllocBuffer(t)
    <3>1. /\ mapped' = mapped \cup {FileOf[t]} /\ inited' = inited \cup {FileOf[t]}
          /\ closed' = closed
      BY <2>1 DEF AllocBuffer
    <3> QED BY <1>1, <1>4, <3>1 DEF MInv, ClosedInv, Backed
  <2>2. CASE FreeBuffer(t)
    <3>1. /\ mapped' = mapped \ {FileOf[t]} /\ UNCHANGED <<inited, closed>>
          /\ ~RkMppJobBufferInUse(q, Owner, FileOf[t])
      BY <2>2 DEF FreeBuffer
    <3>2. \A j \in q.Pending : job[j].Owner # FileOf[t]
      BY <3>1 DEF RkMppJobBufferInUse, Owner
    <3>3. \A d \in Cores : q.InFlight[d] # NoJob => d \in VisibleCores(q)
      BY DEF OInv, SlotInv, VisibleCores
    <3>4. \A d \in Cores : q.InFlight[d] # NoJob => job[q.InFlight[d]].Owner # FileOf[t]
      BY <3>1, <3>3 DEF RkMppJobBufferInUse, Owner
    <3>5. \A u \in Threads : pc[u] = "enqueue" => FileOf[u] # FileOf[t]
      BY <1>4
    <3> QED BY <1>1, <3>1, <3>2, <3>4, <3>5 DEF MInv, ClosedInv, Backed
  <2>3. CASE CloseUnused(t)
    <3>1. /\ closed' = closed \cup {FileOf[t]} /\ UNCHANGED <<inited, mapped>>
          /\ FileOf[t] \notin inited
      BY <2>3 DEF CloseUnused
    <3>2. FileOf[t] \notin mapped
      BY <3>1 DEF MInv, ClosedInv
    <3> QED BY <1>1, <1>4, <3>1, <3>2 DEF MInv, ClosedInv, Backed
  <2> QED BY <2>1, <2>2, <2>3
<1> QED BY <1>2, <1>3, <1>5 DEF MInv

\* The sweep of a closing file's lists.
LEMMA ServesSweep ==
    ASSUME Sessions, TInv, OInv, MInv, NEW t \in Threads, DrainSweep(t)
    PROVE  MInv'
<1> USE AgentFacts, ConstantFacts, QueueFacts, SteadyFacts, SessionFacts, SlotJobs
        DEF Goto, fileVars, ctlVars
<1>1. PICK js : js = JobsOf(FileOf[t], q.Pending \cup q.Completed)
  OBVIOUS
<1>2. /\ Idle(t) /\ pc' = [pc EXCEPT ![t] = "drain"] /\ job' = Free(js) /\ cur' = cur
      /\ q' = [RemovePending(q, js) EXCEPT !.Completed = @ \ js]
      /\ closed' = closed \cup {FileOf[t]} /\ UNCHANGED <<inited, mapped>>
  BY <1>1 DEF DrainSweep
<1>3. q'.InFlight = q.InFlight /\ q'.Pending = q.Pending \ js /\ q'.Completed = q.Completed \ js
  BY <1>2, ListFrames DEF SameSlots
<1>4. Alone(t) /\ pc[t] = "idle"
  BY <1>2, AloneFacts DEF Idle
<1>5. \A j \in js : /\ j \in JobId /\ job[j].Owner = FileOf[t]
                    /\ j # q.InFlight[0] /\ j # q.InFlight[1]
  <2>1. \A j \in js : j \in q.Pending \cup q.Completed /\ job[j].Owner = FileOf[t]
    BY <1>1 DEF JobsOf
  <2> QED BY <2>1, ListedFacts
<1>6. \A j \in q.Pending : j \notin js => job[j].Owner # FileOf[t]
  BY <1>1 DEF JobsOf
<1>7. /\ \A j \in JobId : j \notin js => job'[j] = job[j]
      /\ \A j \in js : job'[j].mem = "freed" /\ job'[j].WaiterPin = 0
  BY <1>2, <1>5 DEF Free, Freed, NewJob
<1>8. \A j \in JobId : job[j].Owner = FileOf[t] => job[j].WaiterPin = 0
  BY <1>4, OwnPins DEF WaitPcs
<1>9. /\ "drain" \notin HoldPcs /\ "drain" \notin WaitPcs /\ "drain" \notin SubmitPcs
      /\ "drain" \in CleanupPcs
  BY DEF HoldPcs, WaitPcs, SubmitPcs, KickPcs, EndPcs, CleanupPcs
<1>10. cur' = [cur EXCEPT ![t] = cur[t]]
  BY <1>2
<1>11. Serves(t, "drain", cur[t], js)
  <2>1. q'.Completed = q.Completed \ (js \cup (IF "drain" = "take" THEN {cur[t]} ELSE {}))
    BY <1>3
  <2>2. \A j \in JobId : j \notin js =>
          /\ job'[j].mem = job[j].mem /\ job'[j].Owner = job[j].Owner
          /\ job'[j].WaiterPin = job[j].WaiterPin
          /\ job'[j].OrphanOnComplete = job[j].OrphanOnComplete
          /\ job[j].OrphanOnComplete => job'[j].OrphanOnComplete
          /\ job[j].Owner = FileOf[t] => job'[j].WaiterPin = 0
    BY <1>7, <1>8
  <2> QED BY <1>2, <1>3, <1>4, <1>5, <1>7, <1>9, <1>10, <2>1, <2>2 DEF Serves
<1>12. ClosedInv'
  <2>1. pc'[t] = "drain" /\ \A u \in Threads : u # t => pc'[u] = pc[u]
    BY <1>2
  <2>2. /\ mapped' \subseteq inited'
        /\ \A u \in Threads : pc'[u] \in CleanupPcs => FileOf[u] \in closed'
        /\ \A u \in Threads : FileOf[u] \in closed' => pc'[u] \in CleanupPcs \cup {"idle"}
        /\ \A u \in Threads : pc'[u] = "enqueue" => FileOf[u] \in mapped'
    BY <1>2, <1>4, <1>9, <2>1 DEF MInv, ClosedInv, Alone
  <2>3. \A j \in q'.Pending : job'[j].Owner \in mapped' \ closed'
    BY <1>2, <1>3, <1>6, <1>7 DEF MInv, ClosedInv
  <2>4. ASSUME NEW d \in Cores, q'.InFlight[d] # NoJob
        PROVE  /\ Backed(q.InFlight[d])'
               /\ \A u \in Threads : pc'[u] = "freeBuffers"
                                     /\ job'[q'.InFlight[d]].Owner = FileOf[u] =>
                     job'[q'.InFlight[d]].OrphanOnComplete
    <3>1. q.InFlight[d] \in JobId /\ q.InFlight[d] \notin js /\ q.InFlight[d] # NoJob
      BY <1>3, <1>5, <2>4
    <3>2. job'[q.InFlight[d]] = job[q.InFlight[d]]
      BY <1>7, <3>1
    <3> QED BY <1>2, <1>3, <2>1, <3>1, <3>2 DEF MInv, ClosedInv, Backed
  <2> QED BY <2>2, <2>3, <2>4 DEF ClosedInv
<1> QED BY <1>4, <1>11, <1>12, ServesInv

\* The buffers of a closed file go: what is in a slot has been given up.
LEMMA ServesFreeBuffers ==
    ASSUME Sessions, TInv, OInv, MInv, NEW t \in Threads, CleanupFreeBuffers(t)
    PROVE  MInv'
<1> USE AgentFacts, ConstantFacts, QueueFacts, SteadyFacts, SessionFacts, SlotJobs
        DEF Goto, fileVars, ctlVars
<1>1. /\ pc[t] = "freeBuffers" /\ pc' = [pc EXCEPT ![t] = "decide"]
      /\ mapped' = mapped \ {FileOf[t]} /\ FileLockFree(FileOf[t])
      /\ UNCHANGED <<q, job, cur, inited, closed>>
  BY DEF CleanupFreeBuffers
<1>2. Alone(t)
  BY <1>1, AloneFacts
<1>3. \A j \in JobId : job[j].Owner = FileOf[t] => job[j].WaiterPin = 0
  BY <1>1, <1>2, OwnPins DEF WaitPcs
<1>4. /\ "decide" \notin HoldPcs /\ "decide" \notin WaitPcs /\ "decide" \notin SubmitPcs
      /\ "decide" \in CleanupPcs /\ "freeBuffers" \in CleanupPcs
  BY DEF HoldPcs, WaitPcs, SubmitPcs, KickPcs, EndPcs, CleanupPcs
<1>5. cur' = [cur EXCEPT ![t] = cur[t]]
  BY <1>1
<1>6. Serves(t, "decide", cur[t], {})
  BY <1>1, <1>3, <1>4, <1>5 DEF Serves
<1>7. ClosedInv'
  <2>1. pc'[t] = "decide" /\ \A u \in Threads : u # t => pc'[u] = pc[u]
    BY <1>1
  <2>2. FileOf[t] \in closed
    BY <1>1, <1>4 DEF MInv, ClosedInv
  <2>3. /\ mapped' \subseteq inited'
        /\ \A u \in Threads : pc'[u] \in CleanupPcs => FileOf[u] \in closed'
        /\ \A u \in Threads : FileOf[u] \in closed' => pc'[u] \in CleanupPcs \cup {"idle"}
    BY <1>1, <1>4, <2>1, <2>2 DEF MInv, ClosedInv
  <2>4. \A u \in Threads : pc'[u] = "enqueue" => FileOf[u] \in mapped'
    BY <1>1, <2>1 DEF MInv, ClosedInv, FileLockFree
  <2>5. \A j \in q'.Pending : job'[j].Owner \in mapped' \ closed'
    BY <1>1, <2>2 DEF MInv, ClosedInv
  <2>6. ASSUME NEW d \in Cores, q'.InFlight[d] # NoJob
        PROVE  /\ Backed(q.InFlight[d])'
               /\ \A u \in Threads : pc'[u] = "freeBuffers"
                                     /\ job'[q'.InFlight[d]].Owner = FileOf[u] =>
                     job'[q'.InFlight[d]].OrphanOnComplete
    <3>1. job[q.InFlight[d]].Owner = FileOf[t] => job[q.InFlight[d]].OrphanOnComplete
      BY <1>1, <2>6 DEF MInv, ClosedInv
    <3> QED BY <1>1, <2>1, <2>2, <2>6, <3>1 DEF MInv, ClosedInv, Backed
  <2> QED BY <2>3, <2>4, <2>5, <2>6 DEF ClosedInv
<1> QED BY <1>2, <1>6, <1>7, ServesInv

\* A new job: nothing refers to its id yet.
LEMMA SubmitAllocMInv ==
    ASSUME Sessions, TInv, OInv, MInv, NEW t \in Threads, SubmitAlloc(t)
    PROVE  MInv'
<1> USE AgentFacts, ConstantFacts, QueueFacts, SteadyFacts, SessionFacts, SlotJobs
        DEF Goto, fileVars, ctlVars
<1>1. PICK j : j = nextId + 1
  OBVIOUS
<1>2. /\ Idle(t) /\ FileOf[t] \in mapped /\ nextId < MaxJobs
      /\ job' = [job EXCEPT ![j] = NewJob(FileOf[t])]
      /\ cur' = [cur EXCEPT ![t] = j] /\ pc' = [pc EXCEPT ![t] = "enqueue"]
      /\ UNCHANGED <<q, inited, mapped, closed>>
  BY <1>1 DEF SubmitAlloc, MayEnter
<1>3. j \in JobId /\ j > nextId
  <2>1. MaxJobs \in Nat /\ JobId = 1 .. MaxJobs
    BY DEF JobId
  <2> QED BY <1>1, <1>2, <2>1
<1>4. job[j].mem = "none"
  BY <1>3 DEF OInv, IdInv
<1>5. /\ j \notin q.Pending /\ j \notin q.Completed /\ j # q.InFlight[0] /\ j # q.InFlight[1]
      /\ \A u \in Threads : cur[u] # j
  BY <1>3 DEF OInv, IdInv
<1>6. /\ \A k \in JobId : k # j => job'[k] = job[k]
      /\ job'[j].mem = "alloc" /\ job'[j].Owner = FileOf[t] /\ ~job'[j].OrphanOnComplete
      /\ job'[j].WaiterPin = 0
  BY <1>2, <1>3 DEF TInv, TypeOK, NewJob
<1>7. /\ pc'[t] = "enqueue" /\ cur'[t] = j
      /\ \A u \in Threads : u # t => pc'[u] = pc[u] /\ cur'[u] = cur[u]
  BY <1>2
<1>8. Alone(t) /\ pc[t] = "idle" /\ FileOf[t] \notin closed
  BY <1>2, AloneFacts DEF Idle
<1>9. OneBusy'
  BY <1>7, <1>8 DEF MInv, OneBusy, Alone
<1>10. /\ "enqueue" \in HoldPcs /\ "enqueue" \in SubmitPcs /\ "enqueue" \notin WaitPcs
       /\ "enqueue" \notin CleanupPcs /\ "idle" \notin HoldPcs
  BY PcFacts DEF HoldPcs
<1>11. MineInv'
  <2> SUFFICES ASSUME NEW u \in Threads
      PROVE /\ pc'[u] \in HoldPcs => /\ cur'[u] \in JobId /\ job'[cur'[u]].mem = "alloc"
                                     /\ job'[cur'[u]].Owner = FileOf[u]
            /\ pc'[u] \in SubmitPcs => ~job'[cur'[u]].OrphanOnComplete
            /\ pc'[u] \in WaitPcs => job'[cur'[u]].WaiterPin = 1 /\ cur'[u] \in Queued'
    BY DEF MineInv
  <2>1. CASE u = t
    BY <1>3, <1>6, <1>7, <1>10, <2>1
  <2>2. CASE u # t /\ pc[u] \in HoldPcs
    <3>1. cur[u] \in JobId /\ job'[cur[u]] = job[cur[u]] /\ Queued' = Queued
      BY <1>2, <1>5, <1>6, <2>2 DEF MInv, MineInv, Queued
    <3> QED BY <1>7, <2>2, <3>1 DEF MInv, MineInv
  <2>3. CASE u # t /\ pc[u] \notin HoldPcs
    BY <1>7, <2>3, PcFacts
  <2> QED BY <2>1, <2>2, <2>3
<1>12. PinInv'
  <2> SUFFICES ASSUME NEW k \in JobId, job'[k].WaiterPin # 0
               PROVE  \E u \in Threads : pc'[u] \in WaitPcs /\ cur'[u] = k
    BY DEF PinInv
  <2>1. job[k].WaiterPin # 0
    BY <1>6
  <2>2. PICK u \in Threads : pc[u] \in WaitPcs /\ cur[u] = k
    BY <2>1 DEF MInv, PinInv
  <2>3. u # t
    BY <1>8, <2>2, PcFacts
  <2> QED BY <1>7, <2>2, <2>3
<1>13. PlacedInv'
  <2>1. ASSUME NEW k \in JobId, job'[k].mem = "alloc"
        PROVE  Ahead(k)' \/ q'.InFlight[1] = k \/ k \in q'.Completed \/ Taken(k)'
    <3>1. CASE k = j
      BY <1>7, <3>1 DEF Ahead
    <3>2. CASE k # j
      <4>1. \A u \in Threads : pc[u] \in {"enqueue", "take"} => pc'[u] = pc[u] /\ cur'[u] = cur[u]
        BY <1>7, <1>8
      <4>2. Ahead(k) => Ahead(k)'
        BY <1>2, <4>1 DEF Ahead
      <4>3. Taken(k) => Taken(k)'
        BY <4>1 DEF Taken
      <4> QED BY <1>2, <1>6, <2>1, <3>2, <4>2, <4>3 DEF MInv, PlacedInv
    <3> QED BY <3>1, <3>2
  <2>2. ASSUME NEW k \in q'.Completed PROVE job'[k].mem = "alloc" /\ ~Taken(k)'
    <3>1. k \in q.Completed /\ k # j /\ k \in JobId
      BY <1>2, <1>5
    <3> QED BY <1>6, <1>7, <3>1 DEF MInv, PlacedInv, Taken
  <2> QED BY <2>1, <2>2 DEF PlacedInv
<1>14. ClosedInv'
  <2>1. /\ mapped' \subseteq inited'
        /\ \A u \in Threads : pc'[u] \in CleanupPcs => FileOf[u] \in closed'
        /\ \A u \in Threads : FileOf[u] \in closed' => pc'[u] \in CleanupPcs \cup {"idle"}
        /\ \A u \in Threads : pc'[u] = "enqueue" => FileOf[u] \in mapped'
    BY <1>2, <1>7, <1>8, <1>10 DEF MInv, ClosedInv
  <2>2. \A k \in q'.Pending : job'[k].Owner \in mapped' \ closed'
    BY <1>2, <1>5, <1>6 DEF MInv, ClosedInv
  <2>3. ASSUME NEW d \in Cores, q'.InFlight[d] # NoJob
        PROVE  /\ Backed(q.InFlight[d])'
               /\ \A u \in Threads : pc'[u] = "freeBuffers"
                                     /\ job'[q'.InFlight[d]].Owner = FileOf[u] =>
                     job'[q'.InFlight[d]].OrphanOnComplete
    <3>1. q.InFlight[d] \in JobId /\ q.InFlight[d] # j /\ q.InFlight[d] # NoJob
      BY <1>2, <1>5, <2>3
    <3>2. job'[q.InFlight[d]] = job[q.InFlight[d]]
      BY <1>6, <3>1
    <3> QED BY <1>2, <1>7, <3>1, <3>2 DEF MInv, ClosedInv, Backed
  <2> QED BY <2>1, <2>2, <2>3 DEF ClosedInv
<1> QED BY <1>9, <1>11, <1>12, <1>13, <1>14 DEF MInv

-----------------------------------------------------------------------------
(***************************************************************************)
(* Every step.                                                             *)
(***************************************************************************)
LEMMA ThreadStepMInv ==
    ASSUME Sessions, TInv, OInv, MInv, NEW t \in Threads, ThreadStep(t), TInv'
    PROVE  MInv'
<1>1. CASE AllocBuffer(t) \/ FreeBuffer(t) \/ CloseUnused(t)
  BY <1>1, FilesInv
<1>2. CASE SubmitReturn(t) \/ DrainEmpty(t) \/ CleanupDecide(t) \/ CleanupPowerCycle(t)
  BY <1>2, ServesPlain
<1>3. CASE SubmitAlloc(t) \/ CleanupFreeBuffers(t)
  BY <1>3, SubmitAllocMInv, ServesFreeBuffers
<1>4. CASE SubmitBusy(t) \/ WaitTakeFree(t)
  BY <1>4, ServesFree
<1>5. CASE SubmitEnqueue(t)
  <2>1. PICK out : Promoted(t, out)
    BY <1>5, EnqueuePromotes
  <2>2. UNCHANGED <<inited, mapped, closed>>
    BY <1>5 DEF SubmitEnqueue, fileVars
  <2>3. Rehouses
    BY <2>1, <2>2, AgentFacts, PromotedRehouses
  <2> QED BY <2>3, RehousesInv
<1>6. CASE \E j \in JobId : WaitTake(t, j) \/ WaitPin(t, j)
  BY <1>6, ServesWait
<1>7. CASE WaitDone(t) \/ WaitTimeout(t)
  BY <1>7, ServesLeave
<1>8. CASE DrainSweep(t) \/ DrainPin(t)
  BY <1>8, ServesSweep, ServesDrainPin
<1>9. CASE DrainDone(t) \/ DrainTimeout(t)
  BY <1>9, ServesUnpin
<1> QED BY <1>1, <1>2, <1>3, <1>4, <1>5, <1>6, <1>7, <1>8, <1>9 DEF ThreadStep

LEMMA KickStepMInv ==
    ASSUME Sessions, TInv, OInv, MInv, NEW a \in Agents, KickStep(a), TInv'
    PROVE  MInv'
<1>1. CASE ~PeerRollback(a, "notready")
  BY <1>1, KickPassive, PassiveInv
<1>2. CASE PeerRollback(a, "notready")
  <2>1. pc'[a] = "peerFailed"
    BY <1>2, QueueFacts DEF PeerRollback, Goto, TInv, TypeOK
  <2>2. KickPeerCheck(a) \/ KickPeerCall(a)
    BY <2>1 DEF KickStep, KickDone, KickReset, KickFails, KickStart, PeerFailSignal, Goto,
                TInv, TypeOK
  <2> QED BY <1>2, <2>2, RollbackMInv
<1> QED BY <1>1, <1>2

LEMMA SystemStepMInv ==
    ASSUME Sessions, TInv, OInv, MInv, TInv',
           EvtIsr \/ EvtDpc \/ WorkerStep \/ PeerStep \/ PeerDrop \/ PnpStep
    PROVE  MInv'
<1>1. CASE EvtIsr \/ EvtDpc \/ KickWorkerStart \/ KickWorkerExit
  <2>1. "dpc" \in Agents
    BY AgentFacts
  <2> QED BY <1>1, <2>1, AfterPassive, PassiveInv
<1>2. CASE KickWorkerPass
  <2>1. PICK out : Promoted("worker", out)
    BY <1>2, PassPromotes
  <2>2. UNCHANGED <<inited, mapped, closed>>
    BY <1>2 DEF KickWorkerPass, fileVars
  <2>3. Rehouses
    BY <2>1, <2>2, AgentFacts, PromotedRehouses
  <2> QED BY <2>3, RehousesInv
<1>3. CASE PeerCompletion
  <2>1. CASE q' = q
    BY <1>3, <2>1, PeerPassive, PassiveInv
  <2>2. CASE q' # q
    BY <1>3, <2>2, PeerCompletionMInv
  <2> QED BY <2>1, <2>2
<1>4. CASE PeerCompletionSignal \/ PeerDrop \/ PnpStep
  BY <1>4, PeerPassive, PassiveInv
<1> QED BY <1>1, <1>2, <1>3, <1>4 DEF WorkerStep, PeerStep

LEMMA MNext == Sessions /\ TInv /\ OInv /\ MInv /\ [Next]_vars => MInv'
<1> SUFFICES ASSUME Sessions, TInv, OInv, MInv, [Next]_vars PROVE MInv'
  OBVIOUS
<1>0. TInv'
  BY NextTyped
<1>1. CASE UNCHANGED vars
  <2>1. UNCHANGED <<q, job, pc, cur, inited, mapped, closed>>
    BY <1>1 DEF vars, fileVars, ctlVars
  <2>2. Passive
    BY <2>1 DEF Passive, SameJobs, Submitting
  <2> QED BY <2>2, PassiveInv
<1>2. CASE \E t \in Threads : ThreadStep(t)
  BY <1>0, <1>2, ThreadStepMInv
<1>3. ASSUME NEW a \in Agents, CompleteStep(a) PROVE MInv'
  <2>1. CASE JobComplete(a)
    BY <1>0, <2>1, JobCompleteMInv
  <2>2. CASE JobCompleteGate(a) \/ EnqueueKickWorker(a)
    BY <2>2, AfterPassive, PassiveInv
  <2> QED BY <1>3, <2>1, <2>2 DEF CompleteStep
<1>4. CASE \E a \in Agents : KickStep(a) \/ CompleteStep(a)
  BY <1>0, <1>3, <1>4, KickStepMInv
<1>5. CASE EvtIsr \/ EvtDpc \/ WorkerStep \/ PeerStep \/ PeerDrop \/ PnpStep
  BY <1>0, <1>5, SystemStepMInv
<1> QED BY <1>1, <1>2, <1>4, <1>5 DEF Next, Quiescent

LEMMA MemoryInvariant == Sessions => (Spec => [](TInv /\ OInv /\ MInv))
<1> SUFFICES ASSUME Sessions PROVE Spec => [](TInv /\ OInv /\ MInv)
  OBVIOUS
<1>1. Init => TInv /\ OInv /\ MInv
  BY InitTyped, OInit, MInit
<1>2. TInv /\ OInv /\ MInv /\ [Next]_vars => (TInv /\ OInv /\ MInv)'
  BY NextTyped, NextInv, MNext
<1> QED BY <1>1, <1>2, PTL DEF Spec

-----------------------------------------------------------------------------
\* Where a job is: each place excludes the others.
LEMMA Exclusive ==
    ASSUME Sessions, TInv, OInv, MInv, NEW j \in JobId
    PROVE  /\ q.InFlight[0] = j \/ q.InFlight[1] = j \/ j \in q.Pending \/ j \in q.Completed
                \/ (\E t \in Threads : cur[t] = j /\ pc[t] \in {"enqueue", "take"})
              <=> job[j].mem = "alloc"
           /\ ~(q.InFlight[0] = j /\ q.InFlight[1] = j)
           /\ q.InFlight[0] = j \/ q.InFlight[1] = j =>
                  /\ j \notin q.Pending /\ j \notin q.Completed
                  /\ \A t \in Threads : ~(cur[t] = j /\ pc[t] \in {"enqueue", "take"})
           /\ j \in q.Pending =>
                  /\ j \notin q.Completed
                  /\ \A t \in Threads : ~(cur[t] = j /\ pc[t] \in {"enqueue", "take"})
           /\ j \in q.Completed =>
                  \A t \in Threads : ~(cur[t] = j /\ pc[t] \in {"enqueue", "take"})
           /\ \A t, u \in Threads :
                 cur[t] = j /\ pc[t] \in {"enqueue", "take"}
                 /\ cur[u] = j /\ pc[u] \in {"enqueue", "take"} => t = u
<1> USE QueueFacts, SteadyFacts, SessionFacts, ConstantFacts
<1>1. Ahead(j) => ~Over(j) /\ ~Peered(j)
  BY DEF OInv, LiveInv
<1>2. q.InFlight[1] = j => job[j].mem = "alloc" /\ ~Taken(j) /\ ~Over(j)
  <2>1. j # NoJob
    BY DEF JobId, NoJob
  <2> QED BY <2>1, SlotAlive
<1>3. \A t \in Threads : cur[t] = j /\ pc[t] = "enqueue" => Ahead(j)
  BY DEF Ahead
<1>4. \A t \in Threads : cur[t] = j /\ pc[t] = "take" => Taken(j) /\ Over(j)
  BY DEF Taken, Over
<1>5. j \in q.Completed => Over(j) /\ ~Taken(j) /\ job[j].mem = "alloc"
  BY DEF Over, MInv, PlacedInv
<1>6. q.InFlight[0] = j \/ j \in q.Pending => Ahead(j)
  BY DEF Ahead
<1>7. Ahead(j) => job[j].mem = "alloc" /\ q.InFlight[1] # j /\ j \notin q.Completed /\ ~Taken(j)
  BY <1>1 DEF Over, Peered, Taken
<1>8. Taken(j) => job[j].mem = "alloc"
  BY PcFacts DEF Taken, MInv, MineInv
<1>9. job[j].mem = "alloc" => Ahead(j) \/ q.InFlight[1] = j \/ j \in q.Completed \/ Taken(j)
  BY DEF MInv, PlacedInv
<1>10. \A t \in Threads : pc[t] = "enqueue" => cur[t] \notin q.Pending /\ cur[t] # q.InFlight[0]
  BY DEF OInv, LiveInv
<1>11. q.InFlight[0] \notin q.Pending
  BY DEF OInv, LiveInv
<1>12. ASSUME NEW t \in Threads, NEW u \in Threads, cur[t] = j, pc[t] \in {"enqueue", "take"},
              cur[u] = j, pc[u] \in {"enqueue", "take"}
       PROVE  t = u
  <2>1. pc[t] \in HoldPcs /\ pc[u] \in HoldPcs
    BY <1>12, PcFacts
  <2>2. FileOf[t] = FileOf[u]
    BY <1>12, <2>1 DEF MInv, MineInv
  <2> QED BY <1>12, <2>2 DEF MInv, OneBusy
<1>13. /\ Ahead(j) <=> \/ j \in q.Pending \/ q.InFlight[0] = j
                       \/ \E t \in Threads : pc[t] = "enqueue" /\ cur[t] = j
       /\ Taken(j) <=> \E t \in Threads : pc[t] = "take" /\ cur[t] = j
  BY DEF Ahead, Taken
<1>14. (\E t \in Threads : cur[t] = j /\ pc[t] \in {"enqueue", "take"})
          <=> \/ \E t \in Threads : pc[t] = "enqueue" /\ cur[t] = j
              \/ \E t \in Threads : pc[t] = "take" /\ cur[t] = j
  OBVIOUS
<1>15. q.InFlight[0] = j \/ q.InFlight[1] = j \/ j \in q.Pending \/ j \in q.Completed
                \/ (\E t \in Threads : cur[t] = j /\ pc[t] \in {"enqueue", "take"})
              <=> job[j].mem = "alloc"
  BY <1>2, <1>5, <1>7, <1>8, <1>9, <1>13, <1>14
<1>16. \A t \in Threads : cur[t] = j /\ pc[t] \in {"enqueue", "take"} => Ahead(j) \/ Taken(j)
  BY <1>3, <1>4
<1>17. q.InFlight[0] = j \/ q.InFlight[1] = j =>
          /\ j \notin q.Pending /\ j \notin q.Completed
          /\ \A t \in Threads : ~(cur[t] = j /\ pc[t] \in {"enqueue", "take"})
  <2>1. CASE q.InFlight[0] = j
    BY <1>4, <1>6, <1>7, <1>10, <1>11, <2>1
  <2>2. CASE q.InFlight[1] = j
    BY <1>2, <1>5, <1>6, <1>7, <1>16, <2>2
  <2> QED BY <2>1, <2>2
<1>18. j \in q.Pending =>
          /\ j \notin q.Completed
          /\ \A t \in Threads : ~(cur[t] = j /\ pc[t] \in {"enqueue", "take"})
  BY <1>4, <1>6, <1>7, <1>10
<1>19. j \in q.Completed =>
          \A t \in Threads : ~(cur[t] = j /\ pc[t] \in {"enqueue", "take"})
  BY <1>5, <1>7, <1>16
<1>20. ~(q.InFlight[0] = j /\ q.InFlight[1] = j)
  BY <1>6, <1>7
<1> QED BY <1>12, <1>15, <1>17, <1>18, <1>19, <1>20

\* Every allocated job is in exactly one place and every freed one in none
\* (OnePlace): nothing is leaked and nothing is linked twice, in any
\* interleaving of submissions, waits, cleanups, completions and kicks.
THEOREM JobInOnePlace == Sessions => (Spec => []OnePlace)
<1> SUFFICES ASSUME Sessions PROVE Spec => []OnePlace
  OBVIOUS
<1>1. TInv /\ OInv /\ MInv => OnePlace
  <2> SUFFICES ASSUME TInv, OInv, MInv, NEW j \in JobId
      PROVE  Cardinality({c \in Cores : q.InFlight[c] = j})
             + (IF j \in q.Pending THEN 1 ELSE 0) + (IF j \in q.Completed THEN 1 ELSE 0)
             + Cardinality({t \in Threads : cur[t] = j /\ pc[t] \in {"enqueue", "take"}})
             = IF job[j].mem = "alloc" THEN 1 ELSE 0
    BY DEF OnePlace
  <2> USE SteadyFacts, Exclusive
  <2>1. PICK S : S = {c \in Cores : q.InFlight[c] = j}
    OBVIOUS
  <2>2. PICK T : T = {t \in Threads : cur[t] = j /\ pc[t] \in {"enqueue", "take"}}
    OBVIOUS
  <2>3. Cardinality({}) = 0 /\ \A x : Cardinality({x}) = 1
    BY FS_EmptySet, FS_Singleton, Zenon
  <2>4. IF q.InFlight[0] = j \/ q.InFlight[1] = j THEN \E c : S = {c} ELSE S = {}
    <3>1. q.InFlight[0] = j => S = {0}
      BY <2>1
    <3>2. q.InFlight[1] = j => S = {1}
      BY <2>1
    <3>3. q.InFlight[0] # j /\ q.InFlight[1] # j => S = {}
      BY <2>1
    <3> QED BY <3>1, <3>2, <3>3
  <2>5. IF \E t \in Threads : cur[t] = j /\ pc[t] \in {"enqueue", "take"}
        THEN \E t : T = {t} ELSE T = {}
    <3>1. ASSUME NEW t \in Threads, cur[t] = j, pc[t] \in {"enqueue", "take"} PROVE T = {t}
      BY <2>2, <3>1
    <3> QED BY <2>2, <3>1
  <2>6. Cardinality(S) = IF q.InFlight[0] = j \/ q.InFlight[1] = j THEN 1 ELSE 0
    <3>1. CASE q.InFlight[0] = j \/ q.InFlight[1] = j
      <4>1. PICK c : S = {c}
        BY <2>4, <3>1
      <4>2. Cardinality(S) = 1
        BY <2>3, <4>1, Zenon
      <4> QED BY <3>1, <4>2
    <3>2. CASE ~(q.InFlight[0] = j \/ q.InFlight[1] = j)
      <4>1. Cardinality(S) = 0
        BY <2>3, <2>4, <3>2
      <4> QED BY <3>2, <4>1
    <3> QED BY <3>1, <3>2
  <2>7. Cardinality(T) = IF \E t \in Threads : cur[t] = j /\ pc[t] \in {"enqueue", "take"}
                         THEN 1 ELSE 0
    <3>1. CASE \E t \in Threads : cur[t] = j /\ pc[t] \in {"enqueue", "take"}
      <4>1. PICK t : T = {t}
        BY <2>5, <3>1
      <4>2. Cardinality(T) = 1
        BY <2>3, <4>1, Zenon
      <4> QED BY <3>1, <4>2
    <3>2. CASE ~ \E t \in Threads : cur[t] = j /\ pc[t] \in {"enqueue", "take"}
      <4>1. Cardinality(T) = 0
        BY <2>3, <2>5, <3>2
      <4> QED BY <3>2, <4>1
    <3> QED BY <3>1, <3>2
  <2>8. Cardinality(S) + (IF j \in q.Pending THEN 1 ELSE 0)
        + (IF j \in q.Completed THEN 1 ELSE 0) + Cardinality(T)
        = IF job[j].mem = "alloc" THEN 1 ELSE 0
    BY <2>6, <2>7
  <2> QED BY <2>1, <2>2, <2>8
<1> QED BY <1>1, MemoryInvariant, PTL

\* A job that the codec, RVD1 or a kick works on has its buffers, or its
\* file's cleanup has waited for it and given it up (BuffersHeld): such a job
\* is in a slot, where RkMppJobBufferInUse and the drain see it.
THEOREM BuffersStayHeld == Sessions => (Spec => []BuffersHeld)
<1> SUFFICES ASSUME Sessions PROVE Spec => []BuffersHeld
  OBVIOUS
<1>1. TInv /\ OInv /\ MInv => BuffersHeld
  <2> SUFFICES ASSUME TInv, OInv, MInv, NEW j \in JobId, UsesBuffers(j) PROVE Backed(j)
    BY DEF BuffersHeld, Backed
  <2> USE SteadyFacts, SessionFacts, QueueFacts, ConstantFacts
  <2>1. j # NoJob
    BY DEF JobId, NoJob
  <2>2. q.InFlight[0] = j \/ q.InFlight[1] = j
    <3>1. CASE hwJob = j
      BY <2>1, <3>1 DEF OInv, DriveInv
    <3>2. CASE j \in atPeer
      BY <3>2 DEF OInv, PeerInv
    <3>3. ASSUME NEW a \in Agents, pc[a] \in {"kick", "kickStart", "peerCall"},
                 promos[a] # <<>>, Head(promos[a]).job = j
          PROVE  q.InFlight[0] = j \/ q.InFlight[1] = j
      <4>1. promos[a] \in Seq(Promotion) /\ DistinctCores(promos[a])
        BY DEF TInv, TypeOK, OInv, PromoInv
      <4>2. Head(promos[a]) \in Todo(a) /\ Head(promos[a]) \in Promotion
        BY <3>3, <4>1, TailFacts DEF Todo
      <4>3. Head(promos[a]).core \in Cores
        BY <4>2, PromotionFacts
      <4>4. Holds(a, Head(promos[a]))
        BY <3>3, <4>2 DEF Holds
      <4>5. q.InFlight[Head(promos[a]).core] = j
        BY <3>3, <4>2, <4>3, <4>4 DEF OInv, KickInv
      <4> QED BY <4>3, <4>5
    <3> QED BY <3>1, <3>2, <3>3 DEF UsesBuffers
  <2> QED BY <2>1, <2>2 DEF MInv, ClosedInv
<1> QED BY <1>1, MemoryInvariant, PTL

-----------------------------------------------------------------------------
(***************************************************************************)
(* One core.  RkMppPeerCompletion looks neither at the orphan flag nor at  *)
(* the pin and signals a job it no longer holds; what follows is about the *)
(* device that has no peer.                                                *)
(***************************************************************************)
Lone == Sessions /\ "peer" \notin Env

LoneInv ==
    /\ ~q.PeerOpen
    /\ pc["peer"] = "idle"
    /\ \A a \in Agents : pc[a] \notin {"peerCall", "peerFailed"}
    /\ "iommuGone" \notin Env => pc["pnp"] = "idle"

LEMMA LoneFacts ==
    ASSUME Lone, TInv, OInv, LoneInv
    PROVE  /\ Sessions /\ "peer" \notin Env /\ q.InFlight[1] = NoJob /\ atPeer = {}
           /\ \A a \in Agents : \A e \in Todo(a) : e.core = 0 /\ e.job \in JobId /\ Holds(a, e)
           /\ \A a \in Agents : promos[a] # <<>> =>
                 Head(promos[a]) \in Todo(a) /\ Head(promos[a]).core = 0
<1> USE AgentFacts, ConstantFacts, QueueFacts, SteadyFacts, SessionFacts DEF Lone
<1>1. q.InFlight[1] = NoJob
  <2>1. q.CoreCount # 2 /\ q.CoreCount \in 1 .. 2
    BY DEF OInv, SlotInv, LoneInv, QueueType
  <2> QED BY <2>1 DEF OInv, SlotInv
<1>2. atPeer = {}
  <2>1. atPeer \subseteq JobId /\ NoJob \notin JobId
    BY DEF TInv, TypeOK
  <2> QED BY <1>1, <2>1 DEF OInv, PeerInv
<1>3. ASSUME NEW a \in Agents
      PROVE  /\ promos[a] \in Seq(Promotion) /\ DistinctCores(promos[a])
             /\ \A e \in Todo(a) : e.core = 0 /\ e.job \in JobId /\ Holds(a, e)
  <2>1. promos[a] \in Seq(Promotion) /\ DistinctCores(promos[a])
    BY DEF TInv, TypeOK, OInv, PromoInv
  <2>2. \A e \in Todo(a) : e.core \in Cores /\ e.job \in JobId
    BY <2>1, EntriesTyped, PromotionFacts DEF Todo
  <2>3. \A e \in Todo(a) : Holds(a, e)
    BY DEF Holds, LoneInv
  <2>4. \A e \in Todo(a) : q.InFlight[e.core] = e.job
    BY <2>2, <2>3 DEF OInv, KickInv
  <2> QED BY <1>1, <2>1, <2>2, <2>3, <2>4
<1>4. ASSUME NEW a \in Agents, promos[a] # <<>> PROVE Head(promos[a]) \in Todo(a)
  BY <1>3, <1>4, TailFacts DEF Todo
<1> QED BY <1>1, <1>2, <1>3, <1>4

\* Without a peer no step changes PeerOpen, no kick goes to RVD1 and RVD1
\* answers none.
LEMMA LoneThread ==
    ASSUME Lone, TInv, OInv, LoneInv, NEW t \in Threads, ThreadStep(t)
    PROVE  LoneInv'
<1> USE AgentFacts, ConstantFacts, QueueFacts DEF Goto
<1>1. PICK l : pc' = [pc EXCEPT ![t] = l] /\ l \notin {"peerCall", "peerFailed"}
  <2>1. CASE AllocBuffer(t) \/ FreeBuffer(t) \/ CloseUnused(t)
    <3>1. pc' = pc
      BY <2>1 DEF AllocBuffer, FreeBuffer, CloseUnused
    <3> QED BY <3>1 DEF LoneInv
  <2>2. CASE SubmitAlloc(t) \/ SubmitBusy(t) \/ SubmitEnqueue(t) \/ SubmitReturn(t)
    BY <2>2 DEF SubmitAlloc, SubmitBusy, SubmitEnqueue, SubmitReturn
  <2>3. CASE \/ \E j \in JobId : WaitTake(t, j) \/ WaitPin(t, j)
             \/ WaitTakeFree(t) \/ WaitDone(t) \/ WaitTimeout(t)
    BY <2>3 DEF WaitTake, WaitPin, WaitTakeFree, WaitDone, WaitTimeout, WaitLeave
  <2>4. CASE DrainSweep(t) \/ DrainPin(t) \/ DrainEmpty(t) \/ DrainDone(t) \/ DrainTimeout(t)
    BY <2>4 DEF DrainSweep, DrainPin, DrainEmpty, DrainDone, DrainTimeout
  <2>5. CASE CleanupFreeBuffers(t) \/ CleanupDecide(t) \/ CleanupPowerCycle(t)
    BY <2>5 DEF CleanupFreeBuffers, CleanupDecide, CleanupPowerCycle
  <2> QED BY <2>1, <2>2, <2>3, <2>4, <2>5 DEF ThreadStep
<1>2. q'.PeerOpen = q.PeerOpen
  <2>1. CASE SubmitEnqueue(t)
    <3>1. PICK out : Promoted(t, out)
      BY <2>1, EnqueuePromotes
    <3> QED BY <3>1 DEF Promoted, Promotes
  <2>2. CASE \/ \E j \in JobId : WaitTake(t, j) \/ WaitPin(t, j)
             \/ WaitDone(t) \/ WaitTimeout(t)
    BY <2>2, ListFrames DEF WaitTake, WaitPin, WaitDone, WaitTimeout, WaitLeave, SameSlots
  <2>3. CASE DrainSweep(t) \/ DrainDone(t) \/ DrainTimeout(t)
    BY <2>3, ListFrames DEF DrainSweep, DrainDone, DrainTimeout, DrainUnpin, SameSlots
  <2>4. CASE \/ AllocBuffer(t) \/ FreeBuffer(t) \/ CloseUnused(t)
             \/ SubmitAlloc(t) \/ SubmitBusy(t) \/ SubmitReturn(t) \/ WaitTakeFree(t)
             \/ DrainPin(t) \/ DrainEmpty(t)
             \/ CleanupFreeBuffers(t) \/ CleanupDecide(t) \/ CleanupPowerCycle(t)
    BY <2>4 DEF AllocBuffer, FreeBuffer, CloseUnused, SubmitAlloc, SubmitBusy, SubmitReturn,
                WaitTakeFree, DrainPin, DrainEmpty, CleanupFreeBuffers, CleanupDecide,
                CleanupPowerCycle
  <2> QED BY <2>1, <2>2, <2>3, <2>4 DEF ThreadStep
<1> QED BY <1>1, <1>2 DEF LoneInv

LEMMA LoneKick ==
    ASSUME Lone, TInv, OInv, LoneInv, NEW a \in Agents, KickStep(a) \/ CompleteStep(a)
    PROVE  LoneInv' /\ ~KickPeerCheck(a) /\ ~KickPeerCall(a) /\ ~PeerFailSignal(a)
<1> USE AgentFacts, ConstantFacts, QueueFacts, LoneFacts DEF Goto
<1>1. ~KickPeerCheck(a) /\ ~KickPeerCall(a) /\ ~PeerFailSignal(a)
  BY DEF KickPeerCheck, KickPeerCall, PeerFailSignal, LoneInv
<1>2. \/ KickDone(a) \/ KickReset(a) \/ KickStart(a)
      \/ JobComplete(a) \/ JobCompleteGate(a) \/ EnqueueKickWorker(a)
  BY <1>1 DEF KickStep, CompleteStep
<1>3. a \in Threads \cup {"worker", "dpc"}
  <2>1. pc[a] \in KickPcs \cup EndPcs
    BY <1>2 DEF KickDone, KickReset, KickStart, JobComplete, JobCompleteGate,
                EnqueueKickWorker, KickPcs, EndPcs
  <2> QED BY <2>1 DEF LoneInv, OInv, PcInv, KickPcs, EndPcs, PnpPcs, Agents, System
<1>4. PICK l : pc' = [pc EXCEPT ![a] = l] /\ l \notin {"peerCall", "peerFailed"}
  <2>0. Return(a) \notin {"peerCall", "peerFailed"}
    BY DEF Return
  <2>1. CASE JobCompleteGate(a) \/ EnqueueKickWorker(a)
    BY <2>0, <2>1 DEF JobCompleteGate, EnqueueKickWorker
  <2>3. CASE JobComplete(a)
    <3>1. PICK j, m : Released0(a, j, m)
      BY <2>3, CompleteReleases
    <3> QED BY <3>1 DEF Released0
  <2>2. CASE KickDone(a) \/ KickReset(a) \/ KickStart(a)
    BY <2>2 DEF KickDone, KickReset, KickFails, KickStart
  <2> QED BY <1>2, <2>1, <2>2, <2>3
<1>5. q'.PeerOpen = q.PeerOpen
  <2>1. CASE JobComplete(a)
    BY <2>1 DEF JobComplete, ReleaseSlot, QueueType
  <2>2. CASE ~JobComplete(a)
    BY <1>2, <2>2 DEF KickDone, KickReset, KickStart, JobCompleteGate, EnqueueKickWorker,
                      QueueType
  <2> QED BY <2>1, <2>2
<1> QED BY <1>1, <1>3, <1>4, <1>5 DEF LoneInv

LEMMA LoneSystem ==
    ASSUME Lone, TInv, OInv, LoneInv,
           EvtIsr \/ EvtDpc \/ WorkerStep \/ PeerStep \/ PeerDrop \/ PnpStep
    PROVE  LoneInv' /\ ~PeerStep /\ ~PeerDrop
<1> USE AgentFacts, ConstantFacts, QueueFacts, LoneFacts DEF Goto
<1>1. ~PeerStep /\ ~PeerDrop
  BY DEF PeerStep, PeerCompletion, PeerCompletionSignal, PeerDrop, LoneInv
<1>2. CASE EvtIsr \/ EvtDpc
  BY <1>1, <1>2 DEF EvtIsr, EvtDpc, LoneInv
<1>3. CASE KickWorkerStart \/ KickWorkerExit
  BY <1>1, <1>3 DEF KickWorkerStart, KickWorkerExit, LoneInv, QueueType
<1>4. CASE KickWorkerPass
  <2>1. PICK out : Promoted("worker", out)
    BY <1>4, PassPromotes
  <2>2. q'.PeerOpen = q.PeerOpen /\ pc' = [pc EXCEPT !["worker"] = "kick"]
    BY <2>1 DEF Promoted, Promotes
  <2> QED BY <1>1, <2>2 DEF LoneInv
<1>5. CASE PnpStep
  <2>1. q' = q /\ \E l \in PnpPcs \cup {"idle"} : pc' = [pc EXCEPT !["pnp"] = l]
    BY <1>5 DEF PnpStep, PeerArrival, DetachPeer, UnpinnedWaitEnds, MasterIommuQueryRemove,
                QueryRemoveProbe, LoneInv, PnpPcs
  <2>2. "iommuGone" \notin Env => FALSE
    BY <1>5 DEF PnpStep, PeerArrival, DetachPeer, UnpinnedWaitEnds, MasterIommuQueryRemove,
                QueryRemoveProbe, LoneInv
  <2> QED BY <1>1, <2>1, <2>2 DEF LoneInv, PnpPcs
<1> QED BY <1>1, <1>2, <1>3, <1>4, <1>5 DEF WorkerStep

LEMMA LoneNext == Lone /\ TInv /\ OInv /\ LoneInv /\ [Next]_vars => LoneInv'
<1> SUFFICES ASSUME Lone, TInv, OInv, LoneInv, [Next]_vars PROVE LoneInv'
  OBVIOUS
<1>1. CASE UNCHANGED vars
  BY <1>1 DEF vars, LoneInv
<1> QED BY <1>1, LoneThread, LoneKick, LoneSystem DEF Next, Quiescent

LEMMA LoneInvariant == Lone => (Spec => [](TInv /\ OInv /\ MInv /\ LoneInv))
<1> SUFFICES ASSUME Lone PROVE Spec => [](TInv /\ OInv /\ MInv /\ LoneInv)
  OBVIOUS
<1>1. Sessions
  BY DEF Lone
<1>2. Init => TInv /\ OInv /\ MInv /\ LoneInv
  <2>1. Init => LoneInv
    BY AgentFacts DEF Init, LoneInv, RkMppJobQueueInit
  <2> QED BY <2>1, InitTyped, OInit, MInit
<1>3. TInv /\ OInv /\ MInv /\ LoneInv /\ [Next]_vars => (TInv /\ OInv /\ MInv /\ LoneInv)'
  BY <1>1, NextTyped, NextInv, MNext, LoneNext
<1> QED BY <1>2, <1>3, PTL DEF Spec

\* No job is freed while the queue links to it or an agent is about to
\* dereference it (NoUseAfterFree), on a device without a peer whose IOMMU is
\* not taken away: the waits of RkMppDetachPeer and of
\* RkMppOnMasterIommuQueryRemove hold no pin.
THEOREM MemoryIsSafe == Lone /\ "iommuGone" \notin Env => (Spec => []NoUseAfterFree)
<1> SUFFICES ASSUME Lone, "iommuGone" \notin Env PROVE Spec => []NoUseAfterFree
  OBVIOUS
<1>1. TInv /\ OInv /\ MInv /\ LoneInv => NoUseAfterFree
  <2> SUFFICES ASSUME TInv, OInv, MInv, LoneInv PROVE NoUseAfterFree
    OBVIOUS
  <2> USE AgentFacts, ConstantFacts, QueueFacts, SteadyFacts, SessionFacts, LoneFacts
  <2>1. \A c \in Cores : q.InFlight[c] # NoJob => job[q.InFlight[c]].mem = "alloc"
    BY SlotAlive
  <2>2. \A j \in Queued : job[j].mem = "alloc"
    <3>1. \A j \in q.Pending : job[j].mem = "alloc"
      BY DEF OInv, LiveInv, Ahead, Over
    <3>2. \A j \in q.Completed : job[j].mem = "alloc"
      BY DEF MInv, PlacedInv
    <3> QED BY <2>1, <3>1, <3>2 DEF Queued
  <2>3. ASSUME NEW a \in Agents, Derefs(a) # NoJob PROVE job[Derefs(a)].mem = "alloc"
    <3>1. CASE a \in Threads /\ pc[a] \in {"submitted", "waiting", "take", "drainWait"}
      <4>1. pc[a] \in HoldPcs /\ Derefs(a) = cur[a]
        BY <3>1 DEF Derefs, HoldPcs, SubmitPcs, WaitPcs
      <4> QED BY <3>1, <4>1 DEF MInv, MineInv
    <3>2. CASE pc[a] \in {"kick", "kickStart", "peerCall", "peerFailed"} /\ promos[a] # <<>>
      <4>1. Derefs(a) = Head(promos[a]).job
        BY <3>2 DEF Derefs
      <4>2. PICK e : e = Head(promos[a])
        OBVIOUS
      <4>3. e \in Todo(a) /\ e.core = 0 /\ Holds(a, e)
        BY <3>2, <4>2
      <4>4. q.InFlight[0] = e.job
        BY <4>3 DEF OInv, KickInv
      <4> QED BY <2>1, <2>3, <4>1, <4>2, <4>4
    <3>3. a \notin Threads => pc[a] \in {"idle", "loop"} \cup KickPcs \cup EndPcs
      BY DEF OInv, PcInv, LoneInv, Agents, System
    <3>4. a \in Threads => pc[a] \notin SignalPcs \cup PnpPcs
      BY DEF OInv, PcInv
    <3> QED BY <2>3, <3>1, <3>2, <3>3, <3>4 DEF Derefs, KickPcs, EndPcs, SignalPcs, PnpPcs
  <2>4. ~Bugcheck
    BY <2>3 DEF Bugcheck, LoneInv
  <2> QED BY <2>2, <2>4 DEF NoUseAfterFree
<1> QED BY <1>1, LoneInvariant, PTL

-----------------------------------------------------------------------------
(***************************************************************************)
(* Abandoned jobs.                                                         *)
(***************************************************************************)

\* No step leaves an unpinned abandoned job on Completed that was not there.
Reaps ==
    \A j \in q'.Completed : job'[j].OrphanOnComplete /\ job'[j].WaiterPin = 0 =>
        j \in q.Completed /\ job[j].OrphanOnComplete /\ job[j].WaiterPin = 0

OrphanInv == \A j \in q.Completed : ~(job[j].OrphanOnComplete /\ job[j].WaiterPin = 0)

LEMMA ReapsInv == ASSUME OrphanInv, Reaps PROVE OrphanInv'
BY DEF OrphanInv, Reaps

LEMMA PassiveReaps == ASSUME TInv, Passive PROVE Reaps
BY QueueFacts DEF Passive, SameJobs, Reaps

LEMMA PromotedReaps ==
    ASSUME Sessions, TInv, OInv, MInv, NEW a \in Agents, NEW out, Promoted(a, out),
           UNCHANGED <<inited, mapped, closed>>
    PROVE  Reaps
<1>1. Rehouses
  BY PromotedRehouses
<1>2. q'.Completed = q.Completed
  BY DEF Promoted, Promotes
<1> QED BY <1>1, <1>2, QueueFacts DEF Rehouses, SameJobs, Reaps

\* The completion frees an abandoned job unless it is pinned.
LEMMA CompleteReaps ==
    ASSUME Sessions, TInv, OInv, MInv, NEW a \in Agents, JobComplete(a)
    PROVE  Reaps
<1> USE AgentFacts, ConstantFacts, QueueFacts, SteadyFacts
<1>1. PICK j, l : /\ Released0(a, j, l)
                  /\ IF FreeHere(j) THEN job' = Free({j}) /\ q'.Completed = q.Completed
                     ELSE /\ job' = [job EXCEPT ![j].Result = arg[a], ![j].Done = TRUE]
                          /\ q'.Completed = q.Completed \cup {j}
  BY CompleteReleases
<1>2. j \in JobId
  BY <1>1 DEF Released0
<1>3. CASE FreeHere(j)
  BY <1>1, <1>3 DEF Reaps, Free, Freed, NewJob
<1>4. CASE ~FreeHere(j)
  <2>1. job' = [job EXCEPT ![j].Result = arg[a], ![j].Done = TRUE]
    BY <1>1, <1>4
  <2>2. \A k \in JobId : k # j => job'[k] = job[k]
    BY <2>1 DEF TInv, TypeOK
  <2>3. /\ job'[j].OrphanOnComplete = job[j].OrphanOnComplete
        /\ job'[j].WaiterPin = job[j].WaiterPin
    BY <1>2, <2>1 DEF TInv, TypeOK, JobType
  <2> QED BY <1>1, <1>2, <1>4, <2>2, <2>3 DEF Reaps, FreeHere
<1> QED BY <1>3, <1>4

\* A thread that adds no pin and no mark, or frees.
LEMMA PlainReaps ==
    ASSUME Sessions, TInv, OInv, MInv, NEW t \in Threads,
           \/ AllocBuffer(t) \/ FreeBuffer(t) \/ CloseUnused(t)
           \/ SubmitAlloc(t) \/ SubmitBusy(t) \/ SubmitReturn(t) \/ WaitTakeFree(t)
           \/ \E j \in JobId : WaitTake(t, j) \/ WaitPin(t, j)
           \/ DrainSweep(t) \/ DrainPin(t) \/ DrainEmpty(t)
           \/ CleanupFreeBuffers(t) \/ CleanupDecide(t) \/ CleanupPowerCycle(t)
    PROVE  Reaps
<1> USE AgentFacts, ConstantFacts, QueueFacts, SteadyFacts, SessionFacts DEF Goto
<1>1. CASE \/ AllocBuffer(t) \/ FreeBuffer(t) \/ CloseUnused(t) \/ SubmitReturn(t)
           \/ DrainEmpty(t) \/ CleanupFreeBuffers(t) \/ CleanupDecide(t) \/ CleanupPowerCycle(t)
  <2>1. q' = q /\ job' = job
    BY <1>1 DEF AllocBuffer, FreeBuffer, CloseUnused, SubmitReturn, DrainEmpty,
                CleanupFreeBuffers, CleanupDecide, CleanupPowerCycle
  <2> QED BY <2>1 DEF Reaps
<1>2. CASE SubmitBusy(t) \/ WaitTakeFree(t) \/ DrainSweep(t)
  <2>1. PICK js : job' = Free(js) /\ q'.Completed \subseteq q.Completed
    <3>1. CASE DrainSweep(t)
      <4>1. PICK ks : ks = JobsOf(FileOf[t], q.Pending \cup q.Completed)
        OBVIOUS
      <4>2. job' = Free(ks) /\ q' = [RemovePending(q, ks) EXCEPT !.Completed = @ \ ks]
        BY <3>1, <4>1 DEF DrainSweep
      <4>3. q'.Completed = q.Completed \ ks
        BY <4>2, ListFrames
      <4> QED BY <4>2, <4>3
    <3>2. CASE SubmitBusy(t) \/ WaitTakeFree(t)
      BY <3>2 DEF SubmitBusy, WaitTakeFree
    <3> QED BY <1>2, <3>1, <3>2
  <2>2. \A k \in JobId : job'[k] = job[k] \/ ~job'[k].OrphanOnComplete
    BY <2>1 DEF Free, Freed, NewJob
  <2> QED BY <2>1, <2>2 DEF Reaps
<1>3. CASE SubmitAlloc(t)
  <2>1. q' = q /\ job' = [job EXCEPT ![nextId + 1] = NewJob(FileOf[t])]
    BY <1>3 DEF SubmitAlloc
  <2>2. \A k \in JobId : job'[k] = job[k] \/ ~job'[k].OrphanOnComplete
    BY <2>1 DEF NewJob, TInv, TypeOK
  <2> QED BY <2>1, <2>2 DEF Reaps
<1>4. ASSUME NEW j \in JobId, WaitTake(t, j) PROVE Reaps
  BY <1>4, ListFrames DEF WaitTake, Reaps
<1>5. ASSUME NEW j \in JobId, q' = q, job' = [job EXCEPT ![j].WaiterPin = @ + 1],
             j \notin q.Completed
      PROVE  Reaps
  <2>1. \A k \in JobId : k # j => job'[k] = job[k]
    BY <1>5 DEF TInv, TypeOK
  <2> QED BY <1>5, <2>1 DEF Reaps
<1>6. ASSUME NEW j \in JobId, WaitPin(t, j) PROVE Reaps
  <2>1. j \notin q.Completed
    <3>1. VisibleCores(q) \subseteq Cores /\ j # NoJob
      BY DEF VisibleCores
    <3> QED BY <1>6, <3>1, SlotAlive DEF WaitPin, OInv, LiveInv, Ahead, Over
  <2> QED BY <1>5, <1>6, <2>1 DEF WaitPin
<1>7. CASE DrainPin(t)
  <2> DEFINE cs == OwnedCores(FileOf[t])
             d  == CHOOSE c \in cs : \A e \in cs : c <= e
  <2>1. PICK j : j = q.InFlight[d]
    OBVIOUS
  <2>2. d \in cs
    <3>1. cs # {} /\ cs \subseteq Cores
      BY <1>7 DEF DrainPin, OwnedCores, VisibleCores
    <3> QED BY <3>1
  <2>3. j # NoJob /\ j \in JobId /\ j \notin q.Completed
    BY <2>1, <2>2, SlotAlive DEF OwnedCores, VisibleCores, Over
  <2>4. q' = q /\ job' = [job EXCEPT ![j].WaiterPin = @ + 1]
    BY <1>7, <2>1 DEF DrainPin
  <2> QED BY <1>5, <2>3, <2>4
<1> QED BY <1>1, <1>2, <1>3, <1>4, <1>6, <1>7

\* A wait that ends takes the job it can reap off Completed.
LEMMA LeaveReaps ==
    ASSUME Sessions, TInv, OInv, MInv, NEW t \in Threads, WaitDone(t) \/ WaitTimeout(t)
    PROVE  Reaps
<1> USE AgentFacts, ConstantFacts, QueueFacts, SteadyFacts, SessionFacts
<1>1. PICK j : j = cur[t]
  OBVIOUS
<1>2. pc[t] \in WaitPcs /\ pc[t] \in HoldPcs
  BY DEF WaitDone, WaitTimeout, WaitPcs, HoldPcs
<1>3. j \in JobId /\ LastPin(j)
  BY <1>1, <1>2 DEF MInv, MineInv, LastPin
<1>4. PICK js, b : /\ js \in SUBSET {j} /\ WaitLeave(t, js, b)
                   /\ js = {} => j \notin q.Completed
  <2>1. CASE WaitDone(t)
    BY <1>1, <1>3, <2>1 DEF WaitDone
  <2>2. CASE WaitTimeout(t)
    BY <1>1, <1>3, <2>2 DEF WaitTimeout
  <2> QED BY <2>1, <2>2
<1>5. q' = [RemovePending(q, js) EXCEPT !.Completed = @ \ js]
  BY <1>4 DEF WaitLeave
<1>6. q'.Completed = q.Completed \ js
  BY <1>5, ListFrames
<1>7. j \notin q'.Completed
  BY <1>4, <1>6
<1>8. \A k \in JobId : k # j => job'[k] = job[k]
  <2>1. CASE js # {}
    BY <1>1, <1>4, <2>1 DEF WaitLeave, Free
  <2>2. CASE js = {}
    <3>1. job' = [job EXCEPT ![j].WaiterPin = @ - 1, ![j].OrphanOnComplete = @ \/ b]
      BY <1>1, <1>4, <2>2 DEF WaitLeave
    <3> QED BY <3>1 DEF TInv, TypeOK
  <2> QED BY <2>1, <2>2
<1> QED BY <1>6, <1>7, <1>8 DEF Reaps

\* So does the drain, for every job of the file; the jobs it gives up are in
\* slots.
LEMMA UnpinReaps ==
    ASSUME Sessions, TInv, OInv, MInv, NEW t \in Threads, DrainDone(t) \/ DrainTimeout(t)
    PROVE  Reaps
<1> USE AgentFacts, ConstantFacts, QueueFacts, SteadyFacts, SessionFacts
<1>1. PICK b \in BOOLEAN : DrainUnpin(t, b)
  BY DEF DrainDone, DrainTimeout
<1>2. PICK js, ab \in SUBSET JobId : Unpinned(t, b, js, ab)
  BY <1>1, DrainUnpinFacts
<1>3. PICK j : j = cur[t]
  OBVIOUS
<1>4. /\ js = {k \in q.Completed :
                  /\ job[k].Owner = FileOf[t]
                  /\ job[k].WaiterPin - (IF k = j THEN 1 ELSE 0) = 0}
      /\ ab = IF b THEN {q.InFlight[c] : c \in OwnedCores(FileOf[t])} ELSE {}
      /\ pc[t] = "drainWait" /\ q'.Completed = q.Completed \ js
      /\ \A k \in JobId : k \notin js =>
            /\ job'[k].WaiterPin = job[k].WaiterPin - (IF k = j THEN 1 ELSE 0)
            /\ job'[k].OrphanOnComplete = (job[k].OrphanOnComplete \/ k \in ab)
  BY <1>2, <1>3 DEF Unpinned, SameSlots
<1>5. job[j].Owner = FileOf[t] /\ job[j].WaiterPin = 1
  BY <1>3, <1>4 DEF MInv, MineInv, HoldPcs, WaitPcs
<1>6. \A k \in ab : k \notin q.Completed
  <2>1. OwnedCores(FileOf[t]) \subseteq Cores
    BY DEF OwnedCores, VisibleCores
  <2>2. \A c \in OwnedCores(FileOf[t]) : q.InFlight[c] \notin q.Completed
    BY <2>1, SlotAlive DEF OwnedCores, Over
  <2> QED BY <1>4, <2>2
<1>7. ASSUME NEW k \in q'.Completed, job'[k].OrphanOnComplete, job'[k].WaiterPin = 0
      PROVE  k \in q.Completed /\ job[k].OrphanOnComplete /\ job[k].WaiterPin = 0
  <2>1. k \in q.Completed /\ k \notin js /\ k \in JobId /\ k \notin ab
    BY <1>4, <1>6, <1>7
  <2>2. job'[k].OrphanOnComplete = (job[k].OrphanOnComplete \/ k \in ab)
    BY <1>4, <2>1
  <2>3. job[k].OrphanOnComplete
    BY <1>7, <2>1, <2>2
  <2>4. k # j
    BY <1>4, <1>5, <2>1
  <2>5. job'[k].WaiterPin = job[k].WaiterPin - 0
    BY <1>4, <2>1, <2>4
  <2>6. job[k].WaiterPin \in Int
    BY <2>1 DEF TInv, TypeOK, JobType
  <2> QED BY <1>7, <2>1, <2>3, <2>5, <2>6
<1> QED BY <1>7 DEF Reaps

LEMMA NextReaps == Lone /\ TInv /\ OInv /\ MInv /\ LoneInv /\ [Next]_vars => Reaps
<1> SUFFICES ASSUME Lone, TInv, OInv, MInv, LoneInv, [Next]_vars PROVE Reaps
  OBVIOUS
<1> USE AgentFacts
<1>0. Sessions
  BY DEF Lone
<1>1. CASE UNCHANGED vars
  BY <1>1 DEF vars, Reaps
<1>2. ASSUME NEW t \in Threads, ThreadStep(t) PROVE Reaps
  <2>1. CASE SubmitEnqueue(t)
    <3>1. PICK out : Promoted(t, out)
      BY <2>1, EnqueuePromotes
    <3>2. UNCHANGED <<inited, mapped, closed>>
      BY <2>1 DEF SubmitEnqueue, fileVars
    <3> QED BY <1>0, <3>1, <3>2, PromotedReaps
  <2>2. CASE WaitDone(t) \/ WaitTimeout(t) \/ DrainDone(t) \/ DrainTimeout(t)
    BY <1>0, <2>2, LeaveReaps, UnpinReaps
  <2>3. CASE ~(\/ SubmitEnqueue(t) \/ WaitDone(t) \/ WaitTimeout(t)
               \/ DrainDone(t) \/ DrainTimeout(t))
    BY <1>0, <1>2, <2>3, PlainReaps DEF ThreadStep
  <2> QED BY <2>1, <2>2, <2>3
<1>3. ASSUME NEW a \in Agents, KickStep(a) \/ CompleteStep(a) PROVE Reaps
  <2>1. CASE JobComplete(a)
    BY <1>0, <2>1, CompleteReaps
  <2>2. CASE JobCompleteGate(a) \/ EnqueueKickWorker(a)
    BY <2>2, AfterPassive, PassiveReaps
  <2>3. CASE KickStep(a)
    <3>1. KickDone(a) \/ KickReset(a) \/ KickStart(a)
      BY <2>3, LoneKick DEF KickStep
    <3>2. q' = q /\ job' = job
      BY <3>1 DEF KickDone, KickReset, KickStart
    <3> QED BY <3>2 DEF Reaps
  <2> QED BY <1>3, <2>1, <2>2, <2>3 DEF CompleteStep
<1>4. CASE EvtIsr \/ EvtDpc \/ WorkerStep \/ PeerStep \/ PeerDrop \/ PnpStep
  <2>1. EvtIsr \/ EvtDpc \/ WorkerStep \/ PnpStep
    BY <1>4, LoneSystem
  <2>2. CASE EvtIsr \/ EvtDpc \/ KickWorkerStart \/ KickWorkerExit
    <3>1. "dpc" \in Agents
      OBVIOUS
    <3> QED BY <2>2, <3>1, AfterPassive, PassiveReaps
  <2>3. CASE KickWorkerPass
    <3>1. PICK out : Promoted("worker", out)
      BY <2>3, PassPromotes
    <3>2. UNCHANGED <<inited, mapped, closed>>
      BY <2>3 DEF KickWorkerPass, fileVars
    <3> QED BY <1>0, <3>1, <3>2, PromotedReaps
  <2>4. CASE PnpStep
    BY <2>4, PeerPassive, PassiveReaps
  <2> QED BY <2>1, <2>2, <2>3, <2>4 DEF WorkerStep
<1> QED BY <1>1, <1>2, <1>3, <1>4 DEF Next, Quiescent

\* An abandoned job on Completed is pinned by a waiter that will reap it
\* (OrphansReaped): whoever gives a job up, its completion or the waiter who
\* drops the last pin frees it, so none is left where nobody looks.
THEOREM NoOrphanLeft == Lone => (Spec => []OrphansReaped)
<1> SUFFICES ASSUME Lone PROVE Spec => []OrphansReaped
  OBVIOUS
<1>1. Init => OrphanInv
  BY DEF Init, OrphanInv, RkMppJobQueueInit
<1>2. TInv /\ OInv /\ MInv /\ LoneInv /\ OrphanInv /\ [Next]_vars => OrphanInv'
  BY NextReaps, ReapsInv
<1>3. TInv /\ OInv /\ MInv /\ OrphanInv => OrphansReaped
  <2> SUFFICES ASSUME TInv, OInv, MInv, OrphanInv, NEW j \in q.Completed,
                      job[j].OrphanOnComplete
      PROVE  job[j].WaiterPin > 0
    BY DEF OrphansReaped
  <2>1. job[j].WaiterPin # 0 /\ j \in JobId
    BY QueueFacts DEF OrphanInv
  <2>2. PICK t \in Threads : pc[t] \in WaitPcs /\ cur[t] = j
    BY <2>1 DEF MInv, PinInv
  <2>3. job[j].WaiterPin = 1
    BY <2>2 DEF MInv, MineInv
  <2> QED BY <2>3
<1>4. Spec => [](TInv /\ OInv /\ MInv /\ LoneInv)
  BY LoneInvariant
<1> QED BY <1>1, <1>2, <1>3, <1>4, PTL DEF Spec
=============================================================================
