--------------------------- MODULE Av1JobsProofs ---------------------------
(***************************************************************************)
(* The AV1 job engine, for any number of files, jobs and D0 cycles.        *)
(***************************************************************************)
EXTENDS Av1Jobs, TLAPS, WellFoundedInduction

JobRec ==
  [mem : {"alloc"}, Owner : Files, writes : SUBSET Regs, WaiterPin : {0, 1},
   Orphan : BOOLEAN, Done : BOOLEAN, Result : {"unset", "ok", "error"}]

QueueType ==
  [InFlight : JobId \cup {NoJob}, Pending : Seq(JobId), Completed : SUBSET JobId,
   Draining : BOOLEAN, KickRearm : BOOLEAN, KickActive : BOOLEAN]

\* Where a file's thread holds a pin on the job it points to.
Waiting == {"wait", "waitTimeout", "drainWait", "drainEnd"}

FileLabels  == Waiting \cup {"idle", "start", "decide", "others", "freeAll"}
PowerLabels == {"d0", "quiesce", "snapshot", "quiesceWait", "gate", "d3", "off", "resume",
                "promote", "start", "connect"}

QueueInv ==
  /\ q \in QueueType
  /\ job \in [JobId -> {NoRecord, Freed} \cup JobRec]
  /\ nextId \in 0 .. MaxJobs /\ work \in BOOLEAN

HwInv ==
  /\ hw \in [job : JobId \cup {NoJob}, sta : {"none", "ok", "error"}, regs : SUBSET Regs]
  /\ ran \in [JobId -> {"unset", "ok", "error"}]
  /\ irq \in [on : BOOLEAN, dpc : {"none", "ok", "error"}]
  /\ needsReset \in BOOLEAN /\ prevMask \subseteq Regs
  /\ gated \in BOOLEAN /\ failed \in BOOLEAN /\ cycles \in 0 .. MaxCycles
  /\ mapped \subseteq Files /\ closed \subseteq Files /\ errs \in [Files -> BOOLEAN]

CtlInv ==
  /\ pc \in [Agents -> FileLabels \cup PowerLabels \cup {"loop", "enqueue"}]
  /\ cur \in [Agents -> JobId \cup {NoJob}] /\ arg \in [Agents -> BOOLEAN]
  /\ \A f \in Files : pc[f] \in FileLabels
  /\ pc["worker"] \in {"idle", "loop", "start"}
  /\ pc["dpc"] \in {"idle", "enqueue"}
  /\ pc["power"] \in PowerLabels

TypeInv == QueueInv /\ HwInv /\ CtlInv

\* No job is twice on Pending.
Distinct(s) == \A m, n \in 1 .. Len(s) : s[m] = s[n] => m = n

\* An allocated job is in one place: in flight, pending or completed, and
\* there exactly when its Done event is set.  Ids are handed out in order.
PlaceOK(j) ==
  /\ job[j].mem = "alloc" <=> (q.InFlight = j \/ j \in InPending \/ j \in q.Completed)
  /\ q.InFlight = j => j \notin InPending /\ j \notin q.Completed
  /\ j \in InPending => j \notin q.Completed
  /\ job[j].mem = "alloc" => (job[j].Done <=> j \in q.Completed)
  /\ j > nextId => job[j].mem = "none"

PlaceInv == Distinct(q.Pending) /\ \A j \in JobId : PlaceOK(j)

\* A pin belongs to the thread of the owner's file, which waits for the job;
\* a thread that neither waits nor starts points to no job.
PinInv ==
  /\ \A j \in JobId : job[j].mem = "alloc" /\ job[j].WaiterPin # 0
                        => pc[job[j].Owner] \in Waiting /\ cur[job[j].Owner] = j
  /\ \A f \in Files :
       /\ pc[f] \in Waiting => /\ cur[f] # NoJob /\ job[cur[f]].mem = "alloc"
                               /\ job[cur[f]].Owner = f /\ job[cur[f]].WaiterPin = 1
       /\ pc[f] \notin Waiting \cup {"start"} => cur[f] = NoJob

\* The in-flight job is being started by one agent, or is in the codec, or has
\* its status on the way to the DPC, or has been lost by a reset.
CodecInv ==
  /\ \A a \in Agents : pc[a] = "start" => cur[a] = q.InFlight /\ q.InFlight # NoJob
  /\ \A a, b \in Agents : pc[a] = "start" /\ pc[b] = "start" => a = b
  /\ Starting => hw.job = NoJob /\ hw.sta = "none" /\ irq.dpc = "none"
  /\ hw.job # NoJob => hw.job = q.InFlight /\ hw.sta = "none" /\ irq.dpc = "none"
  /\ hw.sta # "none" => q.InFlight # NoJob /\ ran[q.InFlight] = hw.sta /\ irq.dpc = "none"
  /\ irq.dpc # "none" => q.InFlight # NoJob /\ ran[q.InFlight] = irq.dpc

\* The power thread: outside D0 no request is being served and the DPC is
\* quiet, so the in-flight job stays; behind the gate nobody starts one.
PowerInv ==
  /\ pc["power"] # "d0" => /\ \A f \in Files : pc[f] # "start"
                           /\ ~irq.on /\ irq.dpc = "none" /\ pc["dpc"] = "idle"
  /\ pc["power"] \in {"snapshot", "quiesceWait", "gate", "d3", "resume", "off"} => q.Draining
  /\ pc["power"] = "quiesceWait" => cur["power"] = q.InFlight /\ q.InFlight # NoJob
  /\ pc["power"] \notin {"quiesceWait", "start"} => cur["power"] = NoJob
  /\ pc["power"] \in {"gate", "d3", "resume", "off"} => ~Starting
  /\ gated => pc["power"] = "d3"
  /\ pc["worker"] # "start" => cur["worker"] = NoJob
  /\ cur["dpc"] = NoJob

\* An active kick worker is queued or running.
KickInv == q.KickActive => work \/ pc["worker"] \in {"loop", "start"}

IInv == TypeInv /\ PlaceInv /\ PinInv /\ CodecInv /\ PowerInv /\ KickInv /\ ResultIsOwn
          /\ NeverStranded

-----------------------------------------------------------------------------
(***************************************************************************)
(* The Pending list.                                                       *)
(***************************************************************************)

\* A nonempty set of naturals has a least element: the provers' way into
\* induction over the length of a list.
LEMMA LeastNat ==
  ASSUME NEW S \in SUBSET Nat, S # {}
  PROVE  \E x \in S : \A y \in S : x <= y
<1>1. PICK x \in S : \A y \in S : ~ (<<y, x>> \in OpToRel(<, Nat))
  BY NatLessThanWellFounded, WFMin
<1>2. \A y \in S : ~ (y < x)
  BY <1>1 DEF OpToRel
<1> QED BY <1>2

\* One step of the walk that Without stands for.
Walk(s, js, g, i) ==
  IF i = 0 THEN <<>> ELSE IF s[i] \in js THEN g[i - 1] ELSE Append(g[i - 1], s[i])

LEMMA WalkExists ==
  ASSUME NEW s, NEW js, NEW n \in Nat
  PROVE  \E g : g = [i \in 0 .. n |-> Walk(s, js, g, i)]
<1> DEFINE P(k) == \E g : g = [i \in 0 .. k |-> Walk(s, js, g, i)]
           Bad  == {k \in Nat : ~ P(k)}
<1> SUFFICES ASSUME Bad # {} PROVE FALSE
  OBVIOUS
<1>1. PICK k \in Bad : \A l \in Bad : k <= l
  BY LeastNat
<1>2. CASE k = 0
  <2> DEFINE g == [i \in 0 .. 0 |-> <<>>]
  <2>1. g = [i \in 0 .. 0 |-> Walk(s, js, g, i)]
    BY DEF Walk
  <2>2. P(0)
    BY <2>1
  <2> QED BY <1>1, <1>2, <2>2
<1>3. CASE k # 0
  <2>1. k - 1 \in Nat /\ k - 1 \notin Bad /\ k \in Nat
    BY <1>1, <1>3
  <2>2. PICK h : h = [i \in 0 .. k - 1 |-> Walk(s, js, h, i)]
    BY <2>1
  <2> DEFINE g == [i \in 0 .. k |-> IF i = k THEN Walk(s, js, h, k) ELSE h[i]]
  <2>3. \A i \in 0 .. k - 1 : g[i] = h[i]
    BY <2>1
  <2>4. \A i \in 0 .. k : g[i] = Walk(s, js, g, i)
    <3> TAKE i \in 0 .. k
    <3>1. i = 0 \/ i - 1 \in 0 .. k - 1
      BY <2>1
    <3>2. Walk(s, js, g, i) = Walk(s, js, h, i)
      BY <3>1, <2>3 DEF Walk
    <3>3. i # k => i \in 0 .. k - 1
      BY <2>1
    <3>4. i # k => h[i] = Walk(s, js, h, i)
      BY <2>2, <3>3
    <3> QED BY <3>2, <3>4
  <2>5. g = [i \in 0 .. k |-> Walk(s, js, g, i)]
    BY <2>4
  <2>6. P(k)
    BY <2>5
  <2> QED BY <1>1, <2>6
<1> QED BY <1>2, <1>3

\* What is left of a list without the jobs of js.
LEMMA WithoutFacts ==
  ASSUME NEW s \in Seq(JobId), NEW js
  PROVE  /\ Without(s, js) \in Seq(JobId)
         /\ ToSet(Without(s, js)) = ToSet(s) \ js
         /\ Distinct(s) => Distinct(Without(s, js))
<1> DEFINE n == Len(s)
           F == CHOOSE g : g = [i \in 0 .. n |-> Walk(s, js, g, i)]
<1>0. n \in Nat /\ \A i \in 1 .. n : s[i] \in JobId
  OBVIOUS
<1>1. F = [i \in 0 .. n |-> Walk(s, js, F, i)]
  <2>1. \E g : g = [i \in 0 .. n |-> Walk(s, js, g, i)]
    BY <1>0, WalkExists
  <2> QED BY <2>1
<1>2. Without(s, js) = F[n]
  BY DEF Without, Walk
<1> HIDE DEF F, n
<1> DEFINE P(k) == /\ F[k] \in Seq(JobId)
                   /\ \A j : (\E m \in 1 .. Len(F[k]) : F[k][m] = j)
                              <=> j \notin js /\ \E m \in 1 .. k : s[m] = j
                   /\ Distinct(s) => Distinct(F[k])
           Bad == {k \in 0 .. n : ~ P(k)}
<1>3. P(n)
  <2>0. n \in 0 .. n
    BY <1>0
  <2> SUFFICES ASSUME Bad # {} PROVE FALSE
    BY <2>0
  <2>1. PICK k \in Bad : \A l \in Bad : k <= l
    <3>1. Bad \in SUBSET Nat
      BY <1>0
    <3> QED BY <3>1, LeastNat
  <2>2. k \in 0 .. n /\ ~ P(k)
    BY <2>1
  <2>3. CASE k = 0
    <3>1. F[0] = <<>>
      BY <1>0, <1>1 DEF Walk
    <3>2. P(0)
      BY <3>1 DEF Distinct
    <3> QED BY <2>2, <2>3, <3>2
  <2>4. CASE k # 0
    <3>0. k - 1 \in 0 .. n /\ k \in 1 .. n /\ k \in 0 .. n /\ ~ (k <= k - 1)
      BY <1>0, <2>2, <2>4
    <3>1. k - 1 \in 0 .. n /\ k \in 1 .. n /\ k - 1 \notin Bad
      BY <2>1, <3>0
    <3>2. P(k - 1)
      BY <3>1
    <3>w. F[k] = Walk(s, js, F, k)
      BY <1>1, <3>0
    <3>3. F[k] = IF s[k] \in js THEN F[k - 1] ELSE Append(F[k - 1], s[k])
      BY <3>w, <2>4 DEF Walk
    <3>4. \A j : (\E m \in 1 .. k : s[m] = j) <=> s[k] = j \/ \E m \in 1 .. k - 1 : s[m] = j
      BY <3>1
    <3>5. CASE s[k] \in js
      <4>1. F[k] = F[k - 1]
        BY <3>3, <3>5
      <4>2. P(k)
        BY <3>2, <3>4, <3>5, <4>1
      <4> QED BY <2>2, <4>2
    <3>6. CASE s[k] \notin js
      <4> DEFINE t == F[k - 1]
      <4>1. F[k] = Append(t, s[k]) /\ s[k] \in JobId /\ t \in Seq(JobId)
        BY <1>0, <3>1, <3>2, <3>3, <3>6
      <4> HIDE DEF t
      <4>2. /\ F[k] \in Seq(JobId) /\ Len(F[k]) = Len(t) + 1 /\ Len(t) \in Nat
            /\ F[k][Len(t) + 1] = s[k] /\ \A m \in 1 .. Len(t) : F[k][m] = t[m]
        BY <4>1
      <4>r. /\ \A m \in 1 .. Len(F[k]) : m \in 1 .. Len(t) \/ m = Len(t) + 1
            /\ Len(t) + 1 \in 1 .. Len(F[k]) /\ Len(t) + 1 \notin 1 .. Len(t)
            /\ \A m \in 1 .. Len(t) : m \in 1 .. Len(F[k])
        BY <4>2
      <4>3. \A j : (\E m \in 1 .. Len(F[k]) : F[k][m] = j)
                   <=> s[k] = j \/ \E m \in 1 .. Len(t) : t[m] = j
        <5>1. \A m \in 1 .. Len(F[k]) : F[k][m] = s[k] \/ \E i \in 1 .. Len(t) : t[i] = F[k][m]
          BY <4>2, <4>r
        <5>2. \A m \in 1 .. Len(t) : \E i \in 1 .. Len(F[k]) : F[k][i] = t[m]
          BY <4>2, <4>r
        <5>3. \E i \in 1 .. Len(F[k]) : F[k][i] = s[k]
          BY <4>2, <4>r
        <5> QED BY <5>1, <5>2, <5>3
      <4>4. \A j : (\E m \in 1 .. Len(F[k]) : F[k][m] = j)
                   <=> j \notin js /\ \E m \in 1 .. k : s[m] = j
        BY <3>2, <3>4, <3>6, <4>3 DEF t
      <4>5. ASSUME Distinct(s) PROVE Distinct(F[k])
        <5>1. \A m \in 1 .. Len(t) : t[m] # s[k]
          <6> SUFFICES ASSUME NEW m \in 1 .. Len(t), t[m] = s[k] PROVE FALSE
            OBVIOUS
          <6>1. PICK l \in 1 .. k - 1 : s[l] = s[k]
            BY <3>2 DEF t
          <6>2. l \in 1 .. n /\ l # k
            BY <1>0, <3>1
          <6> QED BY <3>1, <4>5, <6>1, <6>2 DEF Distinct, n
        <5>2. Distinct(t)
          BY <3>2, <4>5 DEF t
        <5>3. ASSUME NEW a \in 1 .. Len(F[k]), NEW b \in 1 .. Len(F[k]), F[k][a] = F[k][b]
              PROVE  a = b
          <6>1. CASE a \in 1 .. Len(t) /\ b \in 1 .. Len(t)
            BY <4>2, <5>2, <5>3, <6>1 DEF Distinct
          <6>2. CASE a = Len(t) + 1 /\ b \in 1 .. Len(t)
            BY <4>2, <5>1, <5>3, <6>2
          <6>3. CASE b = Len(t) + 1 /\ a \in 1 .. Len(t)
            BY <4>2, <5>1, <5>3, <6>3
          <6> QED BY <4>r, <6>1, <6>2, <6>3
        <5> QED BY <5>3 DEF Distinct
      <4>6. P(k)
        BY <4>2, <4>4, <4>5
      <4> QED BY <2>2, <4>6
    <3> QED BY <3>5, <3>6
  <2> QED BY <2>3, <2>4
<1>4. ToSet(F[n]) = ToSet(s) \ js
  <2>1. F[n] \in Seq(JobId)
    BY <1>3
  <2>2. \A j : j \in ToSet(F[n]) <=> \E m \in 1 .. Len(F[n]) : F[n][m] = j
    BY <2>1 DEF ToSet
  <2>3. \A j : j \in ToSet(s) <=> \E m \in 1 .. n : s[m] = j
    BY DEF ToSet, n
  <2>4. \A j : j \in ToSet(F[n]) <=> j \in ToSet(s) \ js
    BY <1>3, <2>2, <2>3
  <2> QED BY <2>4
<1> QED BY <1>2, <1>3, <1>4

LEMMA AppendFacts ==
  ASSUME NEW s \in Seq(JobId), NEW j \in JobId
  PROVE  /\ Append(s, j) \in Seq(JobId) /\ Append(s, j) # <<>>
         /\ ToSet(Append(s, j)) = ToSet(s) \cup {j}
         /\ Distinct(s) /\ j \notin ToSet(s) => Distinct(Append(s, j))
<1> DEFINE t == Append(s, j)
<1>1. /\ t \in Seq(JobId) /\ Len(t) = Len(s) + 1 /\ Len(s) \in Nat /\ t # <<>>
      /\ t[Len(s) + 1] = j /\ \A m \in 1 .. Len(s) : t[m] = s[m]
  OBVIOUS
<1> HIDE DEF t
<1>2. ToSet(t) = ToSet(s) \cup {j}
  BY <1>1 DEF ToSet
<1>3. ASSUME Distinct(s), j \notin ToSet(s) PROVE Distinct(t)
  BY <1>1, <1>3 DEF Distinct, ToSet
<1> QED BY <1>1, <1>2, <1>3 DEF t

LEMMA HeadFacts ==
  ASSUME NEW s \in Seq(JobId), s # <<>>, Distinct(s)
  PROVE  /\ Head(s) \in JobId /\ Head(s) \in ToSet(s)
         /\ Tail(s) \in Seq(JobId) /\ Distinct(Tail(s))
         /\ ToSet(Tail(s)) = ToSet(s) \ {Head(s)}
<1> DEFINE t == Tail(s)
<1>1. /\ t \in Seq(JobId) /\ Len(t) = Len(s) - 1 /\ Len(s) \in Nat \ {0}
      /\ Head(s) = s[1] /\ \A m \in 1 .. Len(t) : t[m] = s[m + 1]
  OBVIOUS
<1>2. s[1] \in JobId
  BY <1>1
<1> HIDE DEF t
<1>3. Distinct(t)
  BY <1>1 DEF Distinct
<1>4. ToSet(t) = ToSet(s) \ {s[1]}
  <2>1. ASSUME NEW m \in 1 .. Len(t) PROVE t[m] \in ToSet(s) \ {s[1]}
    <3>1. m + 1 \in 1 .. Len(s) /\ m + 1 # 1 /\ 1 \in 1 .. Len(s)
      BY <1>1
    <3> QED BY <1>1, <3>1 DEF ToSet, Distinct
  <2>2. ASSUME NEW m \in 1 .. Len(s), s[m] # s[1] PROVE s[m] \in ToSet(t)
    <3>1. m - 1 \in 1 .. Len(t) /\ t[m - 1] = s[m]
      BY <1>1, <2>2
    <3> QED BY <1>1, <3>1 DEF ToSet
  <2> QED BY <1>1, <2>1, <2>2 DEF ToSet
<1>5. s[1] \in ToSet(s)
  BY <1>1 DEF ToSet
<1> QED BY <1>1, <1>2, <1>3, <1>4, <1>5 DEF t

\* An empty list holds nothing.
LEMMA EmptyFacts == ToSet(<<>>) = {} /\ \A s \in Seq(JobId) : ToSet(s) = {} => s = <<>>
BY DEF ToSet

-----------------------------------------------------------------------------
(***************************************************************************)
(* Facts the steps share.                                                  *)
(***************************************************************************)

LEMMA Names ==
  /\ "worker" \in Agents /\ "dpc" \in Agents /\ "power" \in Agents
  /\ "worker" \notin Files /\ "dpc" \notin Files /\ "power" \notin Files
  /\ Files \subseteq Agents /\ \A a \in Agents \ {"worker", "dpc", "power"} : a \in Files
  /\ NoJob \notin JobId /\ JobId \subseteq Nat
BY Av1Assumption DEF Agents, NoJob, JobId

\* The parts of a job record that an update leaves and changes.
LEMMA JobFacts ==
  /\ NoRecord.mem = "none" /\ Freed.mem = "freed"
  /\ \A f \in Files, w \in SUBSET Regs :
       /\ NewJob(f, w) \in JobRec /\ NewJob(f, w).Owner = f
       /\ NewJob(f, w).WaiterPin = 0 /\ ~NewJob(f, w).Done
  /\ \A r \in JobRec : r.mem = "alloc" /\ r.Owner \in Files /\ r.writes \subseteq Regs
BY DEF NoRecord, Freed, NewJob, JobRec

LEMMA AllocRec ==
  ASSUME TypeInv, NEW j \in JobId, job[j].mem = "alloc"
  PROVE  job[j] \in JobRec
BY JobFacts DEF TypeInv, QueueInv

LEMMA HwFrame ==
  ASSUME HwInv, UNCHANGED <<hwVars, regVars, pwrVars, fileVars>> PROVE HwInv'
BY DEF HwInv, hwVars, regVars, pwrVars, fileVars

\* Agent a moves to a place of its own.
LEMMA CtlMove ==
  ASSUME CtlInv, NEW a \in Agents, NEW l, pc' = [pc EXCEPT ![a] = l],
         \/ a \in Files /\ l \in FileLabels
         \/ a = "worker" /\ l \in {"idle", "loop", "start"}
         \/ a = "dpc" /\ l \in {"idle", "enqueue"}
         \/ a = "power" /\ l \in PowerLabels,
         \/ UNCHANGED cur
         \/ \E j \in JobId \cup {NoJob} : cur' = [cur EXCEPT ![a] = j],
         \/ UNCHANGED arg
         \/ \E b \in BOOLEAN : arg' = [arg EXCEPT ![a] = b]
  PROVE  CtlInv'
<1> USE Names DEF CtlInv
<1>1. cur' \in [Agents -> JobId \cup {NoJob}]
  OBVIOUS
<1>2. arg' \in [Agents -> BOOLEAN]
  OBVIOUS
<1>3. pc' \in [Agents -> FileLabels \cup PowerLabels \cup {"loop", "enqueue"}]
  BY DEF FileLabels
<1>4. \A f \in Files : pc'[f] \in FileLabels
  OBVIOUS
<1> QED BY <1>1, <1>2, <1>3, <1>4

\* A step that leaves the queue, the jobs, the codec and the agents alone.
LEMMA Idle ==
  ASSUME IInv, TypeInv', UNCHANGED <<q, job, nextId, work, hw, ran, irq, gated, pc, cur>>
  PROVE  IInv'
<1> USE DEF IInv
<1>1. PlaceInv'
  BY DEF PlaceInv, PlaceOK, Distinct, InPending
<1>2. PinInv'
  BY DEF PinInv
<1>3. CodecInv'
  BY DEF CodecInv, Starting
<1>4. PowerInv'
  BY DEF PowerInv, Starting
<1>5. KickInv' /\ ResultIsOwn' /\ NeverStranded'
  BY DEF KickInv, ResultIsOwn, NeverStranded, CanPromote
<1> QED BY <1>1, <1>2, <1>3, <1>4, <1>5

LEMMA AllocBufferInv == ASSUME IInv, NEW f \in Files, AllocBuffer(f) \/ FreeBuffer(f) PROVE IInv'
<1>1. TypeInv'
  BY DEF AllocBuffer, FreeBuffer, IInv, TypeInv, QueueInv, HwInv, CtlInv, qVars, hwVars, regVars,
         pwrVars, ctl
<1> QED BY <1>1, Idle DEF AllocBuffer, FreeBuffer, qVars, hwVars, regVars, pwrVars, ctl

LEMMA HwFinishInv == ASSUME IInv, NEW s \in {"ok", "error"}, HwFinish(s) PROVE IInv'
<1> USE Names DEF IInv, HwFinish, qVars, regVars, pwrVars, fileVars, ctl
<1>1. TypeInv'
  BY DEF TypeInv, QueueInv, HwInv, CtlInv
<1>2. PlaceInv' /\ PinInv'
  BY DEF PlaceInv, PlaceOK, Distinct, InPending, PinInv
<1>3. CodecInv'
  BY DEF CodecInv, Starting, TypeInv, QueueInv, HwInv
<1>4. PowerInv'
  BY DEF PowerInv, Starting
<1>5. KickInv' /\ NeverStranded'
  BY DEF KickInv, NeverStranded, CanPromote
<1>6. ResultIsOwn'
  BY DEF ResultIsOwn, CodecInv, PlaceInv, PlaceOK, TypeInv, QueueInv, HwInv, QueueType
<1> QED BY <1>1, <1>2, <1>3, <1>4, <1>5, <1>6

LEMMA EvtIsrInv == ASSUME IInv, EvtIsr PROVE IInv'
<1> USE Names DEF IInv, EvtIsr, qVars, regVars, pwrVars, fileVars, ctl
<1>1. TypeInv'
  BY DEF TypeInv, QueueInv, HwInv, CtlInv
<1>2. PlaceInv' /\ PinInv'
  BY DEF PlaceInv, PlaceOK, Distinct, InPending, PinInv
<1>3. CodecInv'
  BY DEF CodecInv, Starting, TypeInv, QueueInv, HwInv
<1>4. PowerInv'
  BY DEF PowerInv, Starting, TypeInv, HwInv
<1>5. KickInv' /\ NeverStranded' /\ ResultIsOwn'
  BY DEF KickInv, NeverStranded, CanPromote, ResultIsOwn
<1> QED BY <1>1, <1>2, <1>3, <1>4, <1>5

-----------------------------------------------------------------------------
(***************************************************************************)
(* Promotion and start.                                                    *)
(***************************************************************************)

\* The queue's head moves from Pending to InFlight.
LEMMA PromoteFacts ==
  ASSUME TypeInv, PlaceInv, UNCHANGED <<job, nextId>>, NEW qq \in QueueType,
         qq.InFlight = q.InFlight, qq.Pending = q.Pending, qq.Completed = q.Completed,
         CanPromote(qq), q' = Promoted(qq)
  PROVE  /\ PlaceInv' /\ q' \in QueueType
         /\ q'.InFlight = Head(qq.Pending) /\ q'.InFlight \in JobId
         /\ q'.Completed = q.Completed /\ q'.Draining = qq.Draining
         /\ q'.KickRearm = qq.KickRearm /\ q'.KickActive = qq.KickActive
<1> DEFINE s == qq.Pending
<1>1. s \in Seq(JobId) /\ s # <<>> /\ Distinct(s) /\ s = q.Pending
  BY DEF QueueType, CanPromote, PlaceInv
<1> HIDE DEF s
<1>2. /\ Head(s) \in JobId /\ Head(s) \in ToSet(s) /\ Tail(s) \in Seq(JobId)
      /\ Distinct(Tail(s)) /\ ToSet(Tail(s)) = ToSet(s) \ {Head(s)}
  BY <1>1, HeadFacts
<1>3. /\ q' \in QueueType /\ q'.InFlight = Head(s) /\ q'.Pending = Tail(s)
      /\ q'.Completed = q.Completed /\ q'.Draining = qq.Draining
      /\ q'.KickRearm = qq.KickRearm /\ q'.KickActive = qq.KickActive
  BY <1>2 DEF Promoted, QueueType, s
<1>4. InPending = ToSet(s) /\ InPending' = ToSet(s) \ {Head(s)}
  BY <1>1, <1>2, <1>3 DEF InPending
<1>5. q.InFlight = NoJob
  BY DEF CanPromote
<1>6. \A j \in JobId : PlaceOK(j)'
  BY <1>2, <1>3, <1>4, <1>5, Names DEF PlaceInv, PlaceOK
<1> QED BY <1>1, <1>2, <1>3, <1>6 DEF PlaceInv, s

\* No trace of an earlier job is in the codec when the slot is empty.
LEMMA SlotEmpty ==
  ASSUME IInv, q.InFlight = NoJob
  PROVE  /\ hw.job = NoJob /\ hw.sta = "none" /\ irq.dpc = "none"
         /\ \A a \in Agents : pc[a] # "start"
BY Names DEF IInv, CodecInv, TypeInv, HwInv

LEMMA WorkerBeginInv == ASSUME IInv, KickWorkerBegin PROVE IInv'
<1> USE Names DEF IInv, KickWorkerBegin, Goto, hwVars, regVars, pwrVars, fileVars
<1>1. TypeInv'
  BY DEF TypeInv, QueueInv, HwInv, CtlInv
<1>2. PlaceInv'
  BY DEF PlaceInv, PlaceOK, Distinct, InPending
<1>3. PinInv'
  BY JobFacts, AllocRec DEF PinInv, TypeInv, CtlInv
<1>4. CodecInv'
  BY DEF CodecInv, Starting, TypeInv, CtlInv
<1>5. PowerInv'
  BY DEF PowerInv, Starting, TypeInv, CtlInv
<1>6. KickInv' /\ NeverStranded' /\ ResultIsOwn'
  BY DEF KickInv, NeverStranded, CanPromote, ResultIsOwn, TypeInv, CtlInv
<1> QED BY <1>1, <1>2, <1>3, <1>4, <1>5, <1>6

LEMMA WorkerTurnInv == ASSUME IInv, KickWorkerTurn PROVE IInv'
<1> USE Names DEF IInv, hwVars, regVars, pwrVars, fileVars, GotoWith, Goto
<1> DEFINE qq == [q EXCEPT !.KickRearm = FALSE]
<1>0. /\ pc["worker"] = "loop" /\ cur["worker"] = NoJob
      /\ UNCHANGED <<job, nextId, work, hwVars, regVars, pwrVars, fileVars, arg>>
  BY DEF KickWorkerTurn, PowerInv
<1>f. /\ qq \in QueueType /\ qq.InFlight = q.InFlight /\ qq.Pending = q.Pending
      /\ qq.Completed = q.Completed /\ qq.Draining = q.Draining
      /\ qq.KickActive = q.KickActive /\ qq.KickRearm = FALSE
  BY DEF TypeInv, QueueInv, QueueType
<1>1. CASE q.KickRearm /\ ~q.Draining /\ CanPromote(qq)
  <2>1. q' = Promoted(qq) /\ pc' = [pc EXCEPT !["worker"] = "start"]
        /\ cur' = [cur EXCEPT !["worker"] = Head(qq.Pending)]
    BY <1>1, <1>f DEF KickWorkerTurn
  <2> HIDE DEF qq
  <2>2. /\ PlaceInv' /\ q' \in QueueType
        /\ q'.InFlight = Head(qq.Pending) /\ q'.InFlight \in JobId
        /\ q'.Completed = q.Completed /\ q'.Draining = qq.Draining
        /\ q'.KickRearm = qq.KickRearm /\ q'.KickActive = qq.KickActive
    BY <1>0, <1>1, <1>f, <2>1, PromoteFacts
  <2>3. /\ hw.job = NoJob /\ hw.sta = "none" /\ irq.dpc = "none"
        /\ (\A a \in Agents : pc[a] # "start") /\ q.InFlight = NoJob
    BY <1>1, <1>f, SlotEmpty DEF CanPromote
  <2>4. TypeInv'
    <3>1. CtlInv'
      BY <1>0, <2>1, <2>2, CtlMove DEF TypeInv
    <3> QED BY <1>0, <2>2, <3>1, HwFrame DEF TypeInv, QueueInv
  <2>5. PinInv'
    BY <1>0, <2>1, JobFacts, AllocRec DEF PinInv, TypeInv, CtlInv
  <2>6. CodecInv'
    BY <1>0, <2>1, <2>2, <2>3 DEF CodecInv, TypeInv, CtlInv, HwInv
  <2>7. PowerInv'
    BY <1>0, <1>1, <1>f, <2>1, <2>2, <2>3 DEF PowerInv, Starting, TypeInv, CtlInv
  <2>8. KickInv' /\ NeverStranded' /\ ResultIsOwn'
    BY <1>0, <2>1, <2>2 DEF KickInv, NeverStranded, CanPromote, ResultIsOwn, TypeInv, CtlInv
  <2> QED BY <2>2, <2>4, <2>5, <2>6, <2>7, <2>8
<1>2. CASE q.KickRearm /\ ~(~q.Draining /\ CanPromote(qq))
  <2>1. q' = qq /\ UNCHANGED <<pc, cur>>
    BY <1>2, <1>f DEF KickWorkerTurn
  <2> HIDE DEF qq
  <2>2. TypeInv'
    BY <1>0, <1>f, <2>1 DEF TypeInv, QueueInv, HwInv, CtlInv
  <2>3. PlaceInv' /\ PinInv'
    BY <1>0, <1>f, <2>1 DEF PlaceInv, PlaceOK, Distinct, InPending, PinInv
  <2>4. CodecInv' /\ PowerInv'
    BY <1>0, <1>f, <2>1 DEF CodecInv, PowerInv, Starting
  <2>5. KickInv' /\ NeverStranded' /\ ResultIsOwn'
    BY <1>0, <1>2, <1>f, <2>1 DEF KickInv, NeverStranded, CanPromote, ResultIsOwn
  <2> QED BY <2>2, <2>3, <2>4, <2>5
<1>3. CASE ~q.KickRearm
  <2>1. /\ q' = [q EXCEPT !.KickActive = FALSE] /\ pc' = [pc EXCEPT !["worker"] = "idle"]
        /\ cur' = [cur EXCEPT !["worker"] = NoJob]
    BY <1>3 DEF KickWorkerTurn
  <2>f. /\ q' \in QueueType /\ q'.InFlight = q.InFlight /\ q'.Pending = q.Pending
        /\ q'.Completed = q.Completed /\ q'.Draining = q.Draining
        /\ q'.KickActive = FALSE /\ q'.KickRearm = q.KickRearm
    BY <2>1 DEF TypeInv, QueueInv, QueueType
  <2>2. TypeInv'
    <3>1. CtlInv'
      BY <1>0, <2>1, CtlMove DEF TypeInv
    <3> QED BY <1>0, <2>f, <3>1, HwFrame DEF TypeInv, QueueInv
  <2>3. PlaceInv'
    BY <1>0, <2>f DEF PlaceInv, PlaceOK, Distinct, InPending
  <2>4. PinInv'
    BY <1>0, <2>1, JobFacts, AllocRec DEF PinInv, TypeInv, CtlInv
  <2>5. CodecInv' /\ PowerInv'
    BY <1>0, <2>1, <2>f DEF CodecInv, PowerInv, Starting, TypeInv, CtlInv
  <2>6. KickInv' /\ NeverStranded' /\ ResultIsOwn'
    BY <1>0, <1>3, <2>1, <2>f DEF KickInv, NeverStranded, CanPromote, ResultIsOwn, TypeInv, CtlInv
  <2> QED BY <2>2, <2>3, <2>4, <2>5, <2>6
<1> QED BY <1>1, <1>2, <1>3

LEMMA EnqueueInv == ASSUME IInv, EnqueueKickWorker("dpc", "idle") PROVE IInv'
<1> USE Names DEF IInv, Goto
<1>0. /\ pc["dpc"] = "enqueue" /\ pc' = [pc EXCEPT !["dpc"] = "idle"]
      /\ work' = (work \/ ~q.KickActive) /\ work' \in BOOLEAN
      /\ UNCHANGED <<job, nextId, hwVars, regVars, pwrVars, fileVars, cur, arg>>
  BY DEF EnqueueKickWorker, TypeInv, QueueInv, QueueType
<1>f. /\ q' \in QueueType /\ q'.InFlight = q.InFlight /\ q'.Pending = q.Pending
      /\ q'.Completed = q.Completed /\ q'.Draining = q.Draining
      /\ q'.KickActive /\ q'.KickRearm
  BY DEF EnqueueKickWorker, TypeInv, QueueInv, QueueType
<1>1. TypeInv'
  <2>1. CtlInv'
    BY <1>0, CtlMove DEF TypeInv
  <2> QED BY <1>0, <1>f, <2>1, HwFrame DEF TypeInv, QueueInv
<1>2. PlaceInv'
  BY <1>0, <1>f DEF PlaceInv, PlaceOK, Distinct, InPending
<1>3. PinInv'
  BY <1>0, JobFacts, AllocRec DEF PinInv, TypeInv, CtlInv
<1>4. CodecInv' /\ PowerInv'
  BY <1>0, <1>f DEF CodecInv, PowerInv, Starting, TypeInv, CtlInv, hwVars, pwrVars
<1>5. KickInv' /\ NeverStranded' /\ ResultIsOwn'
  BY <1>0, <1>f DEF KickInv, NeverStranded, CanPromote, ResultIsOwn, TypeInv, CtlInv, hwVars
<1> QED BY <1>1, <1>2, <1>3, <1>4, <1>5

\* RkMppJobStart, whoever calls it.
LEMMA JobStartInv ==
  ASSUME IInv, NEW a \in Agents, NEW next, JobStart(a, next),
         \/ a \in Files /\ next = "idle"
         \/ a = "worker" /\ next = "loop"
         \/ a = "power" /\ next = "connect"
  PROVE  IInv'
<1> USE Names DEF IInv, GotoWith, Goto
<1>0. /\ pc[a] = "start" /\ cur[a] = q.InFlight /\ q.InFlight \in JobId
      /\ pc' = [pc EXCEPT ![a] = next] /\ cur' = [cur EXCEPT ![a] = NoJob]
      /\ UNCHANGED <<q, job, nextId, work, ran, irq, gated, cycles, failed, fileVars, arg>>
      /\ needsReset' = FALSE /\ next # "start"
  BY DEF JobStart, CodecInv, TypeInv, QueueInv, QueueType, qVars, pwrVars
<1>j. job[q.InFlight] \in JobRec
  BY <1>0, AllocRec DEF PlaceInv, PlaceOK
<1>h. /\ hw' \in [job : JobId \cup {NoJob}, sta : {"none", "ok", "error"}, regs : SUBSET Regs]
      /\ hw'.job = q.InFlight /\ hw'.sta = "none" /\ prevMask' \subseteq Regs
  <2>1. job[q.InFlight].writes \subseteq Regs /\ hw.regs \subseteq Regs
    BY <1>j, JobFacts DEF TypeInv, HwInv
  <2>2. DiffWrite(hw.regs, IF needsReset THEN {} ELSE prevMask, job[q.InFlight].writes)
          \subseteq Regs
    BY <2>1 DEF DiffWrite
  <2> QED BY <1>0, <2>1, <2>2 DEF JobStart
<1>s. ~Starting' /\ irq.dpc = "none" /\ hw.job = NoJob
  BY <1>0 DEF Starting, CodecInv, TypeInv, CtlInv
<1>1. TypeInv'
  <2>1. CtlInv'
    BY <1>0, CtlMove DEF TypeInv, FileLabels, PowerLabels
  <2>2. HwInv'
    BY <1>0, <1>h DEF TypeInv, HwInv, fileVars
  <2> QED BY <1>0, <2>1, <2>2 DEF TypeInv, QueueInv
<1>2. PlaceInv'
  BY <1>0 DEF PlaceInv, PlaceOK, Distinct, InPending
<1>3. PinInv'
  <2>1. ASSUME NEW f \in Files, f # a PROVE pc'[f] = pc[f] /\ cur'[f] = cur[f]
    BY <1>0, <2>1 DEF TypeInv, CtlInv
  <2>2. a \in Files => pc'[a] = "idle" /\ cur'[a] = NoJob
    BY <1>0 DEF TypeInv, CtlInv
  <2>3. ASSUME NEW j \in JobId, job[j].mem = "alloc", job[j].WaiterPin # 0
        PROVE  job[j].Owner \in Files /\ job[j].Owner # a
    BY <1>0, <2>3, JobFacts, AllocRec DEF PinInv, Waiting
  <2> QED BY <1>0, <2>1, <2>2, <2>3 DEF PinInv, Waiting
<1>4. CodecInv'
  BY <1>0, <1>h, <1>s DEF CodecInv, Starting
<1>5. PowerInv'
  BY <1>0, <1>s DEF PowerInv, Starting, TypeInv, CtlInv
<1>6. KickInv' /\ NeverStranded' /\ ResultIsOwn'
  BY <1>0 DEF KickInv, NeverStranded, CanPromote, ResultIsOwn, TypeInv, CtlInv
<1> QED BY <1>1, <1>2, <1>3, <1>4, <1>5, <1>6

-----------------------------------------------------------------------------
(***************************************************************************)
(* The power thread.                                                       *)
(***************************************************************************)

\* A power step that moves neither a job nor a list.
LEMMA PowerFrame ==
  ASSUME IInv, NEW l \in PowerLabels \ {"start"}, pc' = [pc EXCEPT !["power"] = l],
         NEW j \in JobId \cup {NoJob}, cur' = [cur EXCEPT !["power"] = j],
         q' \in QueueType, q'.InFlight = q.InFlight, q'.Pending = q.Pending,
         q'.Completed = q.Completed, q'.KickActive = q.KickActive, q'.KickRearm = q.KickRearm,
         ~q'.Draining => l = "promote" \/ (~q.Draining /\ pc["power"] # "promote")
                           \/ ~CanPromote(q),
         UNCHANGED <<job, nextId, work, ran, arg>>, HwInv'
  PROVE  TypeInv' /\ PlaceInv' /\ PinInv' /\ KickInv' /\ NeverStranded' /\ ResultIsOwn'
<1> USE Names DEF IInv
<1>1. TypeInv'
  <2>1. CtlInv'
    BY CtlMove DEF TypeInv
  <2> QED BY <2>1 DEF TypeInv, QueueInv
<1>2. PlaceInv'
  BY DEF PlaceInv, PlaceOK, Distinct, InPending
<1>3. PinInv'
  BY JobFacts, AllocRec DEF PinInv, TypeInv, CtlInv
<1>4. KickInv' /\ ResultIsOwn'
  BY DEF KickInv, ResultIsOwn, TypeInv, CtlInv
<1>5. NeverStranded'
  BY DEF NeverStranded, CanPromote, TypeInv, CtlInv
<1> QED BY <1>1, <1>2, <1>3, <1>4, <1>5

LEMMA PowerDownInv ==
  ASSUME IInv, D0ExitBegin \/ QuiesceFlag \/ QuiesceSnapshot \/ QuiesceWait \/ D0ExitGate
  PROVE  IInv'
<1> USE Names DEF IInv, GotoWith, Goto, qVars, hwVars, regVars, pwrVars, fileVars
<1>t. /\ q \in QueueType /\ cur["power"] \in JobId \cup {NoJob} /\ q.InFlight \in JobId \cup {NoJob}
      /\ cur = [cur EXCEPT !["power"] = cur["power"]]
  BY DEF TypeInv, QueueInv, QueueType, CtlInv
<1>1. CASE D0ExitBegin
  <2>1. HwInv'
    <3>1. cycles' \in 0 .. MaxCycles
      BY <1>1, Av1Assumption DEF D0ExitBegin, TypeInv, HwInv
    <3>2. irq' \in [on : BOOLEAN, dpc : {"none", "ok", "error"}]
      BY <1>1 DEF D0ExitBegin, TypeInv, HwInv
    <3> QED BY <1>1, <3>1, <3>2 DEF D0ExitBegin, TypeInv, HwInv
  <2>2. TypeInv' /\ PlaceInv' /\ PinInv' /\ KickInv' /\ NeverStranded' /\ ResultIsOwn'
    BY <1>1, <1>t, <2>1, PowerFrame DEF D0ExitBegin, PowerLabels
  <2>3. CodecInv'
    BY <1>1 DEF D0ExitBegin, CodecInv, Starting, TypeInv, CtlInv, HwInv
  <2>4. PowerInv'
    BY <1>1 DEF D0ExitBegin, PowerInv, Starting, TypeInv, CtlInv, HwInv
  <2> QED BY <2>2, <2>3, <2>4
<1>2. CASE QuiesceFlag
  <2>f. /\ q' \in QueueType /\ q'.InFlight = q.InFlight /\ q'.Pending = q.Pending
        /\ q'.Completed = q.Completed /\ q'.KickActive = q.KickActive
        /\ q'.KickRearm = q.KickRearm /\ q'.Draining
    BY <1>2, <1>t DEF QuiesceFlag, QueueType
  <2>1. HwInv'
    BY <1>2, HwFrame DEF QuiesceFlag, TypeInv
  <2>2. TypeInv' /\ PlaceInv' /\ PinInv' /\ KickInv' /\ NeverStranded' /\ ResultIsOwn'
    BY <1>2, <1>t, <2>1, <2>f, PowerFrame DEF QuiesceFlag, PowerLabels
  <2>3. CodecInv' /\ PowerInv'
    BY <1>2, <2>f DEF QuiesceFlag, CodecInv, PowerInv, Starting, TypeInv, CtlInv
  <2> QED BY <2>2, <2>3
<1>3. CASE QuiesceSnapshot
  <2>1. HwInv'
    BY <1>3, HwFrame DEF QuiesceSnapshot, TypeInv
  <2>2. TypeInv' /\ PlaceInv' /\ PinInv' /\ KickInv' /\ NeverStranded' /\ ResultIsOwn'
    BY <1>3, <1>t, <2>1, PowerFrame DEF QuiesceSnapshot, PowerLabels, PowerInv
  <2>3. CodecInv' /\ PowerInv'
    BY <1>3, <1>t DEF QuiesceSnapshot, CodecInv, PowerInv, Starting, TypeInv, CtlInv
  <2> QED BY <2>2, <2>3
<1>4. CASE QuiesceWait
  <2>1. HwInv'
    BY <1>4, HwFrame DEF QuiesceWait, TypeInv
  <2>2. TypeInv' /\ PlaceInv' /\ PinInv' /\ KickInv' /\ NeverStranded' /\ ResultIsOwn'
    BY <1>4, <1>t, <2>1, PowerFrame DEF QuiesceWait, PowerLabels, PowerInv
  <2>3. ~Starting
    <3>1. cur["power"] = q.InFlight /\ q.InFlight \in JobId
      BY <1>4, <1>t DEF QuiesceWait, PowerInv
    <3>2. job[q.InFlight].mem = "alloc" /\ ~job[q.InFlight].Done
      BY <3>1, AllocRec DEF PlaceInv, PlaceOK, JobRec
    <3> QED BY <1>4, <3>1, <3>2 DEF QuiesceWait, OutOfTime
  <2>4. CodecInv' /\ PowerInv'
    BY <1>4, <2>3 DEF QuiesceWait, CodecInv, PowerInv, Starting, TypeInv, CtlInv
  <2> QED BY <2>2, <2>4
<1>5. CASE D0ExitGate
  <2>h. hw' = hw \/ hw' = [hw EXCEPT !.job = NoJob]
    BY <1>5 DEF D0ExitGate
  <2>1. HwInv'
    BY <1>5, <2>h DEF D0ExitGate, TypeInv, HwInv
  <2>2. TypeInv' /\ PlaceInv' /\ PinInv' /\ KickInv' /\ NeverStranded' /\ ResultIsOwn'
    BY <1>5, <1>t, <2>1, PowerFrame DEF D0ExitGate, PowerLabels, PowerInv
  <2>3. CodecInv'
    BY <1>5, <2>h DEF D0ExitGate, CodecInv, PowerInv, Starting, TypeInv, CtlInv, HwInv
  <2>4. PowerInv'
    BY <1>5 DEF D0ExitGate, PowerInv, Starting, TypeInv, CtlInv
  <2> QED BY <2>2, <2>3, <2>4
<1> QED BY <1>1, <1>2, <1>3, <1>4, <1>5

LEMMA PowerUpInv ==
  ASSUME IInv, D0EntryUngate \/ ResumeFlag \/ ResumePromote \/ D0Connect
  PROVE  IInv'
<1> USE Names DEF IInv, GotoWith, Goto, qVars, hwVars, regVars, pwrVars, fileVars
<1>t. /\ q \in QueueType /\ cur["power"] \in JobId \cup {NoJob} /\ q.InFlight \in JobId \cup {NoJob}
      /\ cur = [cur EXCEPT !["power"] = cur["power"]]
  BY DEF TypeInv, QueueInv, QueueType, CtlInv
<1>1. CASE D0EntryUngate
  <2>1. HwInv'
    BY <1>1 DEF D0EntryUngate, TypeInv, HwInv
  <2>2. TypeInv' /\ PlaceInv' /\ PinInv' /\ KickInv' /\ NeverStranded' /\ ResultIsOwn'
    BY <1>1, <1>t, <2>1, PowerFrame DEF D0EntryUngate, PowerLabels, PowerInv
  <2>3. CodecInv' /\ PowerInv'
    BY <1>1 DEF D0EntryUngate, CodecInv, PowerInv, Starting, TypeInv, CtlInv
  <2> QED BY <2>2, <2>3
<1>2. CASE ResumeFlag
  <2>f. /\ q' \in QueueType /\ q'.InFlight = q.InFlight /\ q'.Pending = q.Pending
        /\ q'.Completed = q.Completed /\ q'.KickActive = q.KickActive
        /\ q'.KickRearm = q.KickRearm
    BY <1>2, <1>t DEF ResumeFlag, QueueType
  <2>1. HwInv'
    BY <1>2, HwFrame DEF ResumeFlag, TypeInv
  <2>2. TypeInv' /\ PlaceInv' /\ PinInv' /\ KickInv' /\ NeverStranded' /\ ResultIsOwn'
    BY <1>2, <1>t, <2>1, <2>f, PowerFrame DEF ResumeFlag, PowerLabels
  <2>3. CodecInv' /\ PowerInv'
    BY <1>2, <2>f DEF ResumeFlag, CodecInv, PowerInv, Starting, TypeInv, CtlInv
  <2> QED BY <2>2, <2>3
<1>3. CASE D0Connect
  <2>1. HwInv'
    BY <1>3 DEF D0Connect, TypeInv, HwInv
  <2>2. TypeInv' /\ PlaceInv' /\ PinInv' /\ KickInv' /\ NeverStranded' /\ ResultIsOwn'
    BY <1>3, <1>t, <2>1, PowerFrame DEF D0Connect, PowerLabels
  <2>3. CodecInv' /\ PowerInv'
    BY <1>3 DEF D0Connect, CodecInv, PowerInv, Starting, TypeInv, CtlInv, HwInv
  <2> QED BY <2>2, <2>3
<1>4. CASE ResumePromote /\ ~CanPromote(q)
  <2>1. HwInv'
    BY <1>4, HwFrame DEF ResumePromote, TypeInv
  <2>2. TypeInv' /\ PlaceInv' /\ PinInv' /\ KickInv' /\ NeverStranded' /\ ResultIsOwn'
    BY <1>4, <1>t, <2>1, PowerFrame DEF ResumePromote, PowerLabels
  <2>3. CodecInv' /\ PowerInv'
    BY <1>4 DEF ResumePromote, CodecInv, PowerInv, Starting, TypeInv, CtlInv
  <2> QED BY <2>2, <2>3
<1>5. CASE ResumePromote /\ CanPromote(q)
  <2>0. UNCHANGED <<job, nextId, work, hwVars, regVars, pwrVars, fileVars, arg>>
    BY <1>5 DEF ResumePromote
  <2>1. /\ pc["power"] = "promote" /\ q' = Promoted(q) /\ pc' = [pc EXCEPT !["power"] = "start"]
        /\ cur' = [cur EXCEPT !["power"] = Head(q.Pending)]
    BY <1>5 DEF ResumePromote
  <2>2. /\ PlaceInv' /\ q' \in QueueType
        /\ q'.InFlight = Head(q.Pending) /\ q'.InFlight \in JobId
        /\ q'.Completed = q.Completed /\ q'.Draining = q.Draining
        /\ q'.KickRearm = q.KickRearm /\ q'.KickActive = q.KickActive
    BY <1>5, <1>t, <2>0, <2>1, PromoteFacts
  <2>3. /\ hw.job = NoJob /\ hw.sta = "none" /\ irq.dpc = "none"
        /\ (\A a \in Agents : pc[a] # "start") /\ q.InFlight = NoJob
    BY <1>5, SlotEmpty DEF CanPromote
  <2>4. TypeInv'
    <3>1. CtlInv'
      BY <2>0, <2>1, <2>2, CtlMove DEF TypeInv, PowerLabels
    <3> QED BY <2>0, <2>2, <3>1, HwFrame DEF TypeInv, QueueInv
  <2>5. PinInv'
    BY <2>0, <2>1, JobFacts, AllocRec DEF PinInv, TypeInv, CtlInv
  <2>6. CodecInv'
    BY <2>0, <2>1, <2>2, <2>3 DEF CodecInv, TypeInv, CtlInv, HwInv
  <2>7. PowerInv'
    BY <2>0, <2>1, <2>2, <2>3 DEF PowerInv, Starting, TypeInv, CtlInv
  <2>8. KickInv' /\ NeverStranded' /\ ResultIsOwn'
    BY <2>0, <2>1, <2>2 DEF KickInv, NeverStranded, CanPromote, ResultIsOwn, TypeInv, CtlInv
  <2> QED BY <2>2, <2>4, <2>5, <2>6, <2>7, <2>8
<1> QED BY <1>1, <1>2, <1>3, <1>4, <1>5

-----------------------------------------------------------------------------
(***************************************************************************)
(* Completion and submission.                                              *)
(***************************************************************************)

LEMMA EvtDpcInv == ASSUME IInv, EvtDpc PROVE IInv'
<1> USE Names DEF IInv
<1>s. PICK s \in {"ok", "error"} : s = irq.dpc
  BY DEF EvtDpc, TypeInv, HwInv
<1>0. /\ pc["dpc"] = "idle" /\ irq' = [irq EXCEPT !.dpc = "none"]
      /\ UNCHANGED <<nextId, work, hw, ran, prevMask, pwrVars, mapped, closed, cur, arg>>
  BY DEF EvtDpc
<1>i. irq'.on = irq.on /\ irq'.dpc = "none" /\ irq' \in [on : BOOLEAN, dpc : {"none", "ok", "error"}]
  BY <1>0 DEF TypeInv, HwInv
<1>y. PICK j \in JobId : j = q.InFlight
  BY <1>s DEF CodecInv, TypeInv, QueueInv, QueueType
<1>1. /\ ran[j] = s /\ hw.job = NoJob /\ hw.sta = "none" /\ ~Starting /\ pc["power"] = "d0"
  BY <1>s, <1>y DEF CodecInv, PowerInv, TypeInv, HwInv
<1>2. /\ Completing(j, s) /\ needsReset' = (needsReset \/ s = "error")
      /\ errs' = [errs EXCEPT ![job[j].Owner] = @ \/ s = "error"]
      /\ Goto("dpc", IF ~q.Draining /\ q.Pending # <<>> THEN "enqueue" ELSE "idle")
  BY <1>s, <1>y DEF EvtDpc
<1>3. /\ job[j] \in JobRec /\ j \notin InPending /\ j \notin q.Completed
  BY <1>y, AllocRec DEF PlaceInv, PlaceOK
<1>q. /\ q' \in QueueType /\ q'.InFlight = NoJob /\ q'.Pending = q.Pending
      /\ q'.Completed = (IF FreeHere(j) THEN q.Completed ELSE q.Completed \cup {j})
      /\ q'.Draining = q.Draining /\ q'.KickRearm = q.KickRearm /\ q'.KickActive = q.KickActive
  BY <1>2 DEF Completing, TypeInv, QueueInv, QueueType
<1>e. PICK d : d = [job[j] EXCEPT !.Done = TRUE, !.Result = s]
  OBVIOUS
<1>d. /\ d \in JobRec /\ d.mem = "alloc" /\ d.Owner = job[j].Owner /\ d.WaiterPin = job[j].WaiterPin
      /\ d.Done = TRUE /\ d.Result = s
  BY <1>e, <1>3 DEF JobRec
<1>j. /\ job' \in [JobId -> {NoRecord, Freed} \cup JobRec]
      /\ \A k \in JobId \ {j} : job'[k] = job[k]
      /\ job'[j] = IF FreeHere(j) THEN Freed ELSE d
  <2>1. CASE FreeHere(j)
    BY <1>1, <1>2, <2>1 DEF Completing, Free, TypeInv, QueueInv
  <2>2. CASE ~FreeHere(j)
    <3>1. job' = [job EXCEPT ![j] = d]
      BY <1>e, <1>2, <2>2 DEF Completing, TypeInv, QueueInv
    <3> QED BY <1>1, <1>d, <2>2, <3>1 DEF TypeInv, QueueInv
  <2> QED BY <2>1, <2>2
<1>m. /\ ~FreeHere(j) => job'[j] = d
      /\ FreeHere(j) => job'[j].mem = "freed"
  BY <1>j, JobFacts
<1>p. /\ pc' = [pc EXCEPT !["dpc"] = IF ~q.Draining /\ q.Pending # <<>> THEN "enqueue" ELSE "idle"]
  BY <1>2 DEF Goto
<1>c. pc'["dpc"] = (IF ~q.Draining /\ q.Pending # <<>> THEN "enqueue" ELSE "idle")
      /\ \A a \in Agents \ {"dpc"} : pc'[a] = pc[a]
  BY <1>p DEF TypeInv, CtlInv
<1>4. TypeInv'
  <2>1. CtlInv'
    BY <1>0, <1>p, CtlMove DEF TypeInv
  <2>2. errs' \in [Files -> BOOLEAN]
    BY <1>2, <1>3, JobFacts DEF TypeInv, HwInv
  <2>3. HwInv'
    BY <1>0, <1>2, <1>i, <2>2 DEF TypeInv, HwInv, pwrVars
  <2> QED BY <1>0, <1>q, <1>j, <2>1, <2>3 DEF TypeInv, QueueInv
<1>5. PlaceInv'
  <2>1. InPending' = InPending /\ Distinct(q'.Pending)
    BY <1>q DEF InPending, PlaceInv
  <2>2. PlaceOK(j)'
    <3>1. job[j].mem = "alloc" /\ ~(j > nextId) /\ nextId' = nextId
      BY <1>0, <1>1, <1>3, JobFacts DEF PlaceInv, PlaceOK
    <3>2. CASE FreeHere(j)
      BY <1>1, <1>3, <1>q, <1>m, <2>1, <3>1, <3>2 DEF PlaceOK
    <3>3. CASE ~FreeHere(j)
      BY <1>1, <1>3, <1>q, <1>m, <1>d, <2>1, <3>1, <3>3 DEF PlaceOK
    <3> QED BY <3>2, <3>3
  <2>3. ASSUME NEW k \in JobId \ {j} PROVE PlaceOK(k)'
    <3>1. PlaceOK(k) /\ job'[k] = job[k] /\ nextId' = nextId
      BY <1>0, <1>j, <2>3 DEF PlaceInv
    <3>2. q'.InFlight # k /\ q.InFlight # k /\ (k \in q'.Completed <=> k \in q.Completed)
      BY <1>y, <1>q, <2>3
    <3> QED BY <2>1, <3>1, <3>2 DEF PlaceOK
  <2>4. \A k \in JobId : PlaceOK(k)'
    BY <2>2, <2>3
  <2> QED BY <2>1, <2>4 DEF PlaceInv
<1>6. PinInv'
  <2>1. ASSUME NEW f \in Files PROVE pc'[f] = pc[f] /\ cur'[f] = cur[f]
    BY <1>0, <1>c
  <2>2. ASSUME NEW k \in JobId, job'[k].mem = "alloc"
        PROVE  /\ job[k].mem = "alloc" /\ job'[k].Owner = job[k].Owner
               /\ job'[k].WaiterPin = job[k].WaiterPin /\ job[k].Owner \in Files
    BY <1>3, <1>j, <1>m, <1>d, <2>2, JobFacts, AllocRec
  <2>3. ASSUME NEW k \in JobId, job[k].mem = "alloc", job[k].WaiterPin = 1 PROVE job'[k].mem = "alloc"
    BY <1>j, <1>m, <1>d, <2>3 DEF FreeHere
  <2>4. ASSUME NEW f \in Files, pc[f] \in Waiting
        PROVE  /\ cur[f] # NoJob /\ job'[cur[f]].mem = "alloc"
               /\ job'[cur[f]].Owner = f /\ job'[cur[f]].WaiterPin = 1
    <3>1. /\ cur[f] \in JobId /\ job[cur[f]].mem = "alloc"
          /\ job[cur[f]].Owner = f /\ job[cur[f]].WaiterPin = 1
      BY <2>4 DEF PinInv, TypeInv, CtlInv
    <3> QED BY <2>2, <2>3, <3>1
  <2>5. ASSUME NEW k \in JobId, job'[k].mem = "alloc", job'[k].WaiterPin # 0
        PROVE  pc'[job'[k].Owner] \in Waiting /\ cur'[job'[k].Owner] = k
    <3>1. pc[job[k].Owner] \in Waiting /\ cur[job[k].Owner] = k
      BY <2>2, <2>5 DEF PinInv
    <3> QED BY <2>1, <2>2, <2>5, <3>1
  <2>6. ASSUME NEW f \in Files, pc'[f] \notin Waiting \cup {"start"} PROVE cur'[f] = NoJob
    BY <2>1, <2>6 DEF PinInv
  <2>7. ASSUME NEW f \in Files, pc'[f] \in Waiting
        PROVE  /\ cur'[f] # NoJob /\ job'[cur'[f]].mem = "alloc"
               /\ job'[cur'[f]].Owner = f /\ job'[cur'[f]].WaiterPin = 1
    BY <2>1, <2>4, <2>7
  <2> QED BY <2>5, <2>6, <2>7 DEF PinInv
<1>7. CodecInv'
  BY <1>0, <1>1, <1>i, <1>c DEF CodecInv, Starting, TypeInv, HwInv
<1>8. PowerInv'
  BY <1>0, <1>1, <1>c, <1>i, <1>q DEF PowerInv, Starting, pwrVars
<1>9. KickInv' /\ NeverStranded'
  BY <1>0, <1>c, <1>q DEF KickInv, NeverStranded, CanPromote
<1>10. ResultIsOwn'
  <2> SUFFICES ASSUME NEW k \in q'.Completed PROVE job'[k].Result = ran[k]
    BY <1>0 DEF ResultIsOwn
  <2>1. CASE k = j
    BY <1>1, <1>3, <1>q, <1>m, <1>d, <2>1
  <2>2. CASE k # j
    <3>1. k \in q.Completed /\ k \in JobId
      BY <1>q, <2>2 DEF TypeInv, QueueInv, QueueType
    <3>2. job'[k].Result = job[k].Result
      BY <1>j, <2>2, <3>1
    <3> QED BY <3>1, <3>2 DEF ResultIsOwn
  <2> QED BY <2>1, <2>2
<1> QED BY <1>4, <1>5, <1>6, <1>7, <1>8, <1>9, <1>10

-----------------------------------------------------------------------------
(***************************************************************************)
(* The file threads.                                                       *)
(***************************************************************************)

\* The jobs that a step of file f's thread frees and those it leaves: of the
\* latter it may write the pin and the orphan mark, the pin of f's own only.
FreedExactly(f, gone) ==
  /\ job' \in [JobId -> {NoRecord, Freed} \cup JobRec]
  /\ \A k \in JobId :
       /\ k \in gone => job'[k].mem = "freed"
       /\ k \notin gone =>
            /\ job'[k].mem = job[k].mem
            /\ job[k].mem = "alloc" =>
                 /\ job'[k].Owner = job[k].Owner /\ job'[k].Done = job[k].Done
                 /\ job'[k].Result = job[k].Result
                 /\ job[k].Owner # f => job'[k].WaiterPin = job[k].WaiterPin

OffLists(gone) ==
  /\ q' \in QueueType /\ q'.InFlight = q.InFlight
  /\ ToSet(q'.Pending) = ToSet(q.Pending) \ gone /\ Distinct(q'.Pending)
  /\ q'.Completed = q.Completed \ gone
  /\ q'.Draining = q.Draining /\ q'.KickRearm = q.KickRearm /\ q'.KickActive = q.KickActive

\* A step of file f's thread that starts nothing: it frees jobs of f's that are
\* on a list, with f's pin on them if any, moves to l and then points to c, the
\* one job it has pinned, if any.  It may stop the codec.
FileMove(f, gone, l, c) ==
  /\ pc[f] # "start"
  /\ pc' = [pc EXCEPT ![f] = l] /\ cur' = [cur EXCEPT ![f] = c]
  /\ arg' = arg \/ \E b \in BOOLEAN : arg' = [arg EXCEPT ![f] = b]
  /\ FreedExactly(f, gone) /\ OffLists(gone) /\ HwInv'
  /\ \A k \in gone : job[k].Owner = f /\ k \in InPending \cup q.Completed
  /\ \A k \in JobId \ gone : job[k].mem = "alloc" /\ job[k].Owner = f /\ job'[k].WaiterPin # 0
                              => l \in Waiting /\ c = k
  /\ l \in Waiting => c \in JobId \ gone /\ job[c].mem = "alloc" /\ job[c].Owner = f
                         /\ job'[c].WaiterPin = 1
  /\ l \notin Waiting => c = NoJob
  /\ UNCHANGED <<nextId, work, ran, irq, gated>>
  /\ hw' = hw \/ (hw'.job = NoJob /\ hw'.sta = "none")

LEMMA FileStep ==
  ASSUME IInv, NEW f \in Files, NEW gone \in SUBSET JobId, NEW l \in FileLabels \ {"start"},
         NEW c \in JobId \cup {NoJob}, FileMove(f, gone, l, c)
  PROVE  IInv'
<1>m. /\ pc[f] # "start"
      /\ pc' = [pc EXCEPT ![f] = l] /\ cur' = [cur EXCEPT ![f] = c]
      /\ arg' = arg \/ \E b \in BOOLEAN : arg' = [arg EXCEPT ![f] = b]
      /\ FreedExactly(f, gone) /\ OffLists(gone) /\ HwInv'
      /\ \A k \in gone : job[k].Owner = f /\ k \in InPending \cup q.Completed
      /\ \A k \in JobId \ gone : job[k].mem = "alloc" /\ job[k].Owner = f /\ job'[k].WaiterPin # 0
                                  => l \in Waiting /\ c = k
      /\ l \in Waiting => c \in JobId \ gone /\ job[c].mem = "alloc" /\ job[c].Owner = f
                             /\ job'[c].WaiterPin = 1
      /\ l \notin Waiting => c = NoJob
      /\ UNCHANGED <<nextId, work, ran, irq, gated>>
      /\ hw' = hw \/ (hw'.job = NoJob /\ hw'.sta = "none")
  BY DEF FileMove
<1> USE <1>m
<1> USE Names DEF IInv
<1>1. TypeInv'
  <2>1. CtlInv'
    BY CtlMove DEF TypeInv
  <2> QED BY <2>1 DEF TypeInv, QueueInv, FreedExactly, OffLists
<1>p. \A a \in Agents \ {f} : pc'[a] = pc[a] /\ cur'[a] = cur[a]
  BY DEF TypeInv, CtlInv
<1>f. pc'[f] = l /\ cur'[f] = c
  BY DEF TypeInv, CtlInv
<1>s. \A a \in Agents : pc'[a] = "start" <=> pc[a] = "start"
  BY <1>p, <1>f
<1>o. "worker" # f /\ "dpc" # f /\ "power" # f
  OBVIOUS
<1>2. PlaceInv'
  <2>1. ASSUME NEW k \in JobId PROVE PlaceOK(k)'
    <3>1. PlaceOK(k) /\ (k \in gone => k \in InPending \cup q.Completed)
      BY DEF PlaceInv
    <3>2. /\ q'.InFlight = q.InFlight /\ (k \in InPending' <=> k \in InPending /\ k \notin gone)
          /\ (k \in q'.Completed <=> k \in q.Completed /\ k \notin gone)
      BY DEF OffLists, InPending
    <3>3. CASE k \in gone
      <4>1. job'[k].mem = "freed"
        BY <3>3 DEF FreedExactly
      <4>2. job[k].mem = "alloc" /\ q.InFlight # k
        BY <3>1, <3>3 DEF PlaceOK
      <4> QED BY <3>1, <3>2, <3>3, <4>1, <4>2 DEF PlaceOK
    <3>4. CASE k \notin gone
      <4>1. job'[k].mem = job[k].mem /\ (job[k].mem = "alloc" => job'[k].Done = job[k].Done)
        BY <3>4 DEF FreedExactly
      <4> QED BY <3>1, <3>2, <3>4, <4>1 DEF PlaceOK
    <3> QED BY <3>3, <3>4
  <2> QED BY <2>1 DEF PlaceInv, OffLists
<1>3. PinInv'
  <2>1. ASSUME NEW k \in JobId, job'[k].mem = "alloc"
        PROVE  /\ k \notin gone /\ job[k].mem = "alloc" /\ job'[k].Owner = job[k].Owner
               /\ job[k].Owner \in Files
               /\ job[k].Owner # f => job'[k].WaiterPin = job[k].WaiterPin
    <3>1. k \notin gone /\ job[k].mem = "alloc"
      BY <2>1 DEF FreedExactly
    <3> QED BY <3>1, JobFacts, AllocRec DEF FreedExactly
  <2>2. ASSUME NEW k \in JobId, job'[k].mem = "alloc", job'[k].WaiterPin # 0
        PROVE  pc'[job'[k].Owner] \in Waiting /\ cur'[job'[k].Owner] = k
    <3>1. CASE job[k].Owner = f
      BY <1>f, <2>1, <2>2, <3>1
    <3>2. CASE job[k].Owner # f
      BY <1>p, <2>1, <2>2, <3>2 DEF PinInv
    <3> QED BY <3>1, <3>2
  <2>3. ASSUME NEW g \in Files, pc'[g] \in Waiting
        PROVE  /\ cur'[g] # NoJob /\ job'[cur'[g]].mem = "alloc"
               /\ job'[cur'[g]].Owner = g /\ job'[cur'[g]].WaiterPin = 1
    <3>1. CASE g = f
      BY <1>f, <2>3, <3>1 DEF FreedExactly
    <3>2. CASE g # f
      <4>1. /\ pc[g] \in Waiting /\ cur'[g] = cur[g] /\ cur[g] \in JobId
            /\ job[cur[g]].mem = "alloc" /\ job[cur[g]].Owner = g /\ job[cur[g]].WaiterPin = 1
        BY <1>p, <2>3, <3>2 DEF PinInv, TypeInv, CtlInv
      <4>2. PICK x \in JobId : x = cur[g]
        BY <4>1
      <4>3. job[x].mem = "alloc" /\ job[x].Owner = g /\ job[x].WaiterPin = 1 /\ x \notin gone
        BY <3>2, <4>1, <4>2
      <4>4. job'[x].mem = "alloc" /\ job'[x].Owner = g /\ job'[x].WaiterPin = 1
        BY <3>2, <4>3 DEF FreedExactly
      <4> QED BY <4>1, <4>2, <4>4
    <3> QED BY <3>1, <3>2
  <2>4. ASSUME NEW g \in Files, pc'[g] \notin Waiting \cup {"start"} PROVE cur'[g] = NoJob
    BY <1>f, <1>p, <2>4 DEF PinInv
  <2> QED BY <2>2, <2>3, <2>4 DEF PinInv
<1>4. CodecInv'
  <2>1. ASSUME NEW a \in Agents, pc'[a] = "start" PROVE cur'[a] = cur[a] /\ pc[a] = "start"
    BY <1>f, <1>p, <2>1
  <2>2. Starting' => Starting
    BY <1>s DEF Starting
  <2>3. q'.InFlight = q.InFlight
    BY DEF OffLists
  <2> QED BY <2>1, <2>2, <2>3 DEF CodecInv
<1>5. PowerInv'
  <2>1. Starting' => Starting
    BY <1>s DEF Starting
  <2>2. q'.InFlight = q.InFlight /\ q'.Draining = q.Draining
    BY DEF OffLists
  <2>3. \A a \in {"worker", "dpc", "power"} : pc'[a] = pc[a] /\ cur'[a] = cur[a]
    BY <1>o, <1>p
  <2> QED BY <1>s, <2>1, <2>2, <2>3 DEF PowerInv
<1>6. KickInv'
  BY <1>o, <1>p DEF KickInv, OffLists
<1>7. NeverStranded'
  <2>1. q'.Pending # <<>> => q.Pending # <<>>
    BY EmptyFacts DEF OffLists, QueueType
  <2> QED BY <1>o, <1>p, <2>1 DEF NeverStranded, CanPromote, OffLists
<1>8. ResultIsOwn'
  <2> SUFFICES ASSUME NEW k \in q'.Completed PROVE job'[k].Result = ran[k]
    BY DEF ResultIsOwn
  <2>1. k \in q.Completed /\ k \notin gone /\ k \in JobId
    BY DEF OffLists, QueueType
  <2>2. job[k].mem = "alloc"
    BY <2>1 DEF PlaceInv, PlaceOK
  <2> QED BY <2>1, <2>2 DEF ResultIsOwn, FreedExactly
<1> QED BY <1>1, <1>2, <1>3, <1>4, <1>5, <1>6, <1>7, <1>8

\* Nothing leaves the lists.
LEMMA SameLists ==
  ASSUME IInv, q' = q PROVE OffLists({})
BY DEF IInv, TypeInv, QueueInv, PlaceInv, OffLists

LEMMA SameJobs ==
  ASSUME IInv, job' = job, NEW f PROVE FreedExactly(f, {})
BY DEF IInv, TypeInv, QueueInv, FreedExactly

\* A set of jobs is freed.
LEMMA FreeFacts ==
  ASSUME IInv, NEW f, NEW gone \in SUBSET JobId, job' = Free(gone, job) PROVE FreedExactly(f, gone)
BY JobFacts DEF IInv, TypeInv, QueueInv, FreedExactly, Free

\* The pin and the orphan mark of one job of f's are written.
LEMMA PinFacts ==
  ASSUME IInv, NEW f, NEW j \in JobId, job[j].mem = "alloc", job[j].Owner = f,
         NEW w \in {0, 1}, NEW o \in BOOLEAN,
         job' = [job EXCEPT ![j] = [job[j] EXCEPT !.WaiterPin = w, !.Orphan = o]]
  PROVE  FreedExactly(f, {}) /\ job'[j].WaiterPin = w /\ \A k \in JobId \ {j} : job'[k] = job[k]
<1>1. PICK r : r = [job[j] EXCEPT !.WaiterPin = w, !.Orphan = o]
  OBVIOUS
<1>2. job[j] \in JobRec
  BY AllocRec DEF IInv
<1>3. r \in JobRec /\ r.mem = "alloc" /\ r.Owner = f /\ r.Done = job[j].Done
      /\ r.Result = job[j].Result /\ r.WaiterPin = w
  BY <1>1, <1>2 DEF JobRec
<1>4. job' = [job EXCEPT ![j] = r]
  BY <1>1
<1>5. /\ job' \in [JobId -> {NoRecord, Freed} \cup JobRec]
      /\ job'[j] = r /\ \A k \in JobId \ {j} : job'[k] = job[k]
  BY <1>3, <1>4 DEF IInv, TypeInv, QueueInv
<1>6. ASSUME NEW k \in JobId
      PROVE  /\ job'[k].mem = job[k].mem
             /\ job[k].mem = "alloc" =>
                  /\ job'[k].Owner = job[k].Owner /\ job'[k].Done = job[k].Done
                  /\ job'[k].Result = job[k].Result
                  /\ job[k].Owner # f => job'[k].WaiterPin = job[k].WaiterPin
  BY <1>3, <1>5
<1> QED BY <1>3, <1>5, <1>6 DEF FreedExactly

LEMMA ReapFacts ==
  ASSUME IInv, NEW f \in Files, NEW j \in JobId, Reap(f, j)
  PROVE  FreedExactly(f, {j}) /\ OffLists({j})
<1>1. FreedExactly(f, {j})
  BY FreeFacts DEF Reap
<1> DEFINE s == q.Pending
<1>2. s \in Seq(JobId) /\ Distinct(s) /\ q \in QueueType
  BY DEF IInv, TypeInv, QueueInv, QueueType, PlaceInv
<1>3. /\ Without(s, {j}) \in Seq(JobId) /\ ToSet(Without(s, {j})) = ToSet(s) \ {j}
      /\ Distinct(Without(s, {j}))
  BY <1>2, WithoutFacts
<1>4. q' = [q EXCEPT !.Completed = q.Completed \ {j}, !.Pending = Without(s, {j})]
  BY <1>2 DEF Reap, QueueType
<1>5. OffLists({j})
  BY <1>2, <1>3, <1>4 DEF OffLists, QueueType
<1> QED BY <1>1, <1>5

\* An idle file thread holds no pin.
LEMMA NoPins ==
  ASSUME IInv, NEW f \in Files, pc[f] \notin Waiting, NEW k \in JobId, job[k].mem = "alloc",
         job[k].Owner = f
  PROVE  job[k].WaiterPin = 0
BY DEF IInv, PinInv

LEMMA Labels ==
  /\ \A l \in {"idle", "decide", "others", "freeAll"} : l \in FileLabels \ {"start"} /\ l \notin Waiting
  /\ \A l \in Waiting : l \in FileLabels \ {"start"}
  /\ \A l \in {"wait", "waitTimeout", "drainWait", "drainEnd"} : l \in Waiting
BY DEF FileLabels, Waiting

\* The thread holds no pointer after the step.
LEMMA FileDone ==
  ASSUME IInv, NEW f \in Files, NEW gone \in SUBSET JobId,
         NEW l \in {"idle", "decide", "others", "freeAll"}, pc[f] # "start",
         pc' = [pc EXCEPT ![f] = l], cur' = [cur EXCEPT ![f] = NoJob],
         arg' = arg \/ \E b \in BOOLEAN : arg' = [arg EXCEPT ![f] = b],
         FreedExactly(f, gone), OffLists(gone), HwInv',
         \A k \in gone : job[k].Owner = f /\ k \in InPending \cup q.Completed,
         \A k \in JobId \ gone : job[k].mem = "alloc" /\ job[k].Owner = f
                                   => job'[k].WaiterPin = 0,
         UNCHANGED <<nextId, work, ran, irq, gated>>,
         hw' = hw \/ (hw'.job = NoJob /\ hw'.sta = "none")
  PROVE  IInv'
<1>1. l \in FileLabels \ {"start"} /\ l \notin Waiting /\ NoJob \in JobId \cup {NoJob}
  BY Labels
<1>2. FileMove(f, gone, l, NoJob)
  BY <1>1 DEF FileMove
<1> QED BY <1>1, <1>2, FileStep

LEMMA WaitFindInv == ASSUME IInv, NEW f \in Files, WaitFind(f) PROVE IInv'
<1> USE Names
<1>0. /\ pc[f] = "idle" /\ cur[f] = NoJob /\ f \in Agents
      /\ UNCHANGED <<nextId, work, hwVars, regVars, pwrVars, fileVars, arg>>
  BY DEF WaitFind, Ioctl, IInv, PinInv, Waiting
<1>1. PICK j \in OwnedBy(f) :
        IF j \in q.Completed
          THEN /\ q' = [q EXCEPT !.Completed = @ \ {j}]
               /\ job' = Free({j}, job)
               /\ UNCHANGED <<pc, cur>>
          ELSE /\ job' = [job EXCEPT ![j].WaiterPin = @ + 1]
               /\ GotoWith(f, "wait", j) /\ UNCHANGED q
  BY DEF WaitFind
<1>2. j \in JobId /\ job[j].mem = "alloc" /\ job[j].Owner = f /\ job[j] \in JobRec
  BY AllocRec DEF OwnedBy, Alloced, IInv
<1>n. \A k \in JobId : job[k].mem = "alloc" /\ job[k].Owner = f => job[k].WaiterPin = 0
  BY <1>0, NoPins DEF Waiting
<1>h. HwInv' /\ UNCHANGED <<hw, ran, irq, gated>>
  BY <1>0, HwFrame DEF IInv, TypeInv, hwVars, pwrVars
<1>3. CASE j \in q.Completed
  <2>1. FreedExactly(f, {j})
    BY <1>1, <1>2, <1>3, FreeFacts
  <2>2. OffLists({j})
    <3>1. j \notin InPending
      BY <1>2, <1>3 DEF IInv, PlaceInv, PlaceOK
    <3> QED BY <1>1, <1>3, <3>1 DEF OffLists, IInv, TypeInv, QueueInv, QueueType, PlaceInv, InPending
  <2>3. pc' = [pc EXCEPT ![f] = "idle"] /\ cur' = [cur EXCEPT ![f] = NoJob]
    BY <1>0, <1>1, <1>3 DEF IInv, TypeInv, CtlInv
  <2>4. \A k \in JobId \ {j} : job[k].mem = "alloc" /\ job[k].Owner = f => job'[k].WaiterPin = 0
    BY <1>1, <1>3, <1>n DEF Free
  <2> QED BY <1>0, <1>2, <1>3, <1>h, <2>1, <2>2, <2>3, <2>4, FileDone
<1>4. CASE j \notin q.Completed
  <2>1. job' = [job EXCEPT ![j] = [job[j] EXCEPT !.WaiterPin = 1, !.Orphan = job[j].Orphan]]
    <3>1. job[j].WaiterPin + 1 = 1
      BY <1>2, <1>n
    <3>2. [job[j] EXCEPT !.WaiterPin = 1]
            = [job[j] EXCEPT !.WaiterPin = 1, !.Orphan = job[j].Orphan]
      BY <1>2 DEF JobRec
    <3>3. job' = [job EXCEPT ![j] = [job[j] EXCEPT !.WaiterPin = job[j].WaiterPin + 1]]
      BY <1>1, <1>4
    <3> QED BY <3>1, <3>2, <3>3
  <2>2. FreedExactly(f, {}) /\ job'[j].WaiterPin = 1 /\ \A k \in JobId \ {j} : job'[k] = job[k]
    <3>1. job[j].Orphan \in BOOLEAN
      BY <1>2 DEF JobRec
    <3> QED BY <1>2, <2>1, <3>1, PinFacts
  <2>3. OffLists({})
    BY <1>1, <1>4, SameLists
  <2>4. pc' = [pc EXCEPT ![f] = "wait"] /\ cur' = [cur EXCEPT ![f] = j]
    BY <1>1, <1>4 DEF GotoWith, Goto
  <2>5. \A k \in JobId \ {j} : job[k].mem = "alloc" /\ job[k].Owner = f => job'[k].WaiterPin = 0
    BY <1>n, <2>2
  <2>6. FileMove(f, {}, "wait", j)
    BY <1>0, <1>2, <1>h, <2>2, <2>3, <2>4, <2>5, Labels DEF FileMove
  <2> QED BY <1>2, <2>6, FileStep, Labels
<1> QED BY <1>3, <1>4

\* Only what a waiting thread points to is pinned by it.
LEMMA OnePin ==
  ASSUME IInv, NEW f \in Files, NEW k \in JobId, job[k].mem = "alloc", job[k].Owner = f, cur[f] # k
  PROVE  job[k].WaiterPin = 0
BY DEF IInv, PinInv

LEMMA WaitTimeoutInv == ASSUME IInv, NEW f \in Files, WaitTimeout(f) \/ DrainTimeout(f) PROVE IInv'
<1>1. /\ pc[f] \in Waiting /\ pc[f] # "start" /\ f \in Agents /\ UNCHANGED <<cur, qVars, hwVars, regVars, pwrVars, fileVars>>
      /\ \E l \in Waiting : pc' = [pc EXCEPT ![f] = l]
      /\ arg' = arg \/ \E b \in BOOLEAN : arg' = [arg EXCEPT ![f] = b]
  BY Names, Labels DEF WaitTimeout, DrainTimeout, Goto
<1>2. PICK l \in Waiting : pc' = [pc EXCEPT ![f] = l]
  BY <1>1
<1>3. PICK c \in JobId : c = cur[f]
  BY <1>1 DEF IInv, PinInv, TypeInv, CtlInv
<1>4. cur' = [cur EXCEPT ![f] = c]
  BY <1>1, <1>3 DEF IInv, TypeInv, CtlInv
<1>5. FreedExactly(f, {}) /\ OffLists({}) /\ HwInv' /\ job' = job
  BY <1>1, SameJobs, SameLists, HwFrame DEF qVars, IInv, TypeInv
<1>6. job[c].mem = "alloc" /\ job[c].Owner = f /\ job[c].WaiterPin = 1
  BY <1>1, <1>3 DEF IInv, PinInv
<1>7. \A k \in JobId \ {c} : job[k].mem = "alloc" /\ job[k].Owner = f => job[k].WaiterPin = 0
  BY <1>3, OnePin
<1>8. FileMove(f, {}, l, c)
  BY <1>1, <1>2, <1>4, <1>5, <1>6, <1>7 DEF FileMove, qVars, hwVars, pwrVars
<1> QED BY <1>8, FileStep, Labels

LEMMA WaitEndInv == ASSUME IInv, NEW f \in Files, WaitDone(f) \/ WaitGiveUp(f) PROVE IInv'
<1> USE Names
<1>1. /\ pc[f] \in {"wait", "waitTimeout"} /\ pc[f] \in Waiting /\ f \in Agents
      /\ UNCHANGED <<nextId, work, hwVars, regVars, pwrVars, fileVars, arg>>
      /\ pc' = [pc EXCEPT ![f] = "idle"] /\ cur' = [cur EXCEPT ![f] = NoJob]
  BY Labels DEF WaitDone, WaitGiveUp, GotoWith, Goto
<1>2. PICK j \in JobId : j = cur[f]
  <2>1. cur[f] # NoJob
    BY <1>1 DEF IInv, PinInv
  <2> QED BY <1>1, <2>1 DEF IInv, TypeInv, CtlInv
<1>3. /\ job[j].mem = "alloc" /\ job[j].Owner = f /\ job[j].WaiterPin = 1 /\ job[j] \in JobRec
  BY <1>1, <1>2, AllocRec DEF IInv, PinInv
<1>4. \A k \in JobId \ {j} : job[k].mem = "alloc" /\ job[k].Owner = f => job[k].WaiterPin = 0
  BY <1>2, OnePin
<1>5. \/ Reap(f, j) /\ j \in InPending \cup q.Completed
      \/ job' = [job EXCEPT ![j].WaiterPin = 0, ![j].Orphan = TRUE] /\ q' = q
  BY <1>2, <1>3 DEF WaitDone, WaitGiveUp, IInv, PlaceInv, PlaceOK
<1>h. HwInv' /\ UNCHANGED <<hw, ran, irq, gated>>
  BY <1>1, HwFrame DEF IInv, TypeInv, hwVars, pwrVars
<1>6. CASE Reap(f, j) /\ j \in InPending \cup q.Completed
  <2>1. FreedExactly(f, {j}) /\ OffLists({j})
    BY <1>6, ReapFacts
  <2>2. \A k \in JobId \ {j} : job[k].mem = "alloc" /\ job[k].Owner = f => job'[k].WaiterPin = 0
    BY <1>4, <1>6 DEF Reap, Free
  <2>3. /\ {j} \in SUBSET JobId /\ pc[f] # "start" /\ arg' = arg /\ hw' = hw
        /\ UNCHANGED <<nextId, work, ran, irq, gated>>
        /\ \A k \in {j} : job[k].Owner = f /\ k \in InPending \cup q.Completed
    BY <1>1, <1>3, <1>6, <1>h
  <2> QED BY <1>1, <1>h, <2>1, <2>2, <2>3, FileDone
<1>7. CASE job' = [job EXCEPT ![j].WaiterPin = 0, ![j].Orphan = TRUE] /\ q' = q
  <2>1. job' = [job EXCEPT ![j] = [job[j] EXCEPT !.WaiterPin = 0, !.Orphan = TRUE]]
    BY <1>7 DEF IInv, TypeInv, QueueInv
  <2>2. FreedExactly(f, {}) /\ job'[j].WaiterPin = 0 /\ \A k \in JobId \ {j} : job'[k] = job[k]
    BY <1>3, <2>1, PinFacts
  <2>3. OffLists({})
    BY <1>7, SameLists
  <2>4. \A k \in JobId : job[k].mem = "alloc" /\ job[k].Owner = f => job'[k].WaiterPin = 0
    BY <1>4, <2>2
  <2> QED BY <1>1, <1>h, <2>2, <2>3, <2>4, FileDone
<1> QED BY <1>5, <1>6, <1>7

\* The cleanup's steps that touch no job.
LEMMA CleanupInv ==
  ASSUME IInv, NEW f \in Files, CleanupDecide(f) \/ CleanupOthers(f) \/ CleanupFreeAll(f)
  PROVE  IInv'
<1> USE Names
<1>1. /\ pc[f] \notin Waiting \cup {"start"} /\ f \in Agents
      /\ \E l \in {"others", "freeAll", "idle"} : pc' = [pc EXCEPT ![f] = l]
      /\ \E b \in BOOLEAN : arg' = [arg EXCEPT ![f] = b]
      /\ UNCHANGED <<qVars, cur, ran, irq, gated>>
      /\ hw' = hw \/ hw' = [job |-> NoJob, sta |-> "none", regs |-> {}]
  BY DEF CleanupDecide, CleanupOthers, CleanupFreeAll, Goto, Waiting, hwVars, pwrVars, HasOtherOwner
<1>2. PICK l \in {"others", "freeAll", "idle"} : pc' = [pc EXCEPT ![f] = l]
  BY <1>1
<1>3. cur[f] = NoJob /\ cur' = [cur EXCEPT ![f] = NoJob]
  BY <1>1 DEF IInv, PinInv, TypeInv, CtlInv
<1>4. FreedExactly(f, {}) /\ OffLists({}) /\ job' = job
  BY <1>1, SameJobs, SameLists DEF qVars
<1>5. \A k \in JobId : job[k].mem = "alloc" /\ job[k].Owner = f => job[k].WaiterPin = 0
  BY <1>1, NoPins
<1>6. HwInv'
  <2>1. CASE CleanupDecide(f)
    <3>1. arg[f] \in BOOLEAN /\ errs[f] \in BOOLEAN /\ errs' \in [Files -> BOOLEAN]
      BY <2>1 DEF CleanupDecide, IInv, TypeInv, CtlInv, HwInv
    <3>2. /\ hw' \in [job : JobId \cup {NoJob}, sta : {"none", "ok", "error"}, regs : SUBSET Regs]
          /\ failed' \in BOOLEAN
      <4>1. CASE arg[f]
        BY <2>1, <4>1 DEF CleanupDecide
      <4>2. CASE ~arg[f]
        BY <2>1, <4>2 DEF CleanupDecide, IInv, TypeInv, HwInv
      <4> QED BY <4>1, <4>2
    <3> QED BY <2>1, <3>1, <3>2 DEF CleanupDecide, IInv, TypeInv, HwInv
  <2>2. CASE CleanupOthers(f)
    BY <2>2, HwFrame DEF CleanupOthers, IInv, TypeInv
  <2>3. CASE CleanupFreeAll(f)
    BY <2>3 DEF CleanupFreeAll, IInv, TypeInv, HwInv, CtlInv, hwVars, pwrVars
  <2> QED BY <2>1, <2>2, <2>3
<1>7. hw' = hw \/ (hw'.job = NoJob /\ hw'.sta = "none")
  BY <1>1
<1>8. pc[f] # "start" /\ UNCHANGED <<nextId, work, ran, irq, gated>>
  BY <1>1 DEF qVars
<1>9. \A k \in JobId : job[k].mem = "alloc" /\ job[k].Owner = f => job'[k].WaiterPin = 0
  BY <1>4, <1>5
<1>10. l \in FileLabels \ {"start"} /\ l \notin Waiting /\ NoJob \in JobId \cup {NoJob}
  BY Labels
<1>11. FileMove(f, {}, l, NoJob)
  BY <1>1, <1>2, <1>3, <1>4, <1>6, <1>7, <1>8, <1>9, <1>10 DEF FileMove
<1> QED BY <1>10, <1>11, FileStep

\* Record r is job j with its pin and orphan mark written.
PinWritten(r, j, w) == \E o \in BOOLEAN : r = [job[j] EXCEPT !.WaiterPin = w, !.Orphan = o]

\* The jobs of gone are freed, r is written to job j.
FreedAndWritten(gone, j, r) ==
  \E jb : jb = [job EXCEPT ![j] = r] /\ job' = Free(gone, jb)

\* Both, for jobs that are allocated and file f's.
DrainWrites(f, gone, j, w, r) ==
  /\ gone \in SUBSET JobId /\ j \in JobId /\ job[j].mem = "alloc" /\ job[j].Owner = f
  /\ w \in {0, 1} /\ PinWritten(r, j, w) /\ FreedAndWritten(gone, j, r)

LEMMA FreeAndPin ==
  ASSUME IInv, NEW f, NEW gone, NEW j, NEW w, NEW r, DrainWrites(f, gone, j, w, r)
  PROVE  /\ FreedExactly(f, gone)
         /\ \A k \in JobId \ gone : job'[k] = IF k = j THEN r ELSE job[k]
         /\ r.WaiterPin = w
<1> USE DEF DrainWrites
<1>1. job[j] \in JobRec
  BY AllocRec DEF IInv
<1>2. r \in JobRec /\ r.mem = "alloc" /\ r.Owner = f /\ r.Done = job[j].Done
      /\ r.Result = job[j].Result /\ r.WaiterPin = w
  BY <1>1 DEF JobRec, PinWritten
<1>0. PICK jb : jb = [job EXCEPT ![j] = r] /\ job' = Free(gone, jb)
  BY DEF FreedAndWritten
<1>3. /\ jb \in [JobId -> {NoRecord, Freed} \cup JobRec]
      /\ jb[j] = r /\ \A k \in JobId \ {j} : jb[k] = job[k]
  BY <1>0, <1>2 DEF IInv, TypeInv, QueueInv
<1>4. /\ job' \in [JobId -> {NoRecord, Freed} \cup JobRec]
      /\ \A k \in JobId : job'[k] = IF k \in gone THEN Freed ELSE jb[k]
  BY <1>0, <1>3 DEF Free
<1>5. \A k \in gone : job'[k].mem = "freed"
  BY <1>4, JobFacts
<1>6. ASSUME NEW k \in JobId \ gone
      PROVE  /\ job'[k].mem = job[k].mem
             /\ job[k].mem = "alloc" =>
                  /\ job'[k].Owner = job[k].Owner /\ job'[k].Done = job[k].Done
                  /\ job'[k].Result = job[k].Result
                  /\ job[k].Owner # f => job'[k].WaiterPin = job[k].WaiterPin
  BY <1>2, <1>3, <1>4
<1>7. FreedExactly(f, gone)
  BY <1>4, <1>5, <1>6 DEF FreedExactly
<1> QED BY <1>2, <1>3, <1>4, <1>7

LEMMA DrainOwnerInv == ASSUME IInv, NEW f \in Files, DrainOwner(f) PROVE IInv'
<1> USE Names
<1>0. PICK mine : mine = {j \in InPending \cup q.Completed : job[j].Owner = f}
  OBVIOUS
<1>1. /\ pc[f] = "idle" /\ pc[f] \notin Waiting /\ f \in Agents
      /\ q' = [q EXCEPT !.Pending = Without(@, mine), !.Completed = @ \ mine]
      /\ UNCHANGED <<nextId, work, hwVars, regVars, pwrVars, mapped, errs, arg>>
      /\ closed' = closed \cup {f}
  BY <1>0 DEF DrainOwner, Waiting
<1>2. q \in QueueType /\ q.Pending \in Seq(JobId) /\ Distinct(q.Pending) /\ InPending \subseteq JobId
  BY DEF IInv, TypeInv, QueueInv, QueueType, PlaceInv, InPending, ToSet
<1>3. /\ mine \in SUBSET JobId
      /\ \A k \in mine : job[k].Owner = f /\ k \in InPending \cup q.Completed
  BY <1>0, <1>2 DEF QueueType
<1>4. OffLists(mine)
  <2>1. /\ Without(q.Pending, mine) \in Seq(JobId) /\ Distinct(Without(q.Pending, mine))
        /\ ToSet(Without(q.Pending, mine)) = ToSet(q.Pending) \ mine
    BY <1>2, WithoutFacts
  <2>2. q' = [q EXCEPT !.Pending = Without(q.Pending, mine), !.Completed = q.Completed \ mine]
    BY <1>1, <1>2 DEF QueueType
  <2> QED BY <1>2, <2>1, <2>2 DEF OffLists, QueueType
<1>5. HwInv' /\ UNCHANGED <<hw, ran, irq, gated>>
  BY <1>1 DEF IInv, TypeInv, HwInv, hwVars, regVars, pwrVars
<1>6. \A k \in JobId : job[k].mem = "alloc" /\ job[k].Owner = f => job[k].WaiterPin = 0
  BY <1>1, NoPins
<1>7. CASE q.InFlight # NoJob /\ job[q.InFlight].Owner = f
  <2>1. PICK j \in JobId : j = q.InFlight
    BY <1>2, <1>7 DEF QueueType
  <2>2. /\ job[j].mem = "alloc" /\ job[j].Owner = f /\ job[j] \in JobRec /\ j \notin mine
        /\ job[j].WaiterPin = 0
    BY <1>0, <1>6, <1>7, <2>1, AllocRec DEF IInv, PlaceInv, PlaceOK
  <2>3. /\ job' = [Free(mine, job) EXCEPT ![j].WaiterPin = @ + 1]
        /\ pc' = [pc EXCEPT ![f] = "drainWait"] /\ cur' = [cur EXCEPT ![f] = j]
    BY <1>0, <1>7, <2>1 DEF DrainOwner, GotoWith, Goto
  <2>4. PICK r : r = [job[j] EXCEPT !.WaiterPin = 1]
    OBVIOUS
  <2>5. PinWritten(r, j, 1)
    <3>1. job[j].Orphan \in BOOLEAN /\ r = [job[j] EXCEPT !.WaiterPin = 1, !.Orphan = job[j].Orphan]
      BY <2>2, <2>4 DEF JobRec
    <3> QED BY <3>1 DEF PinWritten
  <2>6. FreedAndWritten(mine, j, r)
    <3>1. Free(mine, job)[j] = job[j] /\ j \in DOMAIN Free(mine, job)
      BY <2>2 DEF Free
    <3>2. job[j].WaiterPin + 1 = 1
      BY <2>2
    <3>3. job' = [Free(mine, job) EXCEPT ![j] = r]
      BY <2>3, <2>4, <3>1, <3>2
    <3>4. [Free(mine, job) EXCEPT ![j] = r] = Free(mine, [job EXCEPT ![j] = r])
      BY <2>2 DEF Free, IInv, TypeInv, QueueInv
    <3> QED BY <3>3, <3>4 DEF FreedAndWritten
  <2>7. /\ FreedExactly(f, mine) /\ r.WaiterPin = 1
        /\ \A k \in JobId \ mine : job'[k] = IF k = j THEN r ELSE job[k]
    <3>1. 1 \in {0, 1} /\ mine \in SUBSET JobId /\ job[j].mem = "alloc" /\ job[j].Owner = f
      BY <1>3, <2>2
    <3>2. DrainWrites(f, mine, j, 1, r)
      BY <2>5, <2>6, <3>1 DEF DrainWrites
    <3> QED BY <3>2, FreeAndPin
  <2>8. FileMove(f, mine, "drainWait", j)
    <3>1. "drainWait" \in Waiting /\ pc[f] # "start" /\ arg' = arg /\ hw' = hw
          /\ UNCHANGED <<nextId, work, ran, irq, gated>>
      BY <1>1, <1>5, Labels
    <3>2. j \in JobId \ mine /\ job'[j].WaiterPin = 1
      BY <2>2, <2>7
    <3>3. \A k \in JobId \ mine : job[k].mem = "alloc" /\ job[k].Owner = f
                                   /\ job'[k].WaiterPin # 0 => k = j
      BY <1>6, <2>7
    <3> QED BY <1>3, <1>4, <1>5, <2>2, <2>3, <2>7, <3>1, <3>2, <3>3 DEF FileMove
  <2> QED BY <1>3, <2>8, FileStep, Labels
<1>8. CASE ~(q.InFlight # NoJob /\ job[q.InFlight].Owner = f)
  <2>1. /\ job' = Free(mine, job)
        /\ pc' = [pc EXCEPT ![f] = "decide"] /\ cur' = [cur EXCEPT ![f] = NoJob]
    BY <1>0, <1>8 DEF DrainOwner, GotoWith, Goto
  <2>2. FreedExactly(f, mine)
    BY <1>3, <2>1, FreeFacts
  <2>3. \A k \in JobId \ mine : job[k].mem = "alloc" /\ job[k].Owner = f => job'[k].WaiterPin = 0
    BY <1>6, <2>1 DEF Free
  <2> QED BY <1>1, <1>3, <1>4, <1>5, <2>1, <2>2, <2>3, FileDone
<1> QED BY <1>7, <1>8

LEMMA DrainEndInv == ASSUME IInv, NEW f \in Files, DrainEnd(f) PROVE IInv'
<1> USE Names
<1>1. /\ pc[f] \in {"drainWait", "drainEnd"} /\ pc[f] \in Waiting /\ f \in Agents
      /\ pc[f] = "drainWait" => job[cur[f]].Done
      /\ pc' = [pc EXCEPT ![f] = "decide"] /\ cur' = [cur EXCEPT ![f] = NoJob]
      /\ needsReset' = (needsReset \/ arg[f])
      /\ UNCHANGED <<nextId, work, hwVars, prevMask, pwrVars, fileVars, arg>>
  BY Labels DEF DrainEnd, GotoWith, Goto
<1>2. PICK j \in JobId : j = cur[f]
  <2>1. cur[f] # NoJob
    BY <1>1 DEF IInv, PinInv
  <2> QED BY <1>1, <2>1 DEF IInv, TypeInv, CtlInv
<1>3. /\ job[j].mem = "alloc" /\ job[j].Owner = f /\ job[j].WaiterPin = 1 /\ job[j] \in JobRec
  BY <1>1, <1>2, AllocRec DEF IInv, PinInv
<1>4. PICK o \in BOOLEAN : o = (job[j].Orphan \/ (arg[f] /\ q.InFlight = j))
  BY <1>3 DEF JobRec
<1>5. PICK r : r = [job[j] EXCEPT !.WaiterPin = 0, !.Orphan = o]
  OBVIOUS
<1>6. PICK left : left = [job EXCEPT ![j] = r]
  OBVIOUS
<1>7. left = [job EXCEPT ![j].WaiterPin = @ - 1,
                         ![j].Orphan = @ \/ (arg[f] /\ q.InFlight = j)]
  <2>1. job[j].WaiterPin - 1 = 0
    BY <1>3
  <2> QED BY <1>3, <1>4, <1>5, <1>6, <2>1 DEF IInv, TypeInv, QueueInv
<1>8. PICK mine : mine = {c \in q.Completed : left[c].Owner = f /\ left[c].WaiterPin = 0}
  OBVIOUS
<1>9. q' = [q EXCEPT !.Completed = @ \ mine] /\ job' = Free(mine, left)
  BY <1>2, <1>7, <1>8 DEF DrainEnd
<1>10. q \in QueueType /\ q.Completed \subseteq JobId /\ Distinct(q.Pending)
  BY DEF IInv, TypeInv, QueueInv, QueueType, PlaceInv
<1>11. mine \in SUBSET JobId /\ mine \subseteq q.Completed
  BY <1>8, <1>10
<1>12. /\ FreedExactly(f, mine) /\ r.WaiterPin = 0
       /\ \A k \in JobId \ mine : job'[k] = IF k = j THEN r ELSE job[k]
  <2>1. PinWritten(r, j, 0)
    BY <1>5 DEF PinWritten
  <2>2. FreedAndWritten(mine, j, r)
    BY <1>6, <1>9 DEF FreedAndWritten
  <2>3. 0 \in {0, 1} /\ job[j].mem = "alloc" /\ job[j].Owner = f /\ mine \in SUBSET JobId
    BY <1>3, <1>11
  <2>4. DrainWrites(f, mine, j, 0, r)
    BY <2>1, <2>2, <2>3 DEF DrainWrites
  <2> QED BY <2>4, FreeAndPin
<1>13. \A k \in mine : job[k].Owner = f
  <2>1. r.Owner = f
    BY <1>3, <1>5 DEF JobRec
  <2>2. \A k \in JobId : left[k] = IF k = j THEN r ELSE job[k]
    BY <1>6 DEF IInv, TypeInv, QueueInv
  <2> QED BY <1>3, <1>8, <1>11, <2>2
<1>14. OffLists(mine)
  <2>1. ToSet(q.Pending) = ToSet(q.Pending) \ mine
    <3>1. \A k \in mine : k \notin InPending
      BY <1>11 DEF IInv, PlaceInv, PlaceOK
    <3> QED BY <3>1 DEF InPending
  <2> QED BY <1>9, <1>10, <2>1 DEF OffLists, QueueType
<1>15. HwInv' /\ UNCHANGED <<hw, ran, irq, gated>>
  <2>1. needsReset' \in BOOLEAN
    BY <1>1 DEF IInv, TypeInv, HwInv, CtlInv
  <2> QED BY <1>1, <2>1 DEF IInv, TypeInv, HwInv, hwVars, pwrVars, fileVars
<1>16. \A k \in JobId \ mine : job[k].mem = "alloc" /\ job[k].Owner = f => job'[k].WaiterPin = 0
  <2>1. \A k \in JobId \ {j} : job[k].mem = "alloc" /\ job[k].Owner = f => job[k].WaiterPin = 0
    BY <1>2, OnePin
  <2> QED BY <1>12, <2>1
<1> QED BY <1>1, <1>11, <1>12, <1>13, <1>14, <1>15, <1>16, FileDone

LEMMA SubmitInv == ASSUME IInv, NEW f \in Files, Submit(f) PROVE IInv'
<1> USE Names
<1>1. PICK n \in JobId : n = nextId' /\ n = nextId + 1
  BY Av1Assumption DEF Submit, IInv, TypeInv, QueueInv, JobId
<1>2. PICK w \in SUBSET Regs : job' = [job EXCEPT ![n] = NewJob(f, w)]
  BY <1>1 DEF Submit
<1>3. /\ pc[f] = "idle" /\ pc["power"] = "d0" /\ cur[f] = NoJob /\ f \in Agents
      /\ UNCHANGED <<work, hwVars, regVars, pwrVars, fileVars, arg>>
  BY DEF Submit, Ioctl, IInv, PinInv, Waiting
<1>4. HwInv' /\ UNCHANGED <<hw, ran, irq, gated>>
  BY <1>3, HwFrame DEF IInv, TypeInv, hwVars, pwrVars
<1>5. q \in QueueType /\ Distinct(q.Pending) /\ q.Pending \in Seq(JobId)
  BY DEF IInv, TypeInv, QueueInv, QueueType, PlaceInv
<1>6. /\ job' \in [JobId -> {NoRecord, Freed} \cup JobRec]
      /\ job'[n] = NewJob(f, w) /\ \A k \in JobId \ {n} : job'[k] = job[k]
  BY <1>2, JobFacts DEF IInv, TypeInv, QueueInv
<1>7. /\ job'[n].mem = "alloc" /\ job'[n].Owner = f /\ job'[n].WaiterPin = 0 /\ ~job'[n].Done
  BY <1>6, JobFacts
<1>8. /\ job[n].mem = "none" /\ q.InFlight # n /\ n \notin InPending /\ n \notin q.Completed
      /\ nextId' \in 0 .. MaxJobs /\ \A k \in JobId : k > nextId' => k > nextId /\ k # n
  <2>1. n > nextId /\ nextId' \in 0 .. MaxJobs /\ \A k \in JobId : k > nextId' => k > nextId /\ k # n
    BY <1>1 DEF IInv, TypeInv, QueueInv, JobId
  <2> QED BY <2>1 DEF IInv, PlaceInv, PlaceOK
<1>9. ResultIsOwn' \/ q'.Completed # q.Completed
  <2>1. \A k \in q.Completed : job'[k] = job[k]
    BY <1>5, <1>6, <1>8 DEF QueueType
  <2> QED BY <1>4, <2>1 DEF ResultIsOwn, IInv
<1>10. CASE q.InFlight = NoJob /\ ~q.Draining
  <2>1. /\ q' = [q EXCEPT !.InFlight = n]
        /\ pc' = [pc EXCEPT ![f] = "start"] /\ cur' = [cur EXCEPT ![f] = n]
    BY <1>1, <1>10 DEF Submit, GotoWith, Goto
  <2>2. /\ q' \in QueueType /\ q'.InFlight = n /\ q'.Pending = q.Pending
        /\ q'.Completed = q.Completed /\ q'.Draining = q.Draining
        /\ q'.KickRearm = q.KickRearm /\ q'.KickActive = q.KickActive
    BY <1>5, <2>1 DEF QueueType
  <2>3. /\ hw.job = NoJob /\ hw.sta = "none" /\ irq.dpc = "none"
        /\ \A a \in Agents : pc[a] # "start"
    BY <1>10, SlotEmpty
  <2>c. /\ pc'[f] = "start" /\ cur'[f] = n
        /\ \A a \in Agents \ {f} : pc'[a] = pc[a] /\ cur'[a] = cur[a]
    BY <1>3, <2>1 DEF IInv, TypeInv, CtlInv
  <2>4. TypeInv'
    <3>1. CtlInv'
      BY <1>3, <2>1, CtlMove DEF IInv, TypeInv, FileLabels
    <3> QED BY <1>3, <1>4, <1>6, <1>8, <2>2, <3>1 DEF IInv, TypeInv, QueueInv
  <2>5. PlaceInv'
    <3>1. InPending' = InPending
      BY <2>2 DEF InPending
    <3>2. PlaceOK(n)'
      BY <1>7, <1>8, <2>2, <3>1 DEF PlaceOK
    <3>3. ASSUME NEW k \in JobId \ {n} PROVE PlaceOK(k)'
      <4>1. PlaceOK(k) /\ job'[k] = job[k] /\ (k > nextId' => k > nextId)
        BY <1>6, <1>8, <3>3 DEF PlaceInv, IInv
      <4>2. q'.InFlight # k /\ q.InFlight # k
        BY <1>10, <2>2, <3>3, Names
      <4> QED BY <2>2, <3>1, <4>1, <4>2 DEF PlaceOK
    <3>4. \A k \in JobId : PlaceOK(k)'
      BY <3>2, <3>3
    <3> QED BY <1>5, <2>2, <3>4 DEF PlaceInv
  <2>6. PinInv'
    <3>1. ASSUME NEW k \in JobId, job'[k].mem = "alloc", job'[k].WaiterPin # 0
          PROVE  pc'[job'[k].Owner] \in Waiting /\ cur'[job'[k].Owner] = k
      <4>1. k # n /\ job'[k] = job[k]
        BY <1>6, <1>7, <3>1
      <4>2. pc[job[k].Owner] \in Waiting /\ cur[job[k].Owner] = k /\ job[k].Owner \in Agents
        BY <3>1, <4>1, AllocRec, JobFacts DEF IInv, PinInv
      <4>3. job[k].Owner # f
        BY <1>3, <4>2 DEF Waiting
      <4> QED BY <2>c, <4>1, <4>2, <4>3
    <3>2. ASSUME NEW g \in Files, pc'[g] \in Waiting
          PROVE  /\ cur'[g] # NoJob /\ job'[cur'[g]].mem = "alloc"
                 /\ job'[cur'[g]].Owner = g /\ job'[cur'[g]].WaiterPin = 1
      <4>1. g # f
        BY <2>c, <3>2 DEF Waiting
      <4>2. cur'[g] = cur[g] /\ pc[g] \in Waiting /\ cur[g] \in JobId
        BY <2>c, <3>2, <4>1 DEF IInv, PinInv, TypeInv, CtlInv
      <4>3. job[cur[g]].mem = "alloc" /\ job[cur[g]].Owner = g /\ job[cur[g]].WaiterPin = 1
        BY <4>2 DEF IInv, PinInv
      <4>4. job'[cur[g]] = job[cur[g]]
        BY <1>6, <1>8, <4>2, <4>3
      <4> QED BY <4>2, <4>3, <4>4
    <3>3. ASSUME NEW g \in Files, pc'[g] \notin Waiting \cup {"start"} PROVE cur'[g] = NoJob
      BY <2>c, <3>3 DEF IInv, PinInv
    <3> QED BY <3>1, <3>2, <3>3 DEF PinInv
  <2>7. CodecInv'
    BY <1>4, <2>2, <2>3, <2>c DEF IInv, CodecInv, TypeInv, HwInv
  <2>8. PowerInv'
    <3>1. \A a \in {"worker", "dpc", "power"} : pc'[a] = pc[a] /\ cur'[a] = cur[a]
      BY <2>c
    <3> QED BY <1>3, <1>4, <3>1 DEF IInv, PowerInv
  <2>9. KickInv' /\ NeverStranded'
    BY <1>3, <2>2, <2>c DEF IInv, KickInv, NeverStranded, CanPromote
  <2> QED BY <1>9, <2>2, <2>4, <2>5, <2>6, <2>7, <2>8, <2>9 DEF IInv
<1>11. CASE ~(q.InFlight = NoJob /\ ~q.Draining)
  <2>1. q' = [q EXCEPT !.Pending = Append(q.Pending, n)] /\ UNCHANGED <<pc, cur>>
    BY <1>1, <1>5, <1>11 DEF Submit, QueueType
  <2>2. /\ Append(q.Pending, n) \in Seq(JobId) /\ Distinct(Append(q.Pending, n))
        /\ ToSet(Append(q.Pending, n)) = ToSet(q.Pending) \cup {n}
    BY <1>5, <1>8, AppendFacts DEF InPending
  <2>3. /\ q' \in QueueType /\ q'.InFlight = q.InFlight /\ q'.Pending = Append(q.Pending, n)
        /\ q'.Completed = q.Completed /\ q'.Draining = q.Draining
        /\ q'.KickRearm = q.KickRearm /\ q'.KickActive = q.KickActive
    BY <1>5, <2>1, <2>2 DEF QueueType
  <2>4. TypeInv'
    BY <1>3, <1>4, <1>6, <1>8, <2>1, <2>3 DEF IInv, TypeInv, QueueInv, CtlInv
  <2>5. PlaceInv'
    <3>1. InPending' = InPending \cup {n}
      BY <2>2, <2>3 DEF InPending
    <3>2. PlaceOK(n)'
      BY <1>7, <1>8, <2>3, <3>1 DEF PlaceOK
    <3>3. ASSUME NEW k \in JobId \ {n} PROVE PlaceOK(k)'
      BY <1>6, <1>8, <2>3, <3>1, <3>3 DEF PlaceOK, PlaceInv, IInv
    <3>4. \A k \in JobId : PlaceOK(k)'
      BY <3>2, <3>3
    <3> QED BY <2>2, <2>3, <3>4 DEF PlaceInv
  <2>6. PinInv'
    <3>1. ASSUME NEW k \in JobId, job'[k].mem = "alloc", job'[k].WaiterPin # 0
          PROVE  pc'[job'[k].Owner] \in Waiting /\ cur'[job'[k].Owner] = k
      <4>1. k # n /\ job'[k] = job[k]
        BY <1>6, <1>7, <3>1
      <4> QED BY <2>1, <3>1, <4>1 DEF IInv, PinInv
    <3>2. ASSUME NEW g \in Files, pc[g] \in Waiting PROVE job'[cur[g]] = job[cur[g]]
      <4>1. cur[g] \in JobId /\ job[cur[g]].mem = "alloc"
        BY <3>2 DEF IInv, PinInv, TypeInv, CtlInv
      <4> QED BY <1>6, <1>8, <4>1
    <3> QED BY <2>1, <3>1, <3>2 DEF IInv, PinInv
  <2>7. CodecInv' /\ PowerInv'
    BY <1>4, <2>1, <2>3 DEF IInv, CodecInv, PowerInv, Starting
  <2>8. KickInv' /\ NeverStranded'
    BY <1>3, <1>11, <2>1, <2>3 DEF IInv, KickInv, NeverStranded, CanPromote
  <2> QED BY <1>9, <2>3, <2>4, <2>5, <2>6, <2>7, <2>8 DEF IInv
<1> QED BY <1>10, <1>11

LEMMA SubmitBusyInv == ASSUME IInv, NEW f \in Files, SubmitBusy(f) PROVE IInv'
<1> USE Names DEF IInv
<1>0. /\ nextId' = nextId + 1 /\ nextId' \in 0 .. MaxJobs /\ nextId \in Nat
      /\ UNCHANGED <<q, job, work, hwVars, regVars, pwrVars, fileVars, ctl>>
  BY Av1Assumption DEF SubmitBusy, TypeInv, QueueInv
<1>1. TypeInv'
  BY <1>0, HwFrame DEF TypeInv, QueueInv, CtlInv, ctl
<1>2. PlaceInv'
  BY <1>0 DEF PlaceInv, PlaceOK, Distinct, InPending, JobId
<1>3. PinInv' /\ CodecInv' /\ PowerInv'
  BY <1>0 DEF PinInv, CodecInv, PowerInv, Starting, ctl, hwVars, pwrVars
<1>4. KickInv' /\ ResultIsOwn' /\ NeverStranded'
  BY <1>0 DEF KickInv, ResultIsOwn, NeverStranded, CanPromote, ctl, hwVars
<1> QED BY <1>1, <1>2, <1>3, <1>4

-----------------------------------------------------------------------------
(***************************************************************************)
(* The invariant and what follows from it.                                 *)
(***************************************************************************)

LEMMA InitInv == Init => IInv
<1> SUFFICES ASSUME Init PROVE IInv
  OBVIOUS
<1> USE Names
<1>1. TypeInv
  <2>1. QueueInv
    <3>1. q \in QueueType
      BY DEF Init, QueueInit, QueueType
    <3>2. job \in [JobId -> {NoRecord, Freed} \cup JobRec] /\ work \in BOOLEAN
      BY DEF Init
    <3>3. nextId \in 0 .. MaxJobs
      BY Av1Assumption DEF Init
    <3> QED BY <3>1, <3>2, <3>3 DEF QueueInv
  <2>2. HwInv
    <3>1. cycles \in 0 .. MaxCycles
      BY Av1Assumption DEF Init
    <3>2. /\ hw \in [job : JobId \cup {NoJob}, sta : {"none", "ok", "error"}, regs : SUBSET Regs]
          /\ irq \in [on : BOOLEAN, dpc : {"none", "ok", "error"}]
      BY DEF Init
    <3>3. ran \in [JobId -> {"unset", "ok", "error"}] /\ errs \in [Files -> BOOLEAN]
      BY DEF Init
    <3> QED BY <3>1, <3>2, <3>3 DEF Init, HwInv
  <2>3. CtlInv
    BY DEF Init, CtlInv, FileLabels, PowerLabels
  <2> QED BY <2>1, <2>2, <2>3 DEF TypeInv
<1>2. /\ q.InFlight = NoJob /\ q.Pending = <<>> /\ q.Completed = {} /\ ~q.Draining /\ ~q.KickActive
      /\ InPending = {}
  BY EmptyFacts DEF Init, QueueInit, InPending
<1>3. PlaceInv
  <2>1. Distinct(<<>>)
    BY DEF Distinct
  <2> QED BY <1>2, <2>1, JobFacts DEF Init, PlaceInv, PlaceOK
<1>4. PinInv
  BY JobFacts DEF Init, PinInv, Waiting
<1>5. CodecInv /\ PowerInv
  BY DEF Init, CodecInv, PowerInv, Starting
<1>6. KickInv /\ ResultIsOwn /\ NeverStranded
  BY <1>2 DEF KickInv, ResultIsOwn, NeverStranded, CanPromote
<1> QED BY <1>1, <1>3, <1>4, <1>5, <1>6 DEF IInv

LEMMA NextInv == IInv /\ [Next]_vars => IInv'
<1> SUFFICES ASSUME IInv, [Next]_vars PROVE IInv'
  OBVIOUS
<1>1. ASSUME NEW f \in Files, ThreadNext(f) PROVE IInv'
  BY <1>1, Names, AllocBufferInv, SubmitInv, SubmitBusyInv, JobStartInv, WaitFindInv, WaitTimeoutInv,
     WaitEndInv, DrainOwnerInv, DrainEndInv, CleanupInv DEF ThreadNext
<1>2. CASE SystemNext
  BY <1>2, Names, WorkerBeginInv, WorkerTurnInv, JobStartInv, HwFinishInv, EvtIsrInv, EvtDpcInv,
     EnqueueInv DEF SystemNext
<1>3. CASE PowerNext
  BY <1>3, Names, PowerDownInv, PowerUpInv, JobStartInv DEF PowerNext
<1>4. CASE UNCHANGED vars
  <2>1. TypeInv'
    BY <1>4, HwFrame DEF IInv, TypeInv, QueueInv, CtlInv, vars, qVars, ctl
  <2> QED BY <1>4, <2>1, Idle DEF vars, qVars, hwVars, pwrVars, ctl
<1> QED BY <1>1, <1>2, <1>3, <1>4 DEF Next

\* The inductive invariant of the AV1 job engine.
THEOREM Av1Invariant == Spec => []IInv
<1> QED BY InitInv, NextInv, PTL DEF Spec

LEMMA LiveFromInv == IInv => NoUseAfterFree
<1> SUFFICES ASSUME IInv, NEW a \in Agents, cur[a] # NoJob PROVE job[cur[a]].mem = "alloc"
  BY DEF NoUseAfterFree
<1> USE Names DEF IInv
<1>1. q.InFlight # NoJob => job[q.InFlight].mem = "alloc"
  BY DEF PlaceInv, PlaceOK, TypeInv, QueueInv, QueueType
<1>2. CASE a \in Files
  BY <1>1, <1>2 DEF PinInv, CodecInv
<1>3. CASE a \in {"worker", "dpc", "power"}
  BY <1>1, <1>3 DEF PowerInv, CodecInv
<1> QED BY <1>2, <1>3

\* No thread points to a freed job: not WAIT_JOB or the cleanup, which pin it,
\* and not Quiesce, which does not, because completions are off outside D0.
THEOREM Av1NoUseAfterFree == Spec => []NoUseAfterFree
<1> QED BY Av1Invariant, LiveFromInv, PTL

\* The DPC completes the job that the codec signalled: what a waiter reads is
\* how its own job ended, whatever timeouts, cleanups and D0 cycles came between.
THEOREM Av1ResultIsOwn == Spec => []ResultIsOwn
<1>1. IInv => ResultIsOwn
  BY DEF IInv
<1> QED BY <1>1, Av1Invariant, PTL

LEMMA KickFromInv == IInv => KickSafe
<1> SUFFICES ASSUME IInv PROVE KickSafe
  OBVIOUS
<1>1. Starting => ~gated
  BY DEF IInv, PowerInv
<1> QED BY <1>1 DEF IInv, CodecInv, KickSafe

\* One agent at a time programs the codec, which is idle and clocked.
THEOREM Av1KickSafe == Spec => []KickSafe
<1> QED BY Av1Invariant, KickFromInv, PTL

\* Pending jobs behind an empty slot always have an agent on the way that will
\* promote one.
THEOREM Av1NeverStranded == Spec => []NeverStranded
<1>1. IInv => NeverStranded
  BY DEF IInv
<1> QED BY <1>1, Av1Invariant, PTL
=============================================================================
