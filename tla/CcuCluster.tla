----------------------------- MODULE CcuCluster -----------------------------
(***************************************************************************)
(* rkmpp_ccu: the power, clock and reset sequencer of the codec cluster,   *)
(* and the PnP paths of its three clients (RVD0, RVD1 and AV1) that call   *)
(* it.  A locked entry point runs as a program of register operations, one *)
(* per step, by the thread that holds g_ccu_mutex; the leaf-clock and      *)
(* core-reset entry points are single writes and take no lock.             *)
(*                                                                         *)
(* A CRU word is abstracted to named groups of bits.  A bus group holds    *)
(* the clocks (resets) an idle handshake needs, a leaf (core) group the    *)
(* codec-internal ones the job engine toggles around every kick.           *)
(***************************************************************************)
EXTENDS Naturals, Sequences, FiniteSets

CONSTANTS
  MaxFaults,  \* how many PMU handshakes may time out by themselves
  MaxGates    \* how many completions may be on their way to a clock gate

ASSUME MaxFaultsAssumption == MaxFaults \in Nat
ASSUME MaxGatesAssumption == MaxGates \in Nat

VARIABLES
  mmio,      \* g_cru_mmio and g_pmu_mmio are mapped
  refs,      \* [rk, av1, par]: the three reference counts
  mx,        \* g_ccu_mutex: the thread inside, what it runs and its status
  call,      \* thread -> the entry point it is inside (or waits to enter)
  pc,        \* client -> where its driver's PnP path is
  busy,      \* cores with a job kicked
  quiet,     \* history: those kicked with no gate of an earlier job on its way
  gating,    \* core -> completions that have yet to write its clock gate
  gated,     \* CLKGATE groups whose clocks are stopped
  reset,     \* SOFTRST groups held in reset
  clksel,    \* clusters whose CLKSEL words are programmed
  pwr,       \* PMU power-gate requests: domains asked to be on
  on,        \* PMU status: domains that are on
  req,       \* PMU idle requests asserted
  idle,      \* PMU idle state and ack: buses that are idle
  faults,    \* handshakes that have timed out by themselves
  tainted    \* domains whose last handshake timed out

vars == <<mmio, refs, mx, call, pc, busy, quiet, gating, gated, reset, clksel,
          pwr, on, req, idle, faults, tainted>>
jobVars  == <<busy, quiet, gating>>
pmuVars  == <<pwr, on, req, idle, faults, tainted>>
cruVars  == <<gated, reset, clksel>>
hwVars   == <<pmuVars, cruVars>>

-----------------------------------------------------------------------------
(* The static tables: domains, clients, threads and CRU bit groups.        *)

Domains == {"VCODEC", "VDPU", "RKVDEC0", "RKVDEC1", "AV1"}
Rvds    == {"rvd0", "rvd1"}
Clients == Rvds \cup {"av1"}
Files   == {"f0", "f1", "fav1"}     \* a session cleanup of each client
Threads == Clients \cup Files

OwnerOf(t) == CASE t = "f0" -> "rvd0" [] t = "f1" -> "rvd1" [] t = "fav1" -> "av1"
                [] OTHER -> t
DomainOf(c) == CASE c = "rvd0" -> "RKVDEC0" [] c = "rvd1" -> "RKVDEC1"
                 [] c = "av1" -> "AV1"

\* g_rdcc's masks: what a whole-word write of each register covers.
Con40 == {"40bus", "40leaf"}
Con41 == {"41bus", "41leaf"}
Con44 == {"44"}
Con68 == {"68"}
ConOf(c)  == CASE c = "rvd0" -> Con40 [] c = "rvd1" -> Con41 [] c = "av1" -> Con68
LeafOf(c) == CASE c = "rvd0" -> {"40leaf"} [] c = "rvd1" -> {"41leaf"}
               [] c = "av1" -> Con68
BusOf(d)  == CASE d = "VDPU" -> Con44 [] d = "RKVDEC0" -> {"40bus"}
               [] d = "RKVDEC1" -> {"41bus"} [] d = "AV1" -> Con68

HasIdle(d) == d # "VCODEC"

\* The hi-word-mask write: bits of the mask take the value, others stay.
HiwordWrite(word, mask, value) == (word \ mask) \cup (value \cap mask)

-----------------------------------------------------------------------------
(* The PMU.  The ack follows a request only while the bus has its clocks,  *)
(* its NIU is out of reset and its parents are up; otherwise the poll runs *)
(* out.  A poll may also run out by itself, MaxFaults times.               *)

BusAlive(d, up) ==
  /\ {d, "VCODEC", "VDPU"} \subseteq up
  /\ (BusOf(d) \cup Con44) \cap (gated \cup reset) = {}

Fault(d)   == faults < MaxFaults /\ faults' = faults + 1 /\ tainted' = tainted \cup {d}
NoFault    == UNCHANGED faults

\* RkMppPmuPowerOn: release the power gate, then the idle request unless the
\* bus already reports active.
PowerOnOk(d) ==
  /\ pwr' = pwr \cup {d} /\ on' = on \cup {d} /\ NoFault
  /\ IF ~HasIdle(d) \/ d \notin idle
       THEN /\ UNCHANGED <<req, idle>>
            /\ tainted' = IF d \in req THEN tainted ELSE tainted \ {d}
       ELSE /\ BusAlive(d, on \cup {d})
            /\ req' = req \ {d} /\ idle' = idle \ {d} /\ tainted' = tainted \ {d}

PowerOnTimeout(d) ==
  /\ pwr' = pwr \cup {d} /\ UNCHANGED idle
  /\ \/ d \notin on /\ Fault(d) /\ UNCHANGED <<on, req>>
     \/ /\ HasIdle(d) /\ d \in idle
        /\ on' = on \cup {d} /\ req' = req \ {d}
        /\ IF BusAlive(d, on \cup {d}) THEN Fault(d)
                                       ELSE NoFault /\ tainted' = tainted \cup {d}

\* RkMppPmuPowerOff: request idle, wait for the ack, close the power gate.  A
\* status that is late to fall is ignored.
PowerOffOk(d) ==
  /\ HasIdle(d) => d \in idle \/ BusAlive(d, on)
  /\ req' = (IF HasIdle(d) THEN req \cup {d} ELSE req)
  /\ idle' = (IF HasIdle(d) THEN idle \cup {d} ELSE idle)
  /\ pwr' = pwr \ {d}
  /\ \/ on' = on \ {d} /\ NoFault /\ UNCHANGED tainted
     \/ d \in on /\ Fault(d) /\ UNCHANGED on

PowerOffTimeout(d) ==
  /\ HasIdle(d) /\ d \notin idle
  /\ req' = req \cup {d} /\ UNCHANGED <<pwr, on, idle>>
  /\ IF BusAlive(d, on) THEN Fault(d) ELSE NoFault /\ tainted' = tainted \cup {d}

\* RkMppPmuIdleRequest: success whether or not the ack tracked the request.
IdleRequest(d, want) ==
  /\ req' = (IF want THEN req \cup {d} ELSE req \ {d})
  /\ UNCHANGED <<pwr, on>>
  /\ \/ /\ BusAlive(d, on) \/ (d \in idle) = want
        /\ idle' = (IF want THEN idle \cup {d} ELSE idle \ {d})
        /\ NoFault
        /\ tainted' = IF want THEN tainted ELSE tainted \ {d}
     \/ /\ (d \in idle) # want /\ UNCHANGED idle
        /\ IF BusAlive(d, on) THEN Fault(d) ELSE NoFault /\ tainted' = tainted \cup {d}

\* What the hardware does on its own time: a late ack, a late power status.
PmuSettle ==
  /\ \E d \in Domains :
       \/ /\ HasIdle(d) /\ (d \in req) # (d \in idle) /\ BusAlive(d, on)
          /\ idle' = (IF d \in req THEN idle \cup {d} ELSE idle \ {d})
          /\ tainted' = (IF d \in req THEN tainted ELSE tainted \ {d})
          /\ UNCHANGED on
       \/ /\ (d \in pwr) # (d \in on)
          /\ on' = (IF d \in pwr THEN on \cup {d} ELSE on \ {d})
          /\ UNCHANGED <<idle, tainted>>
  /\ UNCHANGED <<mmio, refs, mx, call, pc, jobVars, gated, reset, clksel,
                 pwr, req, faults>>

-----------------------------------------------------------------------------
(* The locked entry points, as programs.                                   *)

On(d)        == [op |-> "On", d |-> d]
Off(d)       == [op |-> "Off", d |-> d]
Idle(want)   == [op |-> "Idle", want |-> want]
Gate(m)      == [op |-> "Gate", m |-> m, v |-> m]
Ungate(m)    == [op |-> "Gate", m |-> m, v |-> {}]
Assert(m)    == [op |-> "Reset", m |-> m, v |-> m]
Deassert(m)  == [op |-> "Reset", m |-> m, v |-> {}]
Clksel(k)    == [op |-> "Clksel", k |-> k]
RaiseParents == [op |-> "RaiseParents"]
DropParents  == [op |-> "DropParents"]
ParentsDec   == [op |-> "ParentsDec"]
SetRef(k, n) == [op |-> "SetRef", k |-> k, n |-> n]

RaiseParentsProg == << On("VCODEC"), Ungate(Con44), Deassert(Con44), On("VDPU") >>
DropParentsProg  == << Off("VDPU"), Assert(Con44), Gate(Con44), Off("VCODEC") >>

RaiseClusterProg ==
  << RaiseParents, Clksel("rk"), Ungate(Con40), Deassert(Con40), On("RKVDEC0"),
     Ungate(Con41), Deassert(Con41), On("RKVDEC1"), SetRef("rk", 1) >>

DropClusterProg ==
  << Off("RKVDEC1"), Off("RKVDEC0"), Assert(Con40), Assert(Con41), Gate(Con41),
     Gate(Con40), DropParents, SetRef("rk", 0) >>

RaiseAv1Prog ==
  << RaiseParents, Clksel("av1"), Ungate(Con68), Deassert(Con68), On("AV1"),
     SetRef("av1", 1) >>

DropAv1Prog ==
  << Off("AV1"), Assert(Con68), Gate(Con68), DropParents, SetRef("av1", 0) >>

\* Mutant: the reset also pulses the NIU all codecs share, as before v8.
FullCoreResetWithNiu(c) ==
  << Off(DomainOf(c)), Assert(ConOf(c)), Assert(Con44), Deassert(Con44),
     Ungate(ConOf(c)), Deassert(ConOf(c)), On(DomainOf(c)) >>

FullCoreResetProg(c) ==
  << Off(DomainOf(c)), Assert(ConOf(c)) >>
  \o (IF c = "rvd0" THEN << Clksel("rk") >> ELSE << >>)
  \o << Ungate(ConOf(c)), Deassert(ConOf(c)), On(DomainOf(c)) >>

FullAv1ResetProg == << Idle(TRUE), Assert(Con68), Deassert(Con68), Idle(FALSE) >>

\* Mutant: a failed raise leaves the rkvdec0 group out of reset.
UndoNoReset(e, d) ==
  CASE d \in {"VCODEC", "VDPU"} -> << Gate(Con44), Assert(Con44), ParentsDec >>
    [] OTHER -> << Gate(Con40), Gate(Con41), Assert(Con41), Gate(Con68), DropParents >>

\* What a failed power-on of domain d undoes inside entry point e.
UndoProg(e, d) ==
  CASE d = "VCODEC" -> << ParentsDec >>
    [] d = "VDPU"   -> << Gate(Con44), Assert(Con44), Off("VCODEC"), ParentsDec >>
    [] e = "Raise" /\ d = "RKVDEC0" -> << Assert(Con40), Gate(Con40), DropParents >>
    [] e = "Raise" /\ d = "RKVDEC1" ->
         << Assert(Con41), Gate(Con41), Off("RKVDEC0"), Assert(Con40), Gate(Con40),
            DropParents >>
    [] e = "Raise" /\ d = "AV1" -> << Gate(Con68), DropParents >>
    [] OTHER -> << >>

NoHolder == [t |-> "none", prog |-> << >>, ok |-> TRUE]

\* Which count a client's raises go to.
RefOf(c) == IF c \in Rvds THEN "rk" ELSE "av1"

\* Take the mutex and choose the program; a raise of a raised cluster, a drop
\* that is not the last and a drop of a dropped one only touch the count.
EnterRaise(c) ==
  LET k == RefOf(c)
  IN  IF refs[k] > 0
        THEN /\ refs' = [refs EXCEPT ![k] = @ + 1]
             /\ mx' = [t |-> c, prog |-> << >>, ok |-> TRUE]
        ELSE /\ mx' = [t |-> c, ok |-> TRUE,
                       prog |-> IF k = "rk" THEN RaiseClusterProg ELSE RaiseAv1Prog]
             /\ UNCHANGED refs

EnterDrop(c) ==
  LET k == RefOf(c)
  IN  IF refs[k] # 1
        THEN /\ refs' = [refs EXCEPT ![k] = IF @ > 1 THEN @ - 1 ELSE 0]
             /\ mx' = [t |-> c, prog |-> << >>, ok |-> TRUE]
        ELSE /\ mx' = [t |-> c, ok |-> TRUE,
                       prog |-> IF k = "rk" THEN DropClusterProg ELSE DropAv1Prog]
             /\ UNCHANGED refs

EnterFullReset(t) ==
  /\ mx' = [t |-> t, ok |-> TRUE,
            prog |-> IF OwnerOf(t) = "av1" THEN FullAv1ResetProg
                                           ELSE FullCoreResetProg(OwnerOf(t))]
  /\ UNCHANGED refs

Enter(t) ==
  /\ call[t] \in {"Raise", "Drop", "FullReset"} /\ mx = NoHolder /\ mmio
  /\ CASE call[t] = "Raise" -> EnterRaise(t)
       [] call[t] = "Drop"  -> EnterDrop(t)
       [] call[t] = "FullReset" -> EnterFullReset(t)
  /\ UNCHANGED <<mmio, call, pc, jobVars, hwVars>>

Rest == Tail(mx.prog)
Goto(p) == mx' = [mx EXCEPT !.prog = p]
Abort(p) == mx' = [mx EXCEPT !.prog = p, !.ok = FALSE]

\* One register operation of the program the mutex holder runs.
StepOn ==
  /\ Head(mx.prog).op = "On"
  /\ LET d == Head(mx.prog).d
     IN  \/ PowerOnOk(d) /\ Goto(Rest)
         \/ PowerOnTimeout(d) /\ Abort(UndoProg(call[mx.t], d))
  /\ UNCHANGED <<refs, cruVars>>

StepOff ==
  /\ Head(mx.prog).op = "Off"
  /\ LET d == Head(mx.prog).d IN PowerOffOk(d) \/ PowerOffTimeout(d)
  /\ Goto(Rest)
  /\ UNCHANGED <<refs, cruVars>>

StepIdle ==
  /\ Head(mx.prog).op = "Idle"
  /\ IdleRequest("AV1", Head(mx.prog).want)
  /\ Goto(Rest)
  /\ UNCHANGED <<refs, cruVars>>

StepCru ==
  /\ LET i == Head(mx.prog)
     IN  \/ /\ i.op = "Gate" /\ gated' = HiwordWrite(gated, i.m, i.v)
            /\ UNCHANGED <<reset, clksel>>
         \/ /\ i.op = "Reset" /\ reset' = HiwordWrite(reset, i.m, i.v)
            /\ UNCHANGED <<gated, clksel>>
         \/ /\ i.op = "Clksel" /\ clksel' = clksel \cup {i.k}
            /\ UNCHANGED <<gated, reset>>
  /\ Goto(Rest)
  /\ UNCHANGED <<refs, pmuVars>>

StepRefs ==
  /\ LET i == Head(mx.prog)
     IN  \/ /\ i.op = "RaiseParents"
            /\ refs' = [refs EXCEPT !.par = @ + 1]
            /\ Goto(IF refs.par = 0 THEN RaiseParentsProg \o Rest ELSE Rest)
         \/ /\ i.op = "DropParents"
            /\ refs' = [refs EXCEPT !.par = @ - 1]
            /\ Goto(IF refs.par = 1 THEN DropParentsProg \o Rest ELSE Rest)
         \/ /\ i.op = "ParentsDec"
            /\ refs' = [refs EXCEPT !.par = @ - 1]
            /\ Goto(Rest)
         \/ /\ i.op = "SetRef"
            /\ refs' = [refs EXCEPT ![i.k] = i.n]
            /\ Goto(Rest)
  /\ UNCHANGED hwVars

Step ==
  /\ mx.prog # << >>
  /\ StepOn \/ StepOff \/ StepIdle \/ StepCru \/ StepRefs
  /\ UNCHANGED <<mmio, call, pc, jobVars>>

-----------------------------------------------------------------------------
(* The clients.                                                            *)

Call(t, e) == call' = [call EXCEPT ![t] = e]
Move(c, p) == pc' = [pc EXCEPT ![c] = p]

\* Where a client's PnP path goes when entry point e returns.
After(c, e, ok) ==
  CASE e = "Raise" -> IF ok THEN "raised" ELSE "down"
    [] e = "Drop"  -> "down"
    [] e = "FullReset" -> IF c \in Rvds THEN "calling" ELSE "d3"

\* What the caller of entry point e does next: the wide reset of an RVD is
\* followed by a core-reset pulse in PrepareHardware and when RVD0 connects.
Following(t, e) ==
  IF e # "FullReset" \/ OwnerOf(t) = "av1" THEN {"none"}
  ELSE IF t \in Clients THEN {"Pulse"}
  ELSE IF t = "f1" THEN {"none", "Pulse"} ELSE {"none"}

\* Release the mutex and return to the caller; not mapped: return at once.
Return(t) ==
  /\ call[t] \in {"Raise", "Drop", "FullReset"}
  /\ \/ mx.t = t /\ mx.prog = << >> /\ mx' = NoHolder
     \/ ~mmio /\ UNCHANGED mx
  /\ \E e \in Following(t, call[t]) : Call(t, e)
  /\ IF t \in Clients THEN Move(t, After(t, call[t], mmio /\ mx.ok)) ELSE UNCHANGED pc
  /\ UNCHANGED <<mmio, refs, jobVars, hwVars>>

PrepareHardware(c) ==
  /\ pc[c] = "down" /\ call[c] = "none"
  /\ Call(c, "Raise") /\ Move(c, "calling")
  /\ UNCHANGED <<mmio, refs, mx, jobVars, hwVars>>

\* Past the raise: the wide reset, or for RVD0 the unwinding of an IOMMU that
\* did not enable.
PrepareReset(c) ==
  /\ pc[c] = "raised" /\ call[c] = "none"
  /\ \/ Call(c, "FullReset")
     \/ c = "rvd0" /\ Call(c, "Drop")
  /\ Move(c, "calling")
  /\ UNCHANGED <<mmio, refs, mx, jobVars, hwVars>>

\* The core-reset pulse: assert, then deassert, the codec-internal resets.
AssertCoreReset(t) ==
  /\ call[t] = "Pulse" /\ Call(t, "Pulsed")
  /\ reset' = HiwordWrite(reset, LeafOf(OwnerOf(t)), LeafOf(OwnerOf(t)))
  /\ UNCHANGED <<mmio, refs, mx, pc, jobVars, gated, clksel, pmuVars>>

DeassertCoreReset(t) ==
  /\ call[t] = "Pulsed" /\ Call(t, "none")
  /\ reset' = HiwordWrite(reset, LeafOf(OwnerOf(t)), {})
  /\ IF t \in Clients THEN Move(t, "up") ELSE UNCHANGED pc
  /\ UNCHANGED <<mmio, refs, mx, jobVars, gated, clksel, pmuVars>>

\* JobKickLocalInner's ungate of the leaf clocks.
Kick(c) ==
  /\ c \in Rvds /\ pc[c] = "up" /\ c \notin busy
  /\ gated' = HiwordWrite(gated, LeafOf(c), {}) /\ busy' = busy \cup {c}
  /\ quiet' = (IF gating[c] = 0 THEN quiet \cup {c} ELSE quiet)
  /\ UNCHANGED <<mmio, refs, mx, call, pc, gating, reset, clksel, pmuVars>>

\* The completions, of either core, that have yet to write their gate.
GatesDue == gating["rvd0"] + gating["rvd1"]

\* JobComplete clears the slot under the queue's lock, where it also takes
\* idleAfter: the clocks are gated, after the unlock, only when nothing is
\* pending and (RVD0) the peer's slot is free too.
Complete(c) ==
  /\ c \in busy
  /\ busy' = busy \ {c} /\ quiet' = quiet \ {c}
  /\ \/ GatesDue < MaxGates /\ gating' = [gating EXCEPT ![c] = @ + 1]
     \/ UNCHANGED gating
  /\ UNCHANGED <<mmio, refs, mx, call, pc, hwVars>>

\* Mutant: the gate always writes CON40, as before v7.
GateRvdec0Always(c) ==
  /\ gating[c] > 0 /\ gating' = [gating EXCEPT ![c] = @ - 1]
  /\ gated' = HiwordWrite(gated, {"40leaf"}, {"40leaf"})
  /\ UNCHANGED <<mmio, refs, mx, call, pc, busy, quiet, reset, clksel, pmuVars>>

\* The gate itself, past the unlock: a job may have been kicked in between.
GateLeafClocks(c) ==
  /\ gating[c] > 0 /\ gating' = [gating EXCEPT ![c] = @ - 1]
  /\ gated' = HiwordWrite(gated, LeafOf(c), LeafOf(c))
  /\ UNCHANGED <<mmio, refs, mx, call, pc, busy, quiet, reset, clksel, pmuVars>>

\* rkav1d's D0Entry and D0Exit: the leaf gates of CON68.
D0Entry ==
  /\ pc["av1"] = "d3" /\ Move("av1", "up")
  /\ gated' = HiwordWrite(gated, Con68, {})
  /\ UNCHANGED <<mmio, refs, mx, call, jobVars, reset, clksel, pmuVars>>

D0Exit ==
  /\ pc["av1"] = "up" /\ Move("av1", "d3")
  /\ gated' = HiwordWrite(gated, Con68, Con68)
  /\ UNCHANGED <<mmio, refs, mx, call, jobVars, reset, clksel, pmuVars>>

ReleaseHardware(c) ==
  /\ pc[c] = (IF c \in Rvds THEN "up" ELSE "d3") /\ c \notin busy
  /\ \A t \in Files : OwnerOf(t) = c => call[t] = "none"
  /\ Call(c, "Drop") /\ Move(c, "calling")
  /\ UNCHANGED <<mmio, refs, mx, jobVars, hwVars>>

\* A session cleanup, a kick after a wedged job or (RVD1) RVD0 connecting reset
\* the whole core; a kick after an errored job pulses the core reset.
SessionReset(t) ==
  /\ t \in Files /\ call[t] = "none"
  /\ pc[OwnerOf(t)] = "up"
  /\ \/ Call(t, "FullReset")
     \/ OwnerOf(t) \in Rvds \ busy /\ Call(t, "Pulse")
  /\ UNCHANGED <<mmio, refs, mx, pc, jobVars, hwVars>>

\* rkmpp_ccu's own PrepareHardware and ReleaseHardware: a client's open
\* interface keeps the device from being removed.
CcuPrepareHardware ==
  /\ ~mmio /\ mmio' = TRUE
  /\ UNCHANGED <<refs, mx, call, pc, jobVars, hwVars>>

CcuReleaseHardware ==
  /\ mmio /\ mmio' = FALSE
  /\ \A c \in Clients : pc[c] = "down"
  /\ \A t \in Threads : call[t] = "none"
  /\ UNCHANGED <<refs, mx, call, pc, jobVars, hwVars>>

-----------------------------------------------------------------------------
\* Power-on reset: everything gated, in reset, off and idle.
Init ==
  /\ mmio = FALSE
  /\ refs = [rk |-> 0, av1 |-> 0, par |-> 0]
  /\ mx = NoHolder
  /\ call = [t \in Threads |-> "none"]
  /\ pc = [c \in Clients |-> "down"]
  /\ busy = {} /\ quiet = {} /\ gating = [c \in Rvds |-> 0]
  /\ gated = Con40 \cup Con41 \cup Con44 \cup Con68
  /\ reset = Con40 \cup Con41 \cup Con44 \cup Con68
  /\ clksel = {}
  /\ pwr = {} /\ on = {}
  /\ req = Domains \ {"VCODEC"} /\ idle = Domains \ {"VCODEC"}
  /\ faults = 0 /\ tainted = {}

Next ==
  \/ \E t \in Threads : \/ Enter(t) \/ Return(t)
                        \/ AssertCoreReset(t) \/ DeassertCoreReset(t)
  \/ Step
  \/ \E c \in Clients : PrepareHardware(c) \/ PrepareReset(c) \/ ReleaseHardware(c)
  \/ \E c \in Rvds : Kick(c) \/ Complete(c) \/ GateLeafClocks(c)
  \/ D0Entry \/ D0Exit
  \/ \E t \in Files : SessionReset(t)
  \/ CcuPrepareHardware \/ CcuReleaseHardware
  \/ PmuSettle

Spec == Init /\ [][Next]_vars

-----------------------------------------------------------------------------
(* Properties.                                                             *)

States == {"down", "calling", "raised", "d3", "up"}
Entries == {"none", "Raise", "Drop", "FullReset", "Pulse", "Pulsed"}

\* The types of the sequencer's state (g_raise_refcount, g_av1_refcount and
\* g_parents_refcount never go negative or past their clients).
TypeOK ==
  /\ mmio \in BOOLEAN
  /\ refs.rk \in 0 .. 2 /\ refs.av1 \in 0 .. 1 /\ refs.par \in 0 .. 2
  /\ mx.t \in Threads \cup {"none"} /\ mx.ok \in BOOLEAN
  /\ call \in [Threads -> Entries] /\ pc \in [Clients -> States]
  /\ busy \subseteq Rvds /\ quiet \subseteq busy
  /\ gating \in [Rvds -> 0 .. MaxGates]
  /\ gated \cup reset \subseteq Con40 \cup Con41 \cup Con44 \cup Con68
  /\ clksel \subseteq {"rk", "av1"}
  /\ pwr \cup on \cup req \cup idle \cup tainted \subseteq Domains
  /\ faults \in 0 .. MaxFaults

\* A client whose raise returned success and whose drop has not begun.
Holds(c) ==
  \/ pc[c] \in {"raised", "d3", "up"}
  \/ pc[c] = "calling" /\ call[c] \notin {"Raise", "Drop"}

\* A client whose raise is counted: up to the moment its drop takes the mutex.
Counted(c) == Holds(c) \/ call[c] = "Drop"

Count(k) == Cardinality({c \in Clients : RefOf(c) = k /\ Counted(c)})
Bit(b)   == IF b THEN 1 ELSE 0

\* A core that one of its own callers is resetting.
UnderReset(c) ==
  \E t \in Threads : OwnerOf(t) = c /\ (mx.t = t /\ call[t] = "FullReset")

Pulsing(c) == \E t \in Threads : OwnerOf(t) = c /\ call[t] = "Pulsed"

Needs(c) == {DomainOf(c), "VDPU", "VCODEC"}

\* The two reference counts equal the raises the clients hold, and the parents
\* are counted once per raised cluster: ccu.c's "power-off on one cluster's Drop
\* doesn't yank the rug from under the other".
RefsExact ==
  mx = NoHolder =>
    /\ refs.rk = Count("rk") /\ refs.av1 = Count("av1")
    /\ refs.par = Bit(refs.rk > 0) + Bit(refs.av1 > 0)

\* A client that was told its cluster is up finds it powered, clocked, out of
\* reset and with its bus awake, whatever the other clients raise, drop or
\* reset meanwhile; only its own reset or a PMU time-out may take that away.
PoweredWhileHeld ==
  \A c \in Clients :
    Holds(c) /\ ~UnderReset(c) /\ tainted \cap Needs(c) = {} =>
      /\ Needs(c) \subseteq on \cap pwr
      /\ idle \cap Needs(c) = {}
      /\ Con44 \cap (gated \cup reset) = {}
      /\ BusOf(DomainOf(c)) \cap reset = {}
      /\ (c \in Rvds \/ pc[c] = "up") => BusOf(DomainOf(c)) \cap gated = {}
      /\ RefOf(c) \in clksel

\* A kicked core is not held in reset, and keeps its codec clocks, unless one
\* of its own callers resets it: the peer's kicks, gates and resets touch only
\* the peer's own bits.  The clocks are promised to a job that was kicked with no
\* gate of an earlier completion of its own core on its way; JobComplete gates
\* after its unlock, and the job kicked inside that window may lose them (the
\* finding ClocksRun of the README).
JobUndisturbed ==
  \A c \in busy :
    ~UnderReset(c) /\ ~Pulsing(c) =>
      /\ LeafOf(c) \cap reset = {}
      /\ c \in quiet => LeafOf(c) \cap gated = {}

\* With nobody inside, the rkvdec cluster nobody holds is as at a clean boot:
\* gated and in reset, also after a raise that failed, and switched off unless a
\* handshake timed out.  (The AV1 cluster is the exception, see Av1OffAfterDrop.)
ColdWhenDropped ==
  mx = NoHolder =>
    /\ refs.rk = 0 => /\ Con40 \cup Con41 \subseteq gated \cap reset
                      /\ faults = 0 => {"RKVDEC0", "RKVDEC1"} \cap pwr = {}
    /\ refs.par = 0 => /\ Con44 \subseteq gated \cap reset
                       /\ faults = 0 => {"VDPU", "VCODEC"} \cap pwr = {}

\* rkav1d's teardown: "DropAv1Cluster (refcount -> 0 -> PMU power off)".  Without
\* a hardware fault the AV1 domain is off once nobody holds it.
Av1OffAfterDrop ==
  mx = NoHolder /\ refs.av1 = 0 /\ faults = 0 => "AV1" \notin pwr

====
