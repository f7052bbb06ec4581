----------------------------- MODULE GuardCells -----------------------------
(***************************************************************************)
(* The field part of one time step: every rank clears its local array and  *)
(* deposits into it, guard cells included (ptc_updater::update_particles), *)
(* then send_add_guard_cells folds the guard cells into the interiors that *)
(* own them, and send_guard_cells refreshes the guard cells from there     *)
(* (domain_comm, called from ptc_updater::update for J and Rho).           *)
(*                                                                         *)
(* All of these operations are linear in the field, so a deposit is one    *)
(* unit at one local cell of one rank, chosen freely for every step.       *)
(***************************************************************************)
EXTENDS Halo, MPI

CONSTANTS
  MaxStep,  \* time steps each rank takes (bound of the model)
  Sites     \* the rank and local cell of the deposit of each step (bound)

ASSUME SitesAssumption ==
  /\ MaxStep \in Nat \ {0}
  /\ Sites \subseteq [0..(MaxStep - 1) -> Rank \X Cell]

VARIABLES
  stage,  \* where each rank is inside its time step
  phase,  \* the exchange phase: 2 * Dim adding ones, then 2 * Dim copies
  step,   \* the time step of each rank
  val,    \* the array of each rank
  net,    \* messages sent and not yet received
  site    \* history: the rank and local cell of the deposit of each step

vars == <<stage, phase, step, val, net, site>>

Stages == {"deposit", "send", "recv", "ready", "done"}
Phases == 1..(4 * Dim)

Adds(k) == k <= 2 * Dim
Sub(k) == IF Adds(k) THEN k ELSE k - 2 * Dim
To(r, k) == Dest(r, Sub(k))
From(r, k) == Source(r, Sub(k))

\* Mutants: the folded slab is the outermost interior one; the refreshed
\* slab starts one cell early.
SendIdxInner(k) == IF PhaseDir(Sub(k)) = -1 THEN G ELSE W - 2 * G
RecvIdxEarly(k) ==
  IF Adds(k) THEN (IF PhaseDir(Sub(k)) = -1 THEN W - 2 * G ELSE G)
  ELSE (IF PhaseDir(Sub(k)) = -1 THEN W - G - 1 ELSE 0)

\* send_idx and recv_idx along the axis of the phase.
SendIdx(k) ==
  IF Adds(k) THEN (IF PhaseDir(Sub(k)) = -1 THEN 0 ELSE W - G)
  ELSE (IF PhaseDir(Sub(k)) = -1 THEN G ELSE W - 2 * G)
RecvIdx(k) ==
  IF Adds(k) THEN (IF PhaseDir(Sub(k)) = -1 THEN W - 2 * G ELSE G)
  ELSE (IF PhaseDir(Sub(k)) = -1 THEN W - G ELSE 0)

\* A slab G cells thick along the axis of the phase, guard to guard across.
Slab(k) == {c \in Cell : /\ RecvIdx(k) <= c[PhaseAxis(Sub(k))]
                         /\ c[PhaseAxis(Sub(k))] < RecvIdx(k) + G}

\* The slab at SendIdx of rank r, indexed by the cells it is meant for.
Payload(r, k) ==
  [c \in Slab(k) |->
     val[r][[c EXCEPT ![PhaseAxis(Sub(k))] = @ - RecvIdx(k) + SendIdx(k)]]]

\* Mutant of Received: the copying phases add to the guard cells.
ReceivedSum(r, k, load) ==
  [c \in Cell |-> IF c \notin Slab(k) THEN val[r][c] ELSE val[r][c] + load[c]]

Received(r, k, load) ==
  [c \in Cell |-> IF c \notin Slab(k) THEN val[r][c]
                  ELSE IF Adds(k) THEN val[r][c] + load[c] ELSE load[c]]

At(r, s) == stage[r] = s
Goto(r, s) == stage' = [stage EXCEPT ![r] = s]
LastPhase(k) == k = 4 * Dim

NextPhase(r) ==
  IF LastPhase(phase[r])
  THEN Goto(r, "ready") /\ UNCHANGED phase
  ELSE Goto(r, "send") /\ phase' = [phase EXCEPT ![r] = @ + 1]

Init ==
  /\ stage = [r \in Rank |-> "deposit"]
  /\ phase = [r \in Rank |-> 1]
  /\ step = [r \in Rank |-> 0]
  /\ val = [r \in Rank |-> [c \in Cell |-> 0]]
  /\ net = {}
  /\ site \in Sites

\* J->init(), then the deposit of the particles of r.
Deposit(r) ==
  /\ At(r, "deposit")
  /\ val' = [val EXCEPT ![r] =
               [c \in Cell |-> IF site[step[r]] = <<r, c>> THEN 1 ELSE 0]]
  /\ phase' = [phase EXCEPT ![r] = 1]
  /\ Goto(r, "send")
  /\ UNCHANGED <<step, net, site>>

\* dest == m_rank && origin == m_rank: the array is its own neighbour.
ShortCut(r, k) == To(r, k) = r /\ From(r, k) = r

LocalCopy(r) ==
  LET k == phase[r] IN
  /\ At(r, "send")
  /\ ShortCut(r, k)
  /\ val' = [val EXCEPT ![r] = Received(r, k, Payload(r, k))]
  /\ NextPhase(r)
  /\ UNCHANGED <<step, net, site>>

\* The slab is copied to the send buffer and MPI_Sendrecv starts to send it.
Send(r) ==
  LET k == phase[r] IN
  /\ At(r, "send")
  /\ ~ShortCut(r, k)
  /\ net' = IF To(r, k) = PROC_NULL THEN net
            ELSE net \cup {[src |-> r, dst |-> To(r, k), step |-> step[r],
                            phase |-> k, load |-> Payload(r, k)]}
  /\ Goto(r, "recv")
  /\ UNCHANGED <<phase, step, val, site>>

\* MPI_Sendrecv returns; the array is only touched if origin is a rank.
Recv(r) ==
  LET k == phase[r] IN
  /\ At(r, "recv")
  /\ IF From(r, k) = PROC_NULL THEN UNCHANGED <<val, net>>
     ELSE \E m \in Oldest(net, From(r, k), r) :
            /\ net' = net \ {m}
            /\ val' = [val EXCEPT ![r] = Received(r, k, m.load)]
  /\ NextPhase(r)
  /\ UNCHANGED <<step, site>>

\* The field is used (solvers, output) and the next time step begins.
Advance(r) ==
  /\ At(r, "ready")
  /\ step' = [step EXCEPT ![r] = @ + 1]
  /\ Goto(r, IF step[r] + 1 = MaxStep THEN "done" ELSE "deposit")
  /\ UNCHANGED <<phase, val, net, site>>

RankStep(r) ==
  Deposit(r) \/ LocalCopy(r) \/ Send(r) \/ Recv(r) \/ Advance(r)

Finished == (\A r \in Rank : At(r, "done")) /\ UNCHANGED vars

Next == (\E r \in Rank : RankStep(r)) \/ Finished

Spec == Init /\ [][Next]_vars

\* Every MPI process keeps running.
FairSpec == Spec /\ \A r \in Rank : WF_vars(RankStep(r))

-----------------------------------------------------------------------------
(* Properties *)

\* With one deposit in flight no array and no message ever holds it twice.
TypeOK ==
  /\ stage \in [Rank -> Stages]
  /\ phase \in [Rank -> Phases]
  /\ step \in [Rank -> 0..MaxStep]
  /\ val \in [Rank -> [Cell -> 0..1]]
  /\ \A m \in net :
       /\ m.src \in Rank /\ m.dst \in Rank
       /\ m.step \in 0..MaxStep /\ m.phase \in Phases
       /\ m.load \in [Slab(m.phase) -> 0..1]

\* The sum over all ranks of what was deposited at that position in step n:
\* the value of Folded there, for a single deposit.
Total(r, c, n) ==
  IF Global(r, c) = Global(site[n][1], site[n][2]) THEN 1 ELSE 0

\* Once a rank has finished its own adding phases its interior holds every
\* deposit made at those positions by any rank, exactly once: edge and corner
\* guard cells of neighbours and diagonal neighbours included.
InteriorComplete ==
  \A r \in Rank :
    (stage[r] = "ready" \/ (stage[r] \in {"send", "recv"} /\ ~Adds(phase[r])))
      => \A c \in Interior : val[r][c] = Total(r, c, step[r])

\* When the exchange of a rank is over all copies of a cell agree, its guard
\* cells in the corners too, although ranks are never synchronised.
HaloAgrees ==
  \A r \in Rank : At(r, "ready") =>
    \A c \in Cell : val[r][c] = Total(r, c, step[r])

\* MPI_Sendrecv calls are matched by order alone: no rank takes a slab meant
\* for another phase or step.
PhasesMatch ==
  \A r \in Rank : At(r, "recv") =>
    \A m \in Oldest(net, From(r, phase[r]), r) :
      m.step = step[r] /\ m.phase = phase[r]

\* The chain of blocking exchanges never closes into a cycle of ranks waiting
\* on each other: every rank completes all its steps.
EveryRankFinishes == <>(\A r \in Rank : At(r, "done"))
=============================================================================
