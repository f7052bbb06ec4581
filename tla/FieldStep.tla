------------------------------ MODULE FieldStep ------------------------------
(***************************************************************************)
(* The field part of the time steps of a Cartesian run with one particle:  *)
(* ptc_updater::update pushes it, deposits J and Rho on its rank's local   *)
(* array (guard cells included), folds and refreshes the guard cells and   *)
(* filters; field_solver::update_explicit then advances B and E, with the  *)
(* absorbing layers of the ranks at an open end of the domain.             *)
(*                                                                         *)
(* Every operation only reads the arrays of its own rank except for the    *)
(* exchanges, whose outcome does not depend on the order in which ranks    *)
(* run (GuardCells); the ranks therefore move together here.               *)
(***************************************************************************)
EXTENDS YeeLattice, Halo

CONSTANTS
  Start,        \* initial positions of the particle, in K-ths of a cell
  Moves,        \* its moves in one step, at most one cell per axis
  Across,       \* its velocity along components that are not grid axes
  RhoInterval,  \* m_rho_interval
  MaxStep       \* time steps (bound of the model)

\* A deposit reaches two cells beyond that of the particle.
ASSUME DepositAssumption == G >= 2
ASSUME ParticleAssumption ==
  /\ Start \subseteq [Axis -> Nat]
  /\ \A p \in Start, d \in Axis : p[d] < Dims[d] * N * K
  /\ Moves \subseteq [Axis -> (-K)..K]
  /\ Across \in Int
ASSUME StepAssumption == RhoInterval \in Nat \ {0} /\ MaxStep \in Nat

VARIABLES
  stage,   \* the next operation of the time step
  pass,    \* filter passes done
  step,    \* completed time steps
  x, m,    \* the particle's global position and its move in this step
  J, Rho,  \* current and charge density of every rank
  E, E1, E2, B, B1, B2,  \* the fields, and the split halves in the layers
  bound    \* history: div E - Rho after the first time step

vars == <<stage, pass, step, x, m, J, Rho, E, E1, E2, B, B1, B2, bound>>

\* The interiors of all ranks put together.
Glued(F) ==
  [k \in Comp |-> [g \in Domain |-> F[Owner(g)][k][LocalCell(Owner(g), g)]]]

M == INSTANCE Maxwell WITH
       now <- IF stage = "fold" THEN "deposit" ELSE stage,
       J <- IF stage = "fold" THEN [k \in Comp |-> [g \in Domain |-> 0]] ELSE Glued(J),
       E <- Glued(E), E1 <- Glued(E1), E2 <- Glued(E2),
       B <- Glued(B), B1 <- Glued(B1), B2 <- Glued(B2)

Gone == M!Gone
Origin == [d \in Axis |-> 0]
Blank == [r \in Rank |-> [c \in Cell |-> 0]]
BlankVector == [r \in Rank |-> [k \in Comp |-> [c \in Cell |-> 0]]]

\* A vector field is exchanged component by component.
Each(Op(_), F) ==
  LET new == [k \in Comp |-> Op([r \in Rank |-> F[r][k]])] IN
  [r \in Rank |-> [k \in Comp |-> new[k][r]]]

-----------------------------------------------------------------------------
(* ptc_updater *)

\* The rank that holds the particle, and its offset from a local cell.
Holder(p) == Owner(M!CellOf(p))
FromPtc(p, c) ==
  LET at == LocalCell(Holder(p), M!CellOf(p)) IN [d \in Axis |-> c[d] - at[d]]

DepositedRho(p, q) ==
  [r \in Rank |-> [c \in Cell |->
     IF r = Holder(p) /\ FromPtc(p, c) \in M!OffsetSet(p, q)
     THEN DepositRho(M!Within(p), q, FromPtc(p, c)) ELSE 0]]
DepositedJ(p, q) ==
  [r \in Rank |-> [k \in Comp |-> [c \in Cell |->
     IF r = Holder(p) /\ FromPtc(p, c) \in M!OffsetSet(p, q)
     THEN DepositJ(M!Within(p), q, Across, k, FromPtc(p, c)) ELSE 0]]]

\* is_boundary and the end cells of a rank's interior.
Ends(r, c) ==
  {e \in Axis \X {-1, 1} :
     /\ Neighbor(r, e[1], e[2]) = PROC_NULL
     /\ c[e[1]] = (IF e[2] = -1 THEN G ELSE N + G - 1)}

\* filter_field_component drops what the guard cells held.
FilteredField(f) ==
  [r \in Rank |-> [c \in Cell |->
     IF c \in Interior THEN Filtered(f[r], Ends(r, c), c) ELSE 0]]

DepositsRho == step % RhoInterval = 0

Init ==
  /\ stage = "push" /\ pass = 0 /\ step = 0
  /\ x \in Start
  /\ m = Origin
  /\ J = BlankVector /\ Rho = Blank
  /\ E = BlankVector /\ E1 = BlankVector /\ E2 = BlankVector
  /\ B = BlankVector /\ B1 = BlankVector /\ B2 = BlankVector
  /\ bound = [r \in Rank |-> [c \in Interior |-> 0]]

\* update_particles: J->init(), Rho->init(), then the deposit, if any particle
\* is left.
UpdateParticles ==
  /\ stage = "push"
  /\ step < MaxStep
  /\ m' \in IF x = Gone THEN {Origin} ELSE Moves
  /\ J' = IF x = Gone THEN BlankVector ELSE DepositedJ(x, m')
  /\ Rho' = IF x = Gone \/ ~DepositsRho THEN Blank ELSE DepositedRho(x, m')
  /\ stage' = "fold"
  /\ pass' = 0
  /\ UNCHANGED <<step, x, E, E1, E2, B, B1, B2, bound>>

\* send_add_guard_cells and send_guard_cells on J, and on Rho when it is due.
ExchangeDeposits ==
  /\ stage = "fold"
  /\ J' = Each(Folded, J)
  /\ Rho' = IF DepositsRho THEN Folded(Rho) ELSE Rho
  /\ stage' = IF FilterTimes > 0 THEN "filter" ELSE "b"
  /\ UNCHANGED <<pass, step, x, m, E, E1, E2, B, B1, B2, bound>>

\* filter_current, one pass, each followed by send_guard_cells.
FilterCurrent ==
  /\ stage = "filter"
  /\ \E f \in {Each(FilteredField, J)} : J' = Each(Refreshed, f)
  /\ \E f \in {FilteredField(Rho)} :
       Rho' = IF DepositsRho THEN Refreshed(f) ELSE Rho
  /\ pass' = pass + 1
  /\ stage' = IF pass + 1 < FilterTimes THEN "filter" ELSE "b"
  /\ UNCHANGED <<step, x, m, E, E1, E2, B, B1, B2, bound>>

-----------------------------------------------------------------------------
(* field_solver *)

\* Mutant of Damped: init() looks at the wrong neighbour.
DampedOpposite(r) == {l \in Damping : Neighbor(r, l[1], -l[2]) = PROC_NULL}

\* init(): m_damping only stays set on the ranks at that end of the domain.
Damped(r) == {l \in Damping : Neighbor(r, l[1], l[2]) = PROC_NULL}

BoxOf(r) == Box([d \in Axis |-> G], [d \in Axis |-> N + G - 1], Damped(r))
Fields(r) == [E |-> E[r], E1 |-> E1[r], E2 |-> E2[r],
              B |-> B[r], B1 |-> B1[r], B2 |-> B2[r], J |-> J[r]]

\* Only interior cells are written.
Part(new, old, i) ==
  [r \in Rank |-> [k \in Comp |-> [c \in Cell |->
     IF c \in Interior THEN new[r][k][c][i] ELSE old[r][k][c]]]]

\* compute_b_update(_pml), then send_guard_cells(B).
UpdateB ==
  /\ stage = "b"
  /\ stage' = "e"
  /\ \E new \in {[r \in Rank |-> [k \in Comp |-> [c \in Interior |->
                     AdvanceB(Fields(r), BoxOf(r), k, c)]]]} :
       /\ \E f \in {Part(new, B, 1)} : B' = Each(Refreshed, f)
       /\ B1' = Part(new, B1, 2)
       /\ B2' = Part(new, B2, 3)
  /\ UNCHANGED <<pass, step, x, m, J, Rho, E, E1, E2, bound>>

DivE(F, r, c) == Div(F[r], StaggerE, c)

\* compute_e_update(_pml), then send_guard_cells(E).  Between the steps the
\* particle has been handed to the rank it moved to, or has been dropped.
UpdateE ==
  /\ stage = "e"
  /\ stage' = "push"
  /\ step' = step + 1
  /\ x' = M!Landed(x, m)
  /\ \E new \in {[r \in Rank |-> [k \in Comp |-> [c \in Interior |->
                     AdvanceE(Fields(r), BoxOf(r), k, c)]]]} :
       /\ \E f \in {Part(new, E, 1)} : E' = Each(Refreshed, f)
       /\ E1' = Part(new, E1, 2)
       /\ E2' = Part(new, E2, 3)
  /\ bound' = IF step > 0 THEN bound
              ELSE [r \in Rank |-> [c \in Interior |-> DivE(E', r, c) - Rho[r][c]]]
  /\ UNCHANGED <<pass, m, J, Rho, B, B1, B2>>

Finished == stage = "push" /\ step = MaxStep /\ UNCHANGED vars

Next ==
  \/ UpdateParticles \/ ExchangeDeposits \/ FilterCurrent
  \/ UpdateB \/ UpdateE \/ Finished

Spec == Init /\ [][Next]_vars

-----------------------------------------------------------------------------
(* Properties *)

\* Cells whose neighbourhood no absorbing layer and no open end touches.
Clear(r, c) ==
  \A d \in Axis, n \in -1..1 :
    LET y == Shift(c, d, n) IN
    /\ ~Outside(Global(r, y))
    /\ \A a \in Axis, h \in {0, 1} :
         Depth(BoxOf(HomeRank(r, y)), HomeCell(r, y), a, h) = 0

\* Charge conservation across rank boundaries, periodic ends and moves into
\* another cell: away from the layers the divergence of E keeps following the
\* charge that the particles deposit.
GaussLaw ==
  stage = "push" /\ step > 0 /\ (step - 1) % RhoInterval = 0 =>
    \A r \in Rank : \A c \in Interior :
      Clear(r, c) => DivE(E, r, c) - Rho[r][c] = bound[r][c]

\* No magnetic charge appears, not even where two ranks or a damped and an
\* undamped component meet.
DivBZero ==
  stage \in {"push", "e"} =>
    \A r \in Rank : \A c \in Interior :
      Clear(r, c) => Div(B[r], StaggerB, c) = 0

\* The decomposition is invisible: the interiors of all ranks evolve exactly
\* as one global lattice would.
ImplementsMaxwell == M!Spec
=============================================================================
