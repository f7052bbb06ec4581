------------------------------- MODULE Maxwell -------------------------------
(***************************************************************************)
(* What the field part of a distributed time step promises: the same       *)
(* particle, current and fields on one global lattice, with no ranks, no   *)
(* guard cells and no messages.  FieldStep implements this specification.  *)
(***************************************************************************)
EXTENDS YeeLattice

CONSTANTS
  Start,    \* initial positions of the particle, in K-ths of a cell
  Moves,    \* its moves in one step, at most one cell per axis
  Across    \* its velocity along components that are not grid axes

Gone == [d \in Axis |-> -1]   \* the particle has left the domain

VARIABLES
  now,      \* the next operation
  pass,     \* filter passes done
  x, m,     \* the particle's position and its move in this step
  J,        \* current
  E, E1, E2, B, B1, B2   \* the fields, and their split halves in the layers

mvars == <<now, pass, x, m, J, E, E1, E2, B, B1, B2>>

CellOf(p) == [d \in Axis |-> p[d] \div K]
Within(p) == [d \in Axis |-> p[d] % K]

\* Where the particle is after its move, wrapped or gone.
Landed(p, q) ==
  LET to == [d \in Axis |-> p[d] + q[d]] IN
  IF p = Gone \/ Outside(CellOf(to)) THEN Gone
  ELSE [d \in Axis |-> Wrap(CellOf(to))[d] * K + Within(to)[d]]

OffsetSet(p, q) ==
  {o \in [Axis -> -1..2] :
     \A d \in Axis : o[d] \in Offsets(Within(p)[d], q[d])}

Zero == [k \in Comp |-> [g \in Domain |-> 0]]

\* The fields next to the ends of the domain: nothing beyond an open one.
Ring == {[d \in Axis |-> g[d] + n[d]] : g \in Domain, n \in [Axis -> -1..1]}
Padded(F) ==
  [k \in Comp |-> [g \in Ring |-> IF Outside(g) THEN 0 ELSE F[k][Wrap(g)]]]

Ends(g) ==
  {e \in Axis \X {-1, 1} :
     ~Periodic[e[1]] /\ g[e[1]] = (IF e[2] = -1 THEN 0 ELSE Dims[e[1]] * N - 1)}
Whole == Box([d \in Axis |-> 0], [d \in Axis |-> Dims[d] * N - 1],
              {l \in Damping : ~Periodic[l[1]]})
Fields == [E |-> Padded(E), E1 |-> E1, E2 |-> E2,
           B |-> Padded(B), B1 |-> B1, B2 |-> B2, J |-> J]
Part(new, i) == [k \in Comp |-> [g \in Domain |-> new[k][g][i]]]

Init ==
  /\ now = "push" /\ pass = 0
  /\ x \in Start
  /\ m = [d \in Axis |-> 0]
  /\ J = Zero
  /\ E = Zero /\ E1 = Zero /\ E2 = Zero
  /\ B = Zero /\ B1 = Zero /\ B2 = Zero

Push ==
  /\ now = "push"
  /\ now' = "deposit" /\ pass' = 0
  /\ m' \in IF x = Gone THEN {[d \in Axis |-> 0]} ELSE Moves
  /\ J' = Zero
  /\ UNCHANGED <<x, E, E1, E2, B, B1, B2>>

Deposit ==
  /\ now = "deposit"
  /\ now' = IF FilterTimes > 0 THEN "filter" ELSE "b"
  /\ J' = IF x = Gone THEN Zero
          ELSE [k \in Comp |-> [g \in Domain |->
                 MapThenSumSet(
                   LAMBDA o : DepositJ(Within(x), m, Across, k, o),
                   {o \in OffsetSet(x, m) : Wrap(Add(CellOf(x), o)) = g})]]
  /\ UNCHANGED <<pass, x, m, E, E1, E2, B, B1, B2>>

Filter ==
  /\ now = "filter"
  /\ \E from \in {Padded(J)} :
       J' = [k \in Comp |-> [g \in Domain |-> Filtered(from[k], Ends(g), g)]]
  /\ pass' = pass + 1
  /\ now' = IF pass + 1 < FilterTimes THEN "filter" ELSE "b"
  /\ UNCHANGED <<x, m, E, E1, E2, B, B1, B2>>

UpdateB ==
  /\ now = "b"
  /\ now' = "e"
  /\ \E f \in {Fields} :
     \E new \in {[k \in Comp |-> [g \in Domain |-> AdvanceB(f, Whole, k, g)]]} :
       /\ B' = Part(new, 1)
       /\ B1' = Part(new, 2)
       /\ B2' = Part(new, 3)
  /\ UNCHANGED <<pass, x, m, J, E, E1, E2>>

UpdateE ==
  /\ now = "e"
  /\ now' = "push"
  /\ x' = Landed(x, m)
  /\ \E f \in {Fields} :
     \E new \in {[k \in Comp |-> [g \in Domain |-> AdvanceE(f, Whole, k, g)]]} :
       /\ E' = Part(new, 1)
       /\ E1' = Part(new, 2)
       /\ E2' = Part(new, 3)
  /\ UNCHANGED <<pass, m, J, B, B1, B2>>

Next == Push \/ Deposit \/ Filter \/ UpdateB \/ UpdateE

Spec == Init /\ [][Next]_mvars
=============================================================================
