------------------------------ MODULE Programs ------------------------------
(***************************************************************************)
(* The programs of problems/ that CMake builds: which systems each main()  *)
(* registers and in which order, which field solver, pusher policy and     *)
(* radiation scheme they are built with, whether there is a domain_comm,   *)
(* which data main() registers itself (main) and looks up after init()     *)
(* (gets), and which fields it sets before the first step (sets).          *)
(***************************************************************************)
EXTENDS Naturals, Sequences, SequencesExt

NoCooling ==
  [systems |-> <<"grid", "pusher", "moments", "momentum", "solver", "exporter">>,
   solver |-> "cartesian", policy |-> "cartesian", scheme |-> "none", comm |-> TRUE,
   main |-> {}, gets |-> {"Bdelta", "particles", "rng_states"}, sets |-> {"Bdelta"}]

Cooling ==
  [systems |-> <<"grid", "pusher", "rad", "moments", "tracker", "solver", "exporter">>,
   solver |-> "cartesian", policy |-> "impl_cooling", scheme |-> "IC", comm |-> TRUE,
   main |-> {}, gets |-> {"Bdelta", "Edelta", "particles", "rng_states"},
   sets |-> {"Bdelta"}]

Cooling3D == Cooling

TwoStream ==
  [systems |-> <<"pusher", "solver", "tracker", "moments", "exporter">>,
   solver |-> "cartesian", policy |-> "cartesian", scheme |-> "none", comm |-> TRUE,
   main |-> {}, gets |-> {}, sets |-> {}]

TwoStream1D == TwoStream

SingleStream ==
  [systems |-> <<"pusher", "tracker", "moments", "exporter">>,
   solver |-> "none", policy |-> "cartesian", scheme |-> "none", comm |-> TRUE,
   main |-> {}, gets |-> {}, sets |-> {}]

Grpic ==
  [systems |-> <<"solver", "pusher", "injector", "tracker", "exporter">>,
   solver |-> "gr_ks", policy |-> "gr_ks", scheme |-> "none", comm |-> FALSE,
   main |-> {}, gets |-> {"B0", "E0", "Bdelta", "Edelta"},
   sets |-> {"B0", "E0", "Bdelta", "Edelta"}]

VacuumWald ==
  [systems |-> <<"solver", "exporter">>,
   solver |-> "gr_ks", policy |-> "none", scheme |-> "none", comm |-> TRUE,
   main |-> {}, gets |-> {"B0", "E0", "Bdelta", "Edelta"},
   sets |-> {"B0", "E0", "Bdelta", "Edelta"}]

TestParticle ==
  [systems |-> <<"pusher", "tracker", "exporter">>,
   solver |-> "none", policy |-> "cartesian", scheme |-> "none", comm |-> TRUE,
   main |-> {}, gets |-> {"particles", "B"}, sets |-> {"B"}]

EMWave ==
  [systems |-> <<"bc", "solver", "exporter">>,
   solver |-> "cartesian", policy |-> "none", scheme |-> "none", comm |-> TRUE,
   main |-> {}, gets |-> {}, sets |-> {}]

SphWaveVacuum ==
  [systems |-> <<"solver", "bc", "exporter">>,
   solver |-> "spherical", policy |-> "none", scheme |-> "none", comm |-> TRUE,
   main |-> {}, gets |-> {"B0"}, sets |-> {"B0"}]

PmlTest ==
  [systems |-> <<"pusher", "solver", "exporter">>,
   solver |-> "cartesian", policy |-> "cartesian", scheme |-> "none", comm |-> TRUE,
   main |-> {}, gets |-> {"particles"}, sets |-> {}]

GcaTest ==
  [systems |-> <<"pusher", "rad", "exporter">>,
   solver |-> "none", policy |-> "gca_lite", scheme |-> "gca_lite", comm |-> TRUE,
   main |-> {"particles", "photons"}, gets |-> {"B", "E", "particles"},
   sets |-> {"B", "E"}]

GcaTestCompare ==
  [systems |-> <<"pusher", "rad", "exporter">>,
   solver |-> "none", policy |-> "cartesian", scheme |-> "polar_cap", comm |-> TRUE,
   main |-> {"particles", "photons"}, gets |-> {"B", "E", "particles"},
   sets |-> {"B", "E"}]

PhaseSpaceTest ==
  [systems |-> <<"pusher", "momentum", "exporter">>,
   solver |-> "none", policy |-> "cartesian", scheme |-> "none", comm |-> TRUE,
   main |-> {}, gets |-> {"particles", "rng_states"}, sets |-> {}]

ICTest ==
  [systems |-> <<"pusher", "rad", "exporter">>,
   solver |-> "none", policy |-> "cartesian", scheme |-> "IC", comm |-> TRUE,
   main |-> {"particles"}, gets |-> {"particles"}, sets |-> {}]

-----------------------------------------------------------------------------
(* What the systems register and look up *)

Totals == {"E", "B"}
Parts == {"E0", "Edelta", "B0", "Bdelta"}

\* The systems that init() of system s registers: sync_curv_emission in the
\* cooling pusher and the curvature schemes, inverse_compton in the IC scheme.
Late(p, s) ==
  CASE s = "pusher" /\ p.policy = "impl_cooling" -> {"sync_curv_emission"}
    [] s = "rad" /\ p.scheme = "IC" -> {"inverse_compton"}
    [] s = "rad" /\ p.scheme \in {"gca_lite", "polar_cap"} -> {"sync_curv_emission"}
    [] OTHER -> {}

PusherData == {"particles", "J", "Rho", "rng_states", "ptc_number"} \cup Totals
SolverData == {"J", "divE", "divB", "E_sqr", "B_sqr", "flux"} \cup Totals \cup Parts
RadData == {"photons", "Rho_ph", "photon_produced", "pair_produced", "ph_number"}
MomentsData == {"flux_", "stress_"}
MomentumData == {"momentum_", "energy_"}

\* register_data_components().
Registered(s) ==
  CASE s = "pusher" -> PusherData
    [] s = "solver" -> SolverData
    [] s = "rad" -> RadData
    [] s = "moments" -> MomentsData
    [] s = "momentum" -> MomentumData
    [] OTHER -> {}

\* The data that init() of system s registers.
Added(p, s, data) ==
  CASE s = "pusher" /\ p.policy = "impl_cooling" -> 
         {"sync_loss", "sync_loss_total", "sync_spectrum", "sync_dist"}
    [] s = "rad" /\ p.scheme = "IC" -> {"IC_loss", "photon_spectrum", "IC_dist"}
    [] s = "tracker" /\ "particles" \in data ->
         {"tracked_ptc"} \cup (IF "photons" \in data THEN {"tracked_ph"} ELSE {})
    [] OTHER -> {}

\* The data that init() of system s looks up with get_data.
Wanted(p, s) ==
  CASE s = "moments" -> {"particles"}
    [] s = "momentum" -> {"particles", "B"}
    [] s = "tracker" -> Totals
    [] s = "pusher" /\ p.policy \in {"gr_ks", "gca_lite"} -> Totals
    [] s = "rad" -> {"particles", "rng_states"} \cup
         (CASE p.scheme = "gca_lite" -> {"B", "B0", "E"}
            [] p.scheme = "polar_cap" -> Totals
            [] OTHER -> {})
    [] s = "injector" -> {"particles", "rng_states", "Rho"} \cup Totals
    [] s = "bc" -> {"Edelta", "Bdelta"} \cup
         (IF p.solver = "spherical" THEN {"E0", "B0"} ELSE {})
    [] OTHER -> {}

\* Systems whose update() reads the total fields.
ReadsTotals(p, s) ==
  \/ s \in {"pusher", "momentum", "tracker", "injector"}
  \/ s = "rad" /\ p.scheme \in {"gca_lite", "polar_cap"}
  \/ s = "exporter" /\ p.solver # "none"

Runs(p, s) == \E i \in 1..Len(p.systems) : p.systems[i] = s

\* Both are in the program, a first.
Before(p, a, b) ==
  \E i, j \in 1..Len(p.systems) : i < j /\ p.systems[i] = a /\ p.systems[j] = b

\* What main() and the systems have registered before init().
Provided(p) == p.main \cup UNION {Registered(p.systems[i]) : i \in 1..Len(p.systems)}

\* What the programs have in common, and what the properties of Schedule rest
\* on: every system is registered once and main() itself registers none of the
\* emission helpers; what is looked up has been registered, but for a
\* background field; who sets a part of the fields or has a boundary condition
\* on it has a solver to sum them up again, and with a boundary condition only
\* the output reads the sums; what the cooling pusher tallies has a pusher; the
\* output comes last.
WellOrdered(p) ==
  /\ p.systems \in Seq({"grid", "pusher", "rad", "moments", "momentum", "tracker",
                       "injector", "solver", "bc", "exporter"})
  /\ p.systems # <<>>
  /\ \A i, j \in 1..Len(p.systems) : p.systems[i] = p.systems[j] => i = j
  /\ \A i \in 1..Len(p.systems) :
       /\ Wanted(p, p.systems[i]) \subseteq Provided(p) \cup {"B0"}
       /\ p.systems[i] = "exporter" => i = Len(p.systems)
  /\ p.gets \subseteq Provided(p)
  /\ Runs(p, "solver") => p.solver \in {"cartesian", "spherical", "gr_ks"}
  /\ p.sets \cap Parts # {} => Runs(p, "solver")
  /\ Runs(p, "bc") =>
       /\ Runs(p, "solver")
       /\ \A i \in 1..Len(p.systems) :
            ReadsTotals(p, p.systems[i]) => p.systems[i] = "exporter"
  /\ p.policy = "impl_cooling" => Runs(p, "pusher")

-----------------------------------------------------------------------------
(* Guard cells inside one update().  A step of it is a record: a kernel on   *)
(* interior cells that reads neighbours of its operands (stencil), one that  *)
(* works point by point on whole arrays (point) or an exchange (send).       *)

Stencil(to, from) == [op |-> "stencil", to |-> to, from |-> from]
Point(to, from) == [op |-> "point", to |-> to, from |-> from]
Send(to) == [op |-> "send", to |-> to, from |-> {}]

\* E->copy_from(*E0), add_by and their siblings.
SumUp == <<Point("E", {"E0", "Edelta"}), Point("B", {"B0", "Bdelta"})>>

\* Mutant of CartesianSteps: B is not exchanged between the two updates.
CartesianStepsLate ==
  <<Stencil("Bdelta", {"Bdelta", "Edelta"}), Stencil("Edelta", {"Edelta", "Bdelta"}),
    Send("Bdelta"), Send("Edelta")>> \o SumUp

CartesianSteps ==
  <<Stencil("Bdelta", {"Edelta"}), Send("Bdelta"),
    Stencil("Edelta", {"Bdelta"}), Send("Edelta")>> \o SumUp

\* axis_boundary_* and damping_boundary act alike on all copies of a cell.
SphericalSteps ==
  <<Stencil("Bdelta", {"Edelta"}), Send("Bdelta"),
    Stencil("Edelta", {"Bdelta"}), Send("Edelta")>> \o SumUp

\* The double buffer swaps tmp1 and tmp2 in five iterations.
Iteration(i) ==
  LET main == IF i % 2 = 1 THEN "tmp1" ELSE "tmp2"
      alt == IF i % 2 = 1 THEN "tmp2" ELSE "tmp1" IN
  <<Stencil(alt, {main}), Send(alt), Point("bnew", {"bnew", alt})>>

SphericalImplicitSteps ==
  <<Point("tmp1", {"Bdelta"}), Stencil("tmp2", {"tmp1"}),
    Point("tmp1", {"tmp1", "tmp2"}), Send("tmp1"),
    Stencil("tmp1", {"Edelta", "J"}), Point("bnew", {"tmp1"})>>
  \o Iteration(1) \o Iteration(2) \o Iteration(3) \o Iteration(4) \o Iteration(5)
  \o <<Send("bnew"), Point("tmp2", {"Bdelta", "bnew"}),
       Stencil("Edelta", {"tmp2"}), Send("Edelta"), Point("Bdelta", {"tmp2"})>>
  \o SumUp

\* One pass of iterate_predictor.
Pass(toB, toD, nextB, nextD) ==
  <<Stencil(toB, {"prevB", "prevD", nextB, nextD}),
    Stencil(toD, {"prevB", "prevD", nextB, nextD}), Send(toB), Send(toD)>>

GrSteps ==
  <<Point("prevB", {"Bdelta"}), Point("prevD", {"Edelta"})>>
  \o Pass("newB", "newD", "prevB", "prevD")
  \o Pass("Bdelta", "Edelta", "newB", "newD")
  \o Pass("newB", "newD", "Bdelta", "Edelta")
  \o Pass("Bdelta", "Edelta", "newB", "newD")
  \o SumUp

SolverSteps(p, implicit) ==
  CASE p.solver = "cartesian" -> CartesianSteps
    [] p.solver = "spherical" ->
         IF implicit THEN SphericalImplicitSteps ELSE SphericalSteps
    [] p.solver = "gr_ks" -> GrSteps

\* update_particles, the exchanges, then one filter pass.
PusherSteps(deposits) ==
  <<Stencil("J", {"E", "B"}), Send("J"), Stencil("J", {"J"}), Send("J")>>
  \o (IF deposits
      THEN <<Stencil("Rho", {"E", "B"}), Send("Rho"), Stencil("Rho", {"Rho"}), Send("Rho")>>
      ELSE <<>>)

\* fields: those whose guard cells are out of date; reads: pairs <<result,
\* operand>> where a kernel has read such guard cells.
AfterStep(g, s) ==
  CASE s.op = "stencil" -> [fields |-> g.fields \cup {s.to},
                            reads |-> g.reads \cup ({s.to} \X (s.from \cap g.fields))]
    [] s.op = "point" -> [g EXCEPT !.fields = IF s.from \cap @ = {} THEN @ \ {s.to}
                                               ELSE @ \cup {s.to}]
    [] s.op = "send" -> [g EXCEPT !.fields = @ \ {s.to}]

\* Without a domain_comm there is one rank and no copy that could differ.
AfterSteps(p, g, steps) == IF p.comm THEN FoldLeft(AfterStep, g, steps) ELSE g
=============================================================================
