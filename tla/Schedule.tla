------------------------------ MODULE Schedule ------------------------------
(***************************************************************************)
(* One rank's sim_environment and the systems of a program: registration,  *)
(* init(), the preparation in main(), and run(), in which update() calls   *)
(* every system once per step in the order of registration.  The systems   *)
(* only meet through shared data: what each of them reads is as good as    *)
(* the order makes it.  Numbers are abstracted to the steps they come      *)
(* from, guard cells to whether they are up to date.                       *)
(*                                                                         *)
(* There are particles on the rank, and every system that can tally        *)
(* something does so in every step.                                        *)
(***************************************************************************)
EXTENDS Programs, FiniteSets

CONSTANTS
  Program,          \* the programs considered
  NumSpecies,       \* "num_species"
  Interval,         \* "fld_output_interval", where the file gives it
  SpecialInterval,  \* "ph_dist_interval"
  MaxStep           \* max_steps (bound of the model)

ASSUME ScheduleAssumption ==
  /\ NumSpecies \in Nat \ {0} /\ Interval \in Nat \ {0}
  /\ SpecialInterval \in Nat \ {0} /\ MaxStep \in Nat
ASSUME ProgramAssumption == \A p \in Program : WellOrdered(p)

VARIABLES
  prog, implicit, configured,  \* program, "use_implicit", whether the
                               \* configuration file gives the output interval
  phase, at, last, step,       \* next phase and system; end of the loop of init
  order, inited, moved,        \* m_system_order, the systems initialised, and
                               \* whether the names being iterated are freed
  data, ready,                 \* m_data_order, the data initialised
  guards,                      \* guard cells, see AfterStep
  behind, lagging,             \* E and B are not the sum of their parts; who
                               \* has read them then, and in which step
  current, used,               \* steps J comes from, E updates with their J
  holds, emptied,              \* steps tallied in each output; last resets
  shown,                       \* the last output
  entries, touched             \* entries of S and T, and those written to

setup == <<prog, implicit, configured>>
registry == <<order, inited, moved, data, ready>>
fields == <<guards, behind, lagging, current, used>>
output == <<holds, emptied, shown>>
moments == <<entries, touched>>
vars == <<setup, phase, at, last, step, registry, fields, output, moments>>

None == -1
Tally == {"Rho", "momentum", "energy", "flux", "moments", "photon_produced", "sync_dist"}
Has(s) == Runs(prog, s)

Init ==
  /\ prog \in Program /\ implicit \in BOOLEAN /\ configured \in BOOLEAN
  /\ phase = "register" /\ at = 1 /\ last = 0 /\ step = 0
  /\ order = <<>> /\ inited = <<>> /\ moved = FALSE
  /\ data = prog.main /\ ready = {}
  /\ guards = [fields |-> {}, reads |-> {}]
  /\ behind = FALSE /\ lagging = {}
  /\ current = {} /\ used = [n \in 0..MaxStep |-> 0]
  /\ holds = [t \in Tally |-> {}] /\ emptied = [t \in Tally |-> None]
  /\ shown = [step |-> None, written |-> {}, holds |-> holds, since |-> emptied]
  /\ entries = 0 /\ touched = {}

-----------------------------------------------------------------------------
(* sim_environment *)

\* Mutant of SystemData: the pusher relies on a field solver for E and B.
SystemDataSplit(s) == IF s = "pusher" THEN Registered(s) \ Totals ELSE Registered(s)
SystemData(s) == Registered(s)

\* A name that is in the map already is not entered again.
Enlisted(list, s) ==
  IF \E i \in 1..Len(list) : list[i] = s THEN list ELSE Append(list, s)

\* register_system, then register_data_components: m_num_species and m_size
\* of compute_moments still have their defaults.
RegisterSystem ==
  /\ phase = "register"
  /\ order' = Enlisted(order, prog.systems[at])
  /\ data' = data \cup SystemData(prog.systems[at])
  /\ entries' = IF prog.systems[at] = "moments" THEN 2 ELSE entries
  /\ IF at < Len(prog.systems)
     THEN at' = at + 1 /\ UNCHANGED <<phase, last>>
     ELSE phase' = "init" /\ at' = 1 /\ last' = Len(order')
  /\ UNCHANGED <<setup, step, inited, moved, ready, fields, output, touched>>

\* A vector doubles its storage when it is full.
Capacity(n) == CHOOSE c \in {0, 1, 2, 4, 8, 16} :
                 c >= n /\ \A b \in {0, 1, 2, 4, 8, 16} : b >= n => c <= b

\* One iteration of the loop over m_system_order in init().  Its end was
\* taken before the systems that init() registers were appended, and once the
\* names have moved every further use of them reads freed storage: it finds
\* the old name or anything else.
InitSystem ==
  /\ phase = "init"
  /\ at <= last
  /\ \E s \in {order[at]} :
       IF Wanted(prog, s) \subseteq data
       THEN /\ \/ Late(prog, s) = {} /\ order' = order
               \/ \E late \in Late(prog, s) : order' = Enlisted(order, late)
            /\ moved' = (moved \/ Capacity(Len(order')) # Capacity(Len(order)))
            /\ inited' = Append(inited, s)
            /\ data' = data \cup Added(prog, s, data)
            /\ at' = at + 1
            /\ phase' \in IF moved' THEN {"init", "undefined"} ELSE {"init"}
       ELSE /\ phase' = "thrown"
            /\ UNCHANGED <<order, moved, inited, data, at>>
  /\ UNCHANGED <<setup, last, step, ready, fields, output, moments>>

\* Mutant of InitData: the data are initialised as they were registered by
\* the constructors.
InitDataEarly ==
  /\ phase = "init" /\ at > last
  /\ ready' = prog.main \cup UNION {Registered(order[i]) : i \in 1..last}
  /\ behind' = FALSE
  /\ phase' = "prepare"
  /\ UNCHANGED <<setup, at, last, step, order, inited, moved, data, guards,
                 lagging, current, used, output, moments>>

\* The loop over m_data_order: everything is zero, the sums that init() of the
\* solver made included.
InitData ==
  /\ phase = "init"
  /\ at > last
  /\ ready' = data
  /\ behind' = FALSE
  /\ phase' = "prepare"
  /\ UNCHANGED <<setup, at, last, step, order, inited, moved, data, guards,
                 lagging, current, used, output, moments>>

\* main() between init() and run(): set_values writes whole arrays.
Prepare ==
  /\ phase = "prepare"
  /\ IF prog.gets \subseteq data
     THEN /\ behind' = (prog.sets \cap Parts # {})
          /\ phase' = "update" /\ at' = 1
     ELSE /\ phase' = "thrown"
          /\ UNCHANGED <<behind, at>>
  /\ UNCHANGED <<setup, last, step, registry, guards, lagging, current, used,
                 output, moments>>

\* update() goes on to the next system, and to the next step after the last.
Onward ==
  /\ phase' = IF at = Len(order) /\ step = MaxStep THEN "done" ELSE "update"
  /\ at' = IF at = Len(order) THEN 1 ELSE at + 1
  /\ step' = IF at = Len(order) /\ step < MaxStep THEN step + 1 ELSE step
  /\ UNCHANGED <<setup, last, registry>>

Turn(s) == phase = "update" /\ order[at] = s
Due(interval) == step % interval = 0
FieldInterval(default) == IF configured THEN Interval ELSE default
Noted(s) ==
  lagging' = IF behind /\ ReadsTotals(prog, s) THEN lagging \cup {<<s, step>>} ELSE lagging

-----------------------------------------------------------------------------
(* The update() of each system *)

\* Mutant of Deposited: no J->init().
DepositedOnTop(c) == c \cup {step}
\* update_particles clears J before particles deposit.
Deposited(c) == {step}

\* m_rho_interval follows fld_output_interval.
RhoDue == Due(FieldInterval(1))

\* ptc_updater
Push ==
  /\ Turn("pusher") /\ Noted("pusher")
  /\ current' = Deposited(current)
  /\ guards' = AfterSteps(prog, guards, PusherSteps(RhoDue))
  /\ holds' = [holds EXCEPT
       !["Rho"] = IF RhoDue THEN {step} ELSE {},
       !["sync_dist"] = IF prog.policy = "impl_cooling" THEN @ \cup {step} ELSE @]
  /\ Onward
  /\ UNCHANGED <<behind, used, emptied, shown, moments>>

\* radiative_transfer
Radiate ==
  /\ Turn("rad") /\ Noted("rad")
  /\ holds' = [holds EXCEPT !["photon_produced"] = @ \cup {step}]
  /\ Onward
  /\ UNCHANGED <<guards, behind, current, used, emptied, shown, moments>>

\* Mutant of Tallied: species are counted from one.
TalliedFromOne == 1..NumSpecies
\* compute_moments: the entries of S and T one update adds to, m_num_species
\* and m_size being those that init() has read meanwhile.
Tallied ==
  0..(NumSpecies - 1) \cup (IF "photons" \in data THEN {NumSpecies} ELSE {})

\* An entry past the end is undefined behaviour.
ComputeMoments ==
  /\ Turn("moments")
  /\ \E due \in {Due(FieldInterval(100))} :
       /\ holds' = [holds EXCEPT !["moments"] = IF due THEN {step} ELSE @]
       /\ touched' = IF due THEN touched \cup Tallied ELSE touched
  /\ \/ Onward
     \/ /\ \E i \in touched' : i >= entries
        /\ phase' = "undefined"
        /\ UNCHANGED <<setup, at, last, step, registry>>
  /\ UNCHANGED <<fields, emptied, shown, entries>>

\* gather_momentum_space: only momenta is cleared here.
GatherMomentum ==
  /\ Turn("momentum") /\ Noted("momentum")
  /\ holds' = IF Due(FieldInterval(1))
              THEN [holds EXCEPT !["momentum"] = {step}, !["energy"] = @ \cup {step}]
              ELSE holds
  /\ Onward
  /\ UNCHANGED <<guards, behind, current, used, emptied, shown, moments>>

\* gather_tracked_ptc, bh_injector
Read(s) ==
  /\ Turn(s) /\ Noted(s)
  /\ Onward
  /\ UNCHANGED <<guards, behind, current, used, output, moments>>

\* Mutant of SumAgain: the sums are only made in init().
SumOnce(b) == b
\* Etotal and Btotal are summed up after the update.
SumAgain(b) == FALSE

\* field_solver_base::update
Solve ==
  /\ Turn("solver")
  /\ used' = [n \in DOMAIN used |-> used[n] + (IF n \in current THEN 1 ELSE 0)]
  /\ guards' = AfterSteps(prog, guards, SolverSteps(prog, implicit))
  /\ behind' = SumAgain(behind)
  /\ holds' = [holds EXCEPT !["flux"] = IF Due(FieldInterval(100)) THEN {step} ELSE @]
  /\ Onward
  /\ UNCHANGED <<lagging, current, emptied, shown, moments>>

\* boundary_condition writes Edelta and Bdelta, alike on all copies of a cell.
ApplyBoundary ==
  /\ Turn("bc")
  /\ behind' = TRUE
  /\ Onward
  /\ UNCHANGED <<guards, lagging, current, used, output, moments>>

\* Mutant of Resets: reset_after_output is set on what the pusher and the
\* radiation tally, but not on the energies.
ResetsFew == {"photon_produced", "momentum"}
Resets == {"photon_produced", "momentum", "energy"}

\* data_exporter without snapshots: the fields, then what has an interval of
\* its own; each is initialised again once it is written.
Export ==
  /\ Turn("exporter")
  /\ \E written \in {(IF Due(FieldInterval(1)) THEN Tally \ {"sync_dist"} ELSE {})
                     \cup (IF Due(SpecialInterval) THEN {"sync_dist"} ELSE {})} :
       /\ holds' = [t \in Tally |-> IF t \in written /\ t \in Resets \cup {"sync_dist"}
                                    THEN {} ELSE holds[t]]
       /\ emptied' = [t \in Tally |-> IF t \in written THEN step ELSE emptied[t]]
       /\ shown' = [step |-> step, written |-> written, holds |-> holds, since |-> emptied]
       /\ lagging' = IF behind /\ ReadsTotals(prog, "exporter") /\ Due(FieldInterval(1))
                     THEN lagging \cup {<<"exporter", step>>} ELSE lagging
  /\ Onward
  /\ UNCHANGED <<guards, behind, current, used, moments>>

\* grid_t, sync_curv_emission and inverse_compton inherit an empty update().
Idle ==
  /\ phase = "update"
  /\ order[at] \in {"grid", "sync_curv_emission", "inverse_compton"}
  /\ Onward
  /\ UNCHANGED <<fields, output, moments>>

Stopped == phase \in {"done", "thrown", "undefined"} /\ UNCHANGED vars

Update ==
  \/ Push \/ Radiate \/ ComputeMoments \/ GatherMomentum
  \/ Read("tracker") \/ Read("injector")
  \/ Solve \/ ApplyBoundary \/ Export \/ Idle

Next == RegisterSystem \/ InitSystem \/ InitData \/ Prepare \/ Update \/ Stopped

Spec == Init /\ [][Next]_vars

-----------------------------------------------------------------------------
(* Properties *)

\* "all the init() ... methods of the registered systems are run in the order
\* they are registered" (docs/docsrc/1-setup.rst).
InitRunsAll == phase \in {"prepare", "update", "done"} => inited = order

\* Every look-up by name finds what it asks for, but for the background field
\* in the one program that has no solver to register it.
NothingMissing == phase = "thrown" => Wanted(prog, order[at]) \ data = {"B0"}

\* No step runs on data whose init() was not called, whoever registered it.
Initialised == phase \in {"update", "done"} => ready = data

\* The current of every step drives E exactly once, whether the solver runs
\* after the pusher or one step later.
EveryCurrentOnce ==
  phase = "update" /\ at = 1 /\ Has("pusher") /\ Has("solver") =>
    \A n \in 0..(step - 1) :
      used[n] = IF n = step - 1 /\ Before(prog, "solver", "pusher") THEN 0 ELSE 1

\* No kernel reads guard cells that differ from the cells they stand for.
\* The first iteration of the implicit spherical solver does: its operand was
\* computed after the exchange.
FreshGuards ==
  guards.reads \subseteq
    IF prog.solver = "spherical" /\ implicit THEN {<<"tmp2", "tmp1">>} ELSE {}

\* Whoever reads E or B reads background plus perturbation.  In the first step
\* the systems before the solver do not, as init() has zeroed the sums after
\* the solver made them, and after a boundary condition that follows the
\* solver the output does not.
TotalsCurrent ==
  \A l \in lagging :
    \/ l[2] = 0 /\ Before(prog, l[1], "solver")
    \/ l[1] = "exporter" /\ Before(prog, "solver", "bc")

\* An output holds its own step, or what was tallied since the last output;
\* nothing is counted twice or dropped.  Without a configured interval the
\* moments and the flux keep intervals of their own.
Accumulated(since) == (since + 1)..shown.step
Expected(t) ==
  CASE t = "photon_produced" -> IF Has("rad") THEN Accumulated(shown.since[t]) ELSE {}
    [] t = "sync_dist" -> IF prog.policy = "impl_cooling"
                          THEN Accumulated(shown.since[t]) ELSE {}
    [] t = "Rho" -> IF Has("pusher") THEN {shown.step} ELSE {}
    [] t = "flux" -> IF Has("solver") THEN {shown.step} ELSE {}
    [] t = "moments" -> IF Has("moments") THEN {shown.step} ELSE {}
    [] OTHER -> IF Has("momentum") THEN {shown.step} ELSE {}
OutputOfStep ==
  \A t \in shown.written :
    configured \/ t \notin {"flux", "moments"} => shown.holds[t] = Expected(t)

\* S and T have an entry for every species they tally, although they are
\* allocated before init() counts the species, as long as there are no more
\* than the two of the default.  With ions, or where there are photons, they
\* do not: "compute photon moments if applicable" (compute_moments_impl.hpp)
\* then goes past the end.
MomentsInRange ==
  NumSpecies <= 2 /\ "photons" \notin data => touched \subseteq 0..(entries - 1)
=============================================================================
