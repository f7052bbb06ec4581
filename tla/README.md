# Verification of Aperture4: exchange, sort, field step, schedule and restart

Aperture4 is a particle-in-cell code. Fields live on a grid that is split over
MPI ranks, particles live in one array per rank, and one time step moves the
particles, deposits their current, exchanges what crosses a rank boundary and
advances the fields. Most of the physics is floating point and is tested by the
repository's own tests. This project is about the part that tests reach badly:
what has to be true of many ranks, many hops, holes in arrays, the order in which
systems run, and jobs that die and are restarted; and, for the Cartesian field
step, that cutting the domain into ranks changes nothing.

## The system

| component | state | operations | interacts with |
|---|---|---|---|
| domain decomposition (`core/domain_info.h`, `domain_comm::setup_domain`) | `mpi_dims`, `mpi_coord`, `neighbor_left/right`, `is_periodic`, `is_boundary` | set once | read by everything distributed |
| grid (`core/grid.hpp`, `systems/grid_impl.hpp`) | `N`, `guard`, `dims`, `offset` | `find_zone`, `is_in_bound`, coordinates | kernels of the particle code |
| domain communication (`systems/domain_comm_impl.hpp`) | slab buffers per axis, 3^dim particle buffers with `buf_nums` | `send_guard_cells`, `send_add_guard_cells`, `send_particles` | MPI messages between ranks; called by the updater, solvers and exporter |
| particle updater (`systems/ptc_updater_impl.hpp`) | `ptc`, `ph`, `J`, `Rho` | `update`: clear, push and deposit, exchange fields, exchange particles, `clear_guard_cells`, sort | domain communication, particle container |
| particle container (`core/particles.*`, `core/particles_functions.cpp`) | slots, `number()`, `ptc_id`, `m_index`, `m_partition`, `segment_nums` | append, copy from and to comm buffers, sort by cell in segments, defragment | updater, communication, injectors |
| field solvers (`systems/field_solver_*`) | `E`, `B`, `E0`, `B0`, sums, split halves `E1`, `E2`, `B1`, `B2` in the absorbing layers | `update`: advance B, exchange, advance E, exchange, sum up | J of the updater, domain communication, exporter |
| moments, momentum spectra, tracked particles, radiative transfer | tallies per step or per output interval | `init`, `update` | particles, photons, fields; reset by the exporter |
| injectors (`systems/ptc_injector_*`) | none of their own | `inject_pairs` | append to the particle array |
| main loop and registry (`framework/environment.*`) | `step`, `time`, `m_system_order`, `m_data_order`, `m_is_restart` | `register_system`, `register_data`, `init`, `update`, `run` | calls every system in order of registration |
| programs (`problems/`) | initial conditions | `main`: register, `init`, set up, `run` | decide which systems there are and their order |
| data exporter (`systems/data_exporter_impl.hpp`) | `m_fld_num`, `m_ptc_num`, files | `update`, `write_snapshot`, `load_snapshot` | data registry, file system, barrier over ranks |
| not modelled | | | listed in `PROJECT.json` with the reason |

What makes each of them correct:

- *particle exchange*: no particle is lost or doubled on its way over up to three
  ranks; it arrives where its position says; blocking calls that all use the same
  tags never match the wrong message and never wait in a circle; the buffers are
  empty again, because the next exchange forgets what is in them;
- *field exchange*: every deposit, corners of guard cells included, is counted
  exactly once in the interior that owns it, and afterwards all copies agree;
- *field step*: the fields of all ranks together are those of one global lattice,
  absorbing layers included; the current of every particle move matches the change
  of its charge (Gauss), also when the cells lie on two ranks, and div B stays zero;
- *schedule*: a system finds the data it looks up, nothing uninitialised is used,
  every current is used once, no kernel reads outdated guard cells or sums, and an
  output holds the step or interval it stands for;
- *particle array and sort*: live particles stay below `number()`, the sort
  neither loses nor copies nor relabels one, leaves no hole, and returns;
- *restart*: in a job that was killed and restarted every system finds what it would
  in a job that never stopped, and the numbered output files are those of that job.

Hard to test, and therefore the source of the properties: ranks that are a pass
or a time step apart; chains of hops; two neighbours that are the same rank, or
the rank itself; full arrays and holes; a number of particles that is an exact
multiple of the segment size; deposits that straddle ranks; fields read between
their update and their exchange; the order of systems, which every program
chooses; a crash between any two steps of the exporter.
`PROJECT.json` lists them with their lines ("hazards").

## Modules

| module | models | state and actions |
|---|---|---|
| `CartesianDomain` | ranks as coordinates, neighbours with `MPI_PROC_NULL`, order of the passes, global and local cells | operators only; phase `k` of an exchange goes along axis `(k+1) div 2`, left for odd `k` |
| `MPI` | the guarantee used of the library (external): a send does not wait for its receiver inside `MPI_Sendrecv`, and a receive takes the oldest message from its source on its communicator | operators only |
| `ParticleExchange` | one step of `ptc_updater::update` as far as particles go | per rank `stage`/`phase`/`step` are the program counter; `arr`, `number` the particle array; `buf`, `ghost` the comm buffers and their counts; `net` the messages. `Drift` is the push, `Pack` is `ptc_copy_to_comm_buffers`, `LocalCopy`/`Send`/`Recv`/`RecvNothing` are one call of either `send_particle_array`, `Unpack` is `ptc_copy_from_buffer`, `Tidy` is `clear_guard_cells` with the sort. `pos` is a history variable: the true global position |
| `Migration` | abstract specification of the exchange: particles change hands only from a rank to the owner of their position, or leave | `held`, `moving`, `gone` |
| `Halo` | which local cells stand for the same position and where its home is; what a refresh and a fold of guard cells amount to | operators only, used by the next two modules |
| `GuardCells` | `J->init()`, deposit, `send_add_guard_cells`, `send_guard_cells` | `val` is the local array with guard cells; one action per single-direction exchange |
| `YeeLattice` | the arithmetic of a Cartesian step: differences, curl, deposit of one particle, 1-2-1 filter, update with absorbing layers | operators over any array given as a function of component and cell |
| `Maxwell` | abstract specification of the field step: one global lattice without ranks | `x`, `J`, `E`, `B` and the split halves on the whole domain |
| `FieldStep` | `update_particles`, the exchange of deposits, `filter_current` and `update_explicit` of the Cartesian solver on local arrays with guard cells | the same per rank; `UpdateB` and `UpdateE` are the `_pml` kernels and the exchange after them |
| `Programs` | the sixteen programs that CMake builds, three of them (`phase_space_test`, `IC_test`, `gca_test_compare`) only for CUDA or HIP (systems in order, solver, policy, scheme, data); what each system registers and looks up; the guard-cell steps of the Cartesian, spherical and Kerr-Schild solvers | records and operators |
| `Schedule` | `sim_environment` and the `update()` of every system of a program | `order`, `inited`, `data`, `ready` are the registry; `guards`, `behind`, `current`, `holds` say how fresh shared data are |
| `ParticleArray` | the particle array of a rank over many operations, `inject_pairs` of the host injector among them, with the two loops of `ptc_sort_by_cell` | `slot`, `number`, and the sort's `seg`, `last`, `nums`; one action per turn of a loop |
| `SegmentSort` | what one turn of the first loop does: histogram, scan, index, and the in-place permutation of `ptc_rearrange_arrays` | the loops' counters, `m_index`, `m_partition`, the temporary particle |
| `Restart` | main loop and exporter of a job, its files, crashes and reruns, for any order of systems | memory (`step`, `data`, file numbers) and disk (`fld`, `ptc`, `snapshot`); `RunSystem` is one `update()`, `Load` and `Output` that of the exporter. `twin` is a history variable: the contents in a job that never stops |
| `MCParticleExchange`, `MCGuardCells`, `MCFieldStep`, `MCSchedule`, `MCRestart` | grids, topologies, moves, programs and orders of systems for TLC | |
| `CartesianDomain_proofs`, `ParticleExchange_proofs`, `GuardCells_proofs`, `FieldStep_proofs`, `Restart_proofs`, `ParticleArray_proofs`, `SegmentSort_proofs`, `Schedule_proofs` | theorems | |

Abstractions. A comm buffer is a set of particles: the order in a buffer is the
order of the particle array, which is arbitrary. The calls of one pass run
between the same two ranks in the same order on both sides, with disjoint
buffers, so a pass is one message with a load per receiving buffer. A zone
number is its ternary digits. The exchanges are linear in the field, so
`GuardCells` follows a single unit deposit per step, put anywhere.
`ParticleArray` sorts a segment in one action, whose result is what
`SegmentSort` shows of the code's loops (`SortedByCell`, `LiveCount`). In
`Restart` all ranks enter the exporter together (barrier, collective files) and
are one process. There, `update()` of a system puts into what it writes an arbitrary
function (`Update`) of the step, the time and what it reads; `Reads` and `Writes` say
which components those are, `J` and the counters of particle ids included, `Saved`
and `Readable` which of them a snapshot holds and a restart brings back. `twin` runs
the same functions without crashes. For TLC the function is `Digest`, a number in which
different inputs almost never agree. Tallies that a system makes at intervals of its own
(moments, `ptc_number`) are left out; a file written again can differ in them where such
an interval is not that of the files.
In the x and y passes, a rank that is its own neighbour copies locally; in the
z pass it sends to itself, as the code does.

The arithmetic of `YeeLattice` is exact: lengths are in cells with `dt = delta`,
positions inside a cell are multiples of `1/K`, and a deposit is multiplied by
`6 * K^Dim * FilterScale`, with `FilterScale` the `4^Dim` of every filter pass, so that the
divisions of the deposit and the filter leave no remainder (proved: `AverageFacts`). The
damping rate of a layer is abstracted to "all of a half is gone after a step", the
depth in the layer is kept in half cells, so that what depends on the rank (which
cell is in which layer, at which staggered position) is not lost. In `FieldStep`
the ranks move together: all operations but the exchanges are local, and
`GuardCells` checks that the outcome of an exchange does not depend on the order
in which ranks run (`HaloAgrees`: each copy holds the sum that `Folded` states).

`Schedule` keeps no numbers: the value of a datum is the step or steps it was made
in, guard cells are up to date or not, and a sum agrees with its parts or not.
Freed names in `init()` and entries past the end of an array may end in anything
(`phase = "undefined"`), or may go unnoticed.

The overload of `send_particle_array` used for z receives at the start of the
central buffer unless the build is a device build with device-aware MPI
(`CudaMPI`). `Overwritten` and `ghost` model what the host build then does.

## Runs

| run | instance | what it shows |
|---|---|---|
| `exch_line` | open chain of 3 ranks, 2 particles, room for 1 each, 2 steps, sort every 2nd | conservation, arrival, capacity, drained buffers, refinement of `Migration`, and that every rank finishes, with full arrays and an open boundary in play |
| `exch_grid` | 2 x 1 x 1 ranks, torus, device build with device-aware MPI, diagonal moves | up to three hops; left and right neighbour are the same rank in x and the rank itself in y and z; conservation, arrival, and the inductive invariant `Lockstep` of the proofs |
| `exch_host3d` | 1 x 1 x 2 ranks, host build | **violation**: a particle that came along x is overwritten by one that arrives along z (`ReachesItsRank`) |
| `halo` | 2 x 1 x 1 ranks, periodic x and y, open z, a deposit in any local cell, 2 steps | no array or message holds it twice; edge and corner deposits reach their home exactly once along a chain of three axes; all copies agree; no slab of another pass or step is taken; every rank finishes |
| `array` | 5 slots, segments of 2, 6 particles | any history of the array with appends, arrivals, pairs, moves and removals; sort and defragmentation |
| `sort_segment` | 5 particles, 3 cells and the empty one, offset 3 | every input of the counting sort, step by step |
| `maxwell` | 2 x 1 ranks of 4 x 4 cells, open x with layers of 2 cells, periodic y, `K = 2`, one filter pass, 2 steps | the refinement of `Maxwell`, Gauss's law and div B, for a particle anywhere that crosses cells, the rank boundary and the ends |
| `schedule` | the sixteen programs, explicit and implicit, interval configured or not, 5 steps | look-ups, initialisation, use of currents, guard cells, sums, outputs and moments, with the exceptions that the properties name |
| `init_loop` | the two cooling programs | **violation**: `init()` appends to the vector it iterates over (`InitRunsAll`) |
| `restart` | pusher, solver, exporter; 7 steps, outputs every 2 and 3, snapshots every 3, 2 crashes | every system finds what it would without the crashes, `J` included; series and contents of the files; the job ends |
| `restart_photons` | pusher, radiative transfer, exporter; a GPU build | **violation**: photons and the states of the random numbers are saved and do not come back |
| `restart_accumulated` | the same systems on a host | **violation**: accumulated data is cut short by a restart |

Bounds. Two particles are the fewest that can compete for a buffer, a slot or
the room of an array, and three ranks the fewest with one that has two distinct
neighbours; two steps let one rank be a whole step ahead. `N = 1` or `2` with
`G = 1` makes every interior cell a boundary cell. In `maxwell`, `G = 2` is
what the deposit needs and `N = 4` the smallest extent with layers of two cells at
the open ends and undamped cells on both sides of the rank boundary; Gauss's law
compares two outputs of charge, so two steps are the fewest that say something.
Intervals of 2 and 3 in five steps make `schedule` meet outputs that coincide and
outputs that do not. Segments of two in five slots
give a full, a partly filled and a short segment, and `MaxId = 6` lets a slot be
used again. `MaxStep` (`max_steps` in `Restart`), `MaxId` and `MaxCrashes` are the only bounds that cut
behaviours off. `PtcSymmetry` is used only in runs without liveness.

Fairness. `FairSpec` assumes of each MPI process that it keeps running: weak
fairness of each rank's step, the program of a rank being sequential. `SortStep`
has weak fairness because a function that is running goes on. `Restart`
assumes that the job keeps running and is run again after it died.

## Proofs

`ParticleExchange_proofs` proves, for every dimension, grid, topology, set of
particles, capacity, build and number of steps:

- `Types` and `CapacityKept`: types and capacities (`TypeOK`, `Fits`);
- `NoCrossTalk`: no receive takes a message of another pass or step
  (`PhasesMatch`);
- `BuffersDrain`: nothing stays in a comm buffer (`Drained`);
- `ParticlesConserved`: no particle is lost or doubled on its way (`Accounted`), in
  one and two dimensions and, on a device build with device-aware MPI, in three. The
  host build in three dimensions is excluded because it does lose particles
  (`exch_host3d`);

and, on the same builds:

- `ParticlesSettle`: between two exchanges every particle is in the domain of its
  rank (`Settled`), and `EachReachesItsRank` (`ReachesItsRank`);
- `MigrationImplemented`: the exchange implements `Migration`;
- `StaysInLockstep`: the invariant `Lockstep` that all this follows from.

`GuardCells_proofs` proves, for every dimension, grid, topology, place of the
deposit and number of steps:

- `FieldTypes`: types (`TypeOK`), in particular that no array or message holds the
  deposit twice;
- `SlabsInOrder`: a rank takes the slab of its own pass, step and axis
  (`PhasesMatch`);
- `DepositsComplete` and `HaloComplete`: `InteriorComplete` and `HaloAgrees`.

`Restart_proofs` proves, for any order of systems with an exporter, any `Update`, data,
intervals and numbers of steps and crashes:

- `JobTypes`: types (`TypeOK`);
- `SeriesKept` and `ParticleSeriesKept`: the output series (`FieldSeries`,
  `ParticleSeries`);
- `RestartResumes` and `FilesRewrittenAlike`: `Resumes` and `RewritesAgree`, if no system
  reads a component that was neither restored nor written since (`CarriesNothing`).
  Of the sixteen programs ten satisfy it, random numbers on a GPU aside: all but `gr_2d_kerr_schild` (`J`,
  see Findings) and those with photons (both cooling programs, `gca_test`,
  `gca_test_compare`, `IC_test`; `restart_photons`). It excludes systems that make
  particles on a GPU or by radiation, since the counters of their ids are not saved, and,
  on a GPU, systems that use random numbers. `restart` is an instance that satisfies it.

`ParticleArray_proofs` proves, for every allocation, segment size, number of cells and
history:

- `NoneIsForgotten` and `NoneIsDoubled`: a live particle is in one slot below
  `number()` (`NoneBeyondNumber`, `NoTwins`);
- `SortCompacts` and `SortIsFaithful`: the sort leaves no hole (`Compacted`) and keeps
  the live particles in each of its steps (`SortKeepsParticles`).

`SegmentSort_proofs` proves, for every number of particles and cells and every
placement, what `ParticleArray` takes for granted of a segment (its `Target` is the stable
order):

- `NeverOverwritten`: the permutation in place loses nothing (`NothingOverwritten`);
- `SortsByCell` and `CountsTheLive`: its result is the stable sort, and the count it
  returns that of the live particles (`SortedByCell`, `LiveCount`).

`FieldStep_proofs` proves, for every dimension, grid, topology, particle, filter, set of
damped ends and number of steps:

- `Decomposition`: the ranks together implement `Maxwell` (`ImplementsMaxwell`), if no
  layer is wider than the domain of a rank (`LayersFit`). A wider one is cut off where
  the rank ends (`field_solver_cartesian_impl.hpp:117`), so the theorem would be wrong
  without; the default width is 16 cells;
- `NoMagneticCharge`: the divergence of B stays zero (`DivBZero`), whatever the layers;
- `ChargeConserved`: the divergence of E keeps following the charge (`GaussLaw`), if every
  open end of the domain has a layer at least as deep as there are filter passes
  (`Sheltered`; nothing is asked of periodic axes, or without a filter). Next to an open
  end without a layer the filter lets a cell stand in for its missing neighbour, which
  does not commute with the divergence, and every pass carries that one cell further
  in: there the law is wrong. `maxwell` is an instance that is `Sheltered`.

`Schedule_proofs` proves, for every program that is `WellOrdered`, any intervals and
any number of species and of steps, all invariants of `schedule`:

- `MissingTheorem` and `InitialisedTheorem`: look-ups and initialisation
  (`NothingMissing`, `Initialised`);
- `CurrentTheorem`: each J is used once (`EveryCurrentOnce`);
- `GuardTheorem`: guard cells are exchanged before they are read (`FreshGuards`);
- `TotalsTheorem`: E and B are summed before they are read (`TotalsCurrent`);
- `OutputTheorem` and `MomentsTheorem`: the output is of its step and the moments stay
  within their arrays (`OutputOfStep`, `MomentsInRange`).

`ParticleExchange_proofs`, `GuardCells_proofs` and `FieldStep_proofs` rest on
`CartesianDomain_proofs`: the neighbour one receives from is the
one that sends (`SourceDest`, from the inverse law of neighbours `NeighborBack`)
and each position has one owner (`OneOwner`). The assumptions are the named ones
of `CartesianDomain`, `ParticleExchange`, `YeeLattice`, `FieldStep`, `Restart`,
`ParticleArray` and `SegmentSort` (positive extents, at least one guard
cell and not more than the interior has, moves of at most a guard zone, finitely
many particles; where currents are deposited, two guard cells and moves of at most
one cell), and of `Schedule`: `WellOrdered` says what the `main()` of the built
programs have in common (each system once, the exporter last, what is looked up is
registered, a boundary condition only with a solver); TLC evaluates it on the sixteen
of them in `schedule`.

None of these properties is inductive. `PhasesMatch` speaks of the oldest
message; that it is the right one needs that *all* messages in flight are ones
their sender has posted and their receiver has not taken (`InFlight`), that
there is at most one for each receiver, step and pass (`NoSecond`), that none is
missing (`NoneMissing`) and that nobody receives ahead of the sender
(`NoneEarly`). An older message to the same receive would be one already taken;
a younger one would mean the right one is missing. The proof that each action
keeps these is about `Posted` and `Taken`, which give the progress of a rank as
a pair of step and pass. `Drained` then needs `BufferZones`: before pass `k`
only zones that `k` or a later pass sends hold particles. `Accounted` needs two
more facts: `Pack` overwrites the buffers, so they have to be empty
(`BufferZones`), and `clear_guard_cells` in `Tidy` erases what is outside the
interior, so nothing may be there (`Inside`: a push moves a particle at most into
the guard cells, and packing shifts it back into the interior). The proof writes
"exactly one place" as a case per kind of place (`Placed`), one lemma per action
that says how a particle changes place, and shows at the end (`OnePlace`) that
`Where` is then a singleton. The conjunction is `Lockstep`, which `exch_grid`
checks too.

The guard cells need the same invariant of messages and, besides, `Shares`: what each
cell holds of the deposit before each phase. The deposit counts for a cell if it does
on every axis, and on one axis it is one of three cases: the phases of the axis are
still to come (only the cell it was made in), its first or both phases have added up
(the home of the position as well, and only there while guard cells count as
discarded), its first or both phases have copied (every cell that stands for the
position). `Share` is that product; one lemma for each kind of phase shows that
taking a slab moves `Share` on by one phase, and `HomesMeet` that two cells of
different ranks have the same home exactly if their global positions agree.

Arrival is about `Located`: the cell of a particle is always a cell of the zone it is
packed for, seen from the rank where it is or to which it is on its way, so that
`Global` of rank, zone and cell is its position. A hop along an axis keeps `Global` or
leads out of the domain (`BesideTurn` for one axis, `HopOver` for a pass), and in the
central zone `Global` is in the domain of the rank (`CentreInside`). The refinement
needs this where a push takes a particle to another domain, and one case of its own:
on a periodic axis with one rank, that rank is also the owner of what leaves it
(`OwnNeighbour`).

The series of a restarted job depends on where in a turn it is: `NextOutput` is the
first step whose output is not yet written, and `Ahead` says that as many files are
numbered as are due before it. `DueCount` shows that this decides whether step `s` is
a multiple of the interval. The snapshot satisfies the same for its own numbers and
its files exist (`CountInv`). The contents cannot be the twin's everywhere: the first
turn after a restart leaves things in memory that the snapshot does not replace. `DataInv`
says that the components in `Known` are the twin's, those restored and those written by
the systems that have run since the exporter, and that snapshot and files hold what the
twin has at their step. One `update()` keeps this if what it reads is known, which is
`CarriesNothing`. `TwinInv` says that each point of the twin follows from the one before,
so that a job that comes to a point again finds there what it computes (`TwinReach`).

The array: between the steps of a sort, segments that the first loop has been through
are `Packed`, their live particles in front and as many as `segment_nums` says. That
one turn of the loop makes a segment so is `Ranking`: the target of a slot counts the
slots before it in the order of cell and place, so targets are distinct, by the pigeonhole
principle all slots are targets, and a particle is live exactly if its target is
below the number of live ones. In the second loop all segments before `seg` are full
and nothing is past the last one, so when the two meet the live particles are the
first slots (`SetNumKeeps`). `Carried` is the part both loops share: slots that are
filled one to one from live slots hold the same particles, each once.

The sort of a segment: the counting passes give each particle its rank in its cell and
the number of particles in lower cells (`Counted`). Their sum is `Goal`, where the
particle has to go: the number of those before it in the order of cell and place. Goals
are distinct and cover all places. While the permutation follows its cycles
(`Permuting`), a particle is settled at its goal, in hand, or where it was; the goals of
the settled particles are the places that these and the one in hand have left, except
the gap where the walk began. Hence a walk can only end at its gap, and nothing is
overwritten.

The schedule: a turn takes one system, so what a variable may be depends on which
systems have had theirs. `Past` says whether system `s` has in this step and `LastTurn` in
which step it last had one, and each part of `Inv` ties a variable to the `LastTurn` of the
system that writes it: J is of the last turn of the pusher (`CurrentInv`), E has taken in
every J up to the last turn of the solver, or one less where the solver comes first
(`UsedInv`), a tally covers the steps since it was emptied (`TallyInv`, `DueInv`), the sums
are wrong only before the solver or behind a boundary condition (`SumInv`). `Turning`
says how one turn moves `LastTurn`; `ExporterLast`, that in the turn of the exporter all
others are past. The update loop stays within the systems of the
program because what `init()` adds behind them are helpers without a turn of their own
(`OrderInv`). `GuardInv` needs what a whole list of kernels and exchanges does to the guard
cells, which is a fold: the proof takes the least length at which the claim fails.

The field step: `FieldInv` says that a guard cell holds what its home holds (`Alike`),
and nothing beyond an open end (`Nought`). So an array is determined by its interiors,
and what a cell reads next door is what the cell next door in the global lattice holds
(`Nearby`), in the same depth of the same layer (`DepthSame`). A deposit reaches at most
two cells, so that each of its cells is in the array of the rank that holds the particle;
folding adds up, over all cells that stand for a position, the one contribution
(`FoldedDeposit`). In a filter pass a rank is at an open end where the lattice is
(`EndsSame`, `FilterSame`). Sums are those of the community modules, whose recursion has
to be had as a function first: `SumSame`, `SumTake` and `SumOver` say what the proofs
use of them. The update of B adds differences along two axes of differences along the
two others, and these cancel (`DivStep`), where the cell and its neighbours are undamped;
the value next door may be another rank's (`HomeStep`).

Gauss's law needs charge and current on the lattice, and four facts about them. First,
the deposit: along one axis the current in a cell is the sum of the shape changes up to
it (`Flow`) times the mean of the shapes across (`Mean`), so what leaves the cell is its
own shape change times that mean (`OutflowIs`), and over all axes these products
add up to the old shape product less the new one: that is `Continuity`, in one, two and
three dimensions, and `ChargeKept` after the contributions to a position are folded.
Second, the filter: it averages over the same neighbours everywhere but at an open
end, so it commutes with the differences (`AverageNet`) at positions that are `Deep`
enough. Every pass costs one cell. As all values are multiples of what is left to divide
by (`Multiple`), the division is exact (`AverageFacts`) and linear. Third, the move: the
density after it is that of a particle at rest where it lands (`ChargeLands`), or is gone
but for the outermost cells (`ChargeLeaves`). Fourth, the solver: the curl of B has no
divergence, so an undamped position only loses the current (`NetStep`). `GaussInv` ties
them together: in the middle of a step, with `pass` filter passes done, what leaves a
position is the charge before the move less the charge after it, both smoothed as often
(`Flowing`), Rho is the charge after (`Laid`), and between steps the divergence of E
exceeds the smoothed charge by what it did after the first step (`Balanced`).

Only model-checked: liveness (`Finishes` of the exchange, the sort and the job), which is
beyond the prover, and everything stated with operators as parameters, that is, what the
folds of the community modules compute in general (`FieldStep_proofs` and
`Schedule_proofs` unfold those they need by a least counterexample). All invariants and
action properties of the passing runs are proved. `GaussInv` itself is not checked by
TLC: it names the smoothed densities with `CHOOSE` over functions.

## Findings

1. `exch_host3d`: `domain_comm_impl.hpp:683` receives the z pass without
   `recv_offset` on a host build.
2. `restart_photons`: `load_snapshot` has no branch for photons
   (`data_exporter_impl.hpp:404-438`), `write_snapshot` has.
3. `restart_accumulated`: data with `reset_after_output` is not in the snapshot. Its
   first output after a restart has what was accumulated since then and the tally of
   the new job's first turn, which ran on fresh data, instead of an interval.
4. `restart_photons`, on a GPU: reading the states of the random numbers ends with `copy_to_host`
   (`data_exporter_impl.hpp:1148`), so they are not restored.
5. `init_loop`: `sim_environment_impl::init` (`environment.cpp:139`) iterates over
   `m_system_order` while the cooling pusher and the IC scheme register systems. In
   the cooling programs the vector grows past its storage and the loop goes on with
   freed names; the systems appended are never initialised.

Passing properties name further behaviours of the code as their exceptions:

- `Resumes` and `RewritesAgree`: `J` is not in the snapshot (`ptc_updater_impl.hpp:136`
  is commented out, `field_solver_base_impl.hpp:84` does not ask for it). As far as `J` goes they
  hold where the pusher runs before the solver, as in `restart` and all programs but one. In
  `gr_2d_kerr_schild` (`main.cpp:56-60`) the solver comes first: after a restart E is
  advanced with the `J` that the new job's fresh particles have deposited, and neither
  the fields nor the files written from then on are those of a job that never stopped.
  With `Order <- KerrSchild` in `restart.cfg` TLC shows it.
- `FreshGuards`: the first iteration of the implicit spherical solver reads guard
  cells of `tmp1` from before it was scaled (`field_solver_sph_impl.hpp:365`).
- `TotalsCurrent`: in step 0 the systems registered before the solver see E and B
  without the background that main() has set, and in `sph_wave_vacuum`, with the
  boundary condition after the solver, the output sees sums from before it.
- `OutputOfStep`: without `fld_output_interval` the moments and the flux are computed
  every 100 steps and written every step.
- `MomentsInRange`: with photons or more than two species `compute_moments` indexes
  past the arrays it allocated before `init()`.
- `NothingMissing`: `gca_test` looks up `B0`, which nobody registers.

## Not modelled

The momentum part of the pushers, radiation processes, metrics and the arithmetic of
the spherical and Kerr-Schild solvers are floating point without a discrete identity
to check. Device kernels repeat the host operations; the models follow the host code,
and the device branch of the z pass. Parameters, logging and library wrappers have no
state worth a model; legacy systems and the programs that CMake leaves out are not
built. See "components".

## Plan

Done: the exchange of particles and of guard cells, the Cartesian field step and its
refinement of one global lattice, the schedule of all built programs, the particle
array and its sort, restarts; types, message matching, drained buffers,
conservation and arrival of particles, the exchange of guard cells, the decomposition
of the field step, its div B and its Gauss's law, restarts, the particle array and its sort, and the
schedule of the programs proved.

1. Extend: the photon branch of `update` (`rho_ph` is not cleared on a rank
   without photons); comm buffers with a capacity; slot allocation of radiative
   transfer; the capacity of `gather_tracked_ptc`; special outputs, the xmf index
   and particle ids in `Restart`; host and device copies of a `buffer`; the
   rank names of `m_world` against `m_cart`. There are as many runs as can be
   kept short: new questions join the runs above.
2. Prove: what is added under 1; that `Target` of `ParticleArray` is the outcome of
   `SegmentSort` as a refinement, not only as two theorems about one order.
