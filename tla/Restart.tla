------------------------------ MODULE Restart ------------------------------
(***************************************************************************)
(* A job and its files: the main loop of sim_environment, the data         *)
(* exporter that writes numbered output files and one snapshot file, and   *)
(* the crashes and restarts between them (environment.cpp,                 *)
(* data_exporter::update, write_snapshot, load_snapshot).  All ranks of a  *)
(* job enter the exporter together (barrier, collective files), so the job *)
(* is one process here.                                                    *)
(*                                                                         *)
(* What update() of a system leaves in a component is some function of the *)
(* step, the time and what the system reads.  The snapshot does not hold   *)
(* all components, nor does a restart bring all of them back, so a system  *)
(* may find something else than in a job that never stopped.  The history  *)
(* variable twin is that job; no action depends on it.                     *)
(***************************************************************************)
EXTENDS Integers, Sequences

CONSTANTS
  Order,         \* m_system_order: the names of the systems
  Data,          \* the components that they write
  OnDevice,      \* built for CUDA or HIP
  max_steps,     \* max_steps
  FldInterval,   \* m_fld_output_interval
  PtcInterval,   \* m_ptc_output_interval
  SnapInterval,  \* m_snapshot_interval; 0 turns snapshots off
  MaxCrashes,    \* crashes in a behaviour (bound of the model)
  Update(_, _, _, _, _)  \* system, component, step, time, what it reads

ASSUME RestartAssumption ==
  /\ Order \in Seq({"grid", "pusher", "rad", "moments", "momentum", "tracker",
                    "injector", "solver", "bc", "exporter"})
  /\ \E i \in 1..Len(Order) : Order[i] = "exporter"
  /\ \A i, j \in 1..Len(Order) : Order[i] = Order[j] => i = j
  /\ Data \subseteq {"field", "J", "ptc", "photon", "rng", "ids"}
  /\ OnDevice \in BOOLEAN
  /\ max_steps \in Nat /\ SnapInterval \in Nat /\ MaxCrashes \in Nat
  /\ FldInterval \in Nat \ {0} /\ PtcInterval \in Nat \ {0}

VARIABLES
  pc,          \* "turn" of the loop, inside "snapshot", "down" or "done"
  sys,         \* the system that is next in this turn
  n,           \* the loop counter of sim_environment::run
  step, time,  \* sim_environment::step and time, in units of dt
  data,        \* the contents of the components
  acc,         \* steps collected by data with reset_after_output(true)
  fld_num,     \* m_fld_num
  ptc_num,     \* m_ptc_num
  is_restart,  \* m_is_restart
  fld, ptc,    \* the output files by number, as they are on disk
  snapshot,    \* snapshot.h5 on disk
  crashes,     \* crashes so far
  twin         \* history: contents before system i of step s, at <<s, i>>,
               \* in a job that never stops, as far as this one has been

mem == <<sys, n, step, time, data, acc, fld_num, ptc_num, is_restart>>
disk == <<fld, ptc, snapshot>>
vars == <<pc, mem, disk, crashes, twin>>

-----------------------------------------------------------------------------
(* Components: "field" is E, B, their parts and the split halves, "photon"   *)
(* goes with Rho_ph, "ids" are the counters ptc_id of particles and photons. *)

\* Mutant of PusherReads: J->init() is missing, deposits are added up.
PusherReadsJ == {"field", "ptc", "photon", "rng", "J"}

PusherReads == {"field", "ptc", "photon", "rng"}

FieldFile == {"field", "J"}          \* what goes to a field file
ParticleFile == {"ptc", "photon"}    \* tracked particles and photons

\* include_in_snapshot(true).
Saved == {"field", "ptc", "photon", "rng"}

\* Mutant of Readable: one more branch missing.
ReadableNoPtc == {"field", "rng"}

\* What load_snapshot brings back: it has no branch for photon_data_t, and
\* read() of rng_states_t ends with copy_to_host, which on a GPU overwrites
\* what was read with the states of the device.
Readable == {"field", "ptc"} \cup (IF OnDevice THEN {} ELSE {"rng"})

Restored == Data \cap Saved \cap Readable

\* What update() of a system reads of earlier contents, and what it changes.
Reads(s) ==
  CASE s = "solver" -> {"field", "J"}
    [] s = "bc" -> {"field"}
    [] s = "pusher" -> PusherReads
    [] s = "rad" -> {"field", "ptc", "photon", "rng", "ids"}
    [] s = "injector" -> {"field", "ptc", "rng", "ids"}
    [] s = "exporter" -> FieldFile \cup ParticleFile \cup Saved
    [] OTHER -> {}
Writes(s) ==
  CASE s \in {"solver", "bc"} -> {"field"}
    [] s = "pusher" -> {"ptc", "photon", "rng", "J"}
    [] s = "rad" -> {"ptc", "photon", "rng", "ids"}
    [] s = "injector" -> {"ptc", "rng"} \cup (IF OnDevice THEN {"ids"} ELSE {})
    [] OTHER -> {}

\* Systems that tally every step into data with reset_after_output.
Tallying == {"rad"}

\* Contents c after update() of system i in step s at time t.
After(i, s, t, c) ==
  [d \in Data |->
     IF d \in Writes(Order[i])
     THEN Update(Order[i], d, s, t, [r \in Reads(Order[i]) \cap Data |-> c[r]])
     ELSE c[d]]

\* The initial condition.
Initial == [d \in Data |-> 0]

-----------------------------------------------------------------------------
(* Files *)

NoFile == [kind |-> "none"]
Partial == [kind |-> "partial"]
NoFiles == [k \in {} |-> NoFile]
Extend(f, k, v) == [j \in DOMAIN f \cup {k} |-> IF j = k THEN v ELSE f[j]]

\* The twin gets to a point of its run where it has not been before.
Reach(p, c) == twin' = IF p \in DOMAIN twin THEN twin ELSE Extend(twin, p, c)

\* init() of the environment, its systems and its data, then main().
Fresh(restarting) ==
  /\ sys' = 1 /\ n' = 0 /\ step' = 0 /\ time' = 0
  /\ data' = Initial
  /\ acc' = 0
  /\ fld_num' = 0 /\ ptc_num' = 0
  /\ is_restart' = restarting
  /\ pc' = "turn"

Init ==
  /\ sys = 1 /\ n = 0 /\ step = 0 /\ time = 0
  /\ data = Initial
  /\ acc = 0
  /\ fld_num = 0 /\ ptc_num = 0
  /\ is_restart = FALSE
  /\ pc = "turn"
  /\ fld = NoFiles /\ ptc = NoFiles
  /\ snapshot = NoFile
  /\ crashes = 0
  /\ twin = [p \in {<<0, 1>>} |-> Initial]

-----------------------------------------------------------------------------
(* One turn of the main loop *)

Turn(s) == pc = "turn" /\ sys <= Len(Order) /\ Order[sys] = s

\* update() of any system but the exporter.
RunSystem ==
  /\ pc = "turn" /\ sys <= Len(Order) /\ Order[sys] # "exporter"
  /\ data' = After(sys, step, time, data)
  /\ acc' = IF Order[sys] \in Tallying THEN acc + 1 ELSE acc
  /\ sys' = sys + 1
  /\ Reach(<<step, sys + 1>>, After(sys, step, step, twin[<<step, sys>>]))
  /\ UNCHANGED <<pc, n, step, time, fld_num, ptc_num, is_restart, disk, crashes>>

\* Mutants of LoadNumbers: the file numbers are left at zero, or swapped.
ForgetNumbers == UNCHANGED <<fld_num, ptc_num>>
SwapNumbers == fld_num' = snapshot.fld_num /\ ptc_num' = snapshot.fld_num

LoadNumbers == fld_num' = snapshot.fld_num /\ ptc_num' = snapshot.ptc_num

LoadClock == step' = snapshot.step /\ time' = snapshot.time

\* load_snapshot, then set_step, set_time and finish_restart.  What is not
\* restored stays as the first turn of the new job has left it.
Load ==
  /\ Turn("exporter") /\ is_restart
  /\ snapshot.kind = "whole"
  /\ LoadClock
  /\ LoadNumbers
  /\ data' = [d \in Data |-> IF d \in Restored THEN snapshot.data[d] ELSE data[d]]
  /\ is_restart' = FALSE
  /\ sys' = sys + 1
  /\ UNCHANGED <<pc, n, acc, disk, crashes, twin>>

Due(interval) == step % interval = 0

\* Field output, which resets the accumulated data, then particle output.
Output ==
  /\ Turn("exporter") /\ ~is_restart
  /\ IF Due(FldInterval)
     THEN /\ fld' = Extend(fld, fld_num,
                  [step |-> step, data |-> [d \in Data \cap FieldFile |-> data[d]],
                   acc |-> acc])
          /\ acc' = 0
          /\ fld_num' = fld_num + 1
     ELSE UNCHANGED <<fld, acc, fld_num>>
  /\ IF Due(PtcInterval)
     THEN /\ ptc' = Extend(ptc, ptc_num,
                  [step |-> step, data |-> [d \in Data \cap ParticleFile |-> data[d]]])
          /\ ptc_num' = ptc_num + 1
     ELSE UNCHANGED <<ptc, ptc_num>>
  /\ IF SnapInterval > 0 /\ Due(SnapInterval)
     THEN pc' = "snapshot" /\ snapshot' = Partial  \* opened with truncation
          /\ UNCHANGED sys
     ELSE sys' = sys + 1 /\ UNCHANGED <<pc, snapshot>>
  /\ Reach(<<step, sys + 1>>, twin[<<step, sys>>])
  /\ UNCHANGED <<n, step, time, data, is_restart, crashes>>

WriteSnapshot ==
  /\ pc = "snapshot"
  /\ snapshot' = [kind |-> "whole", step |-> step, time |-> time,
                  data |-> [d \in Data \cap Saved |-> data[d]],
                  fld_num |-> fld_num, ptc_num |-> ptc_num]
  /\ pc' = "turn"
  /\ sys' = sys + 1
  /\ UNCHANGED <<n, step, time, data, acc, fld_num, ptc_num, is_restart, fld, ptc,
                 crashes, twin>>

\* Mutant of Continues: the old counter is compared.
ContinuesLate == n <= max_steps

Continues == n + 1 <= max_steps

\* After the last system: time += dt, step += 1, n++.
EndTurn ==
  /\ pc = "turn" /\ sys > Len(Order)
  /\ time' = time + 1
  /\ step' = step + 1
  /\ n' = n + 1
  /\ sys' = 1
  /\ pc' = IF Continues THEN "turn" ELSE "done"
  /\ Reach(<<step + 1, 1>>, twin[<<step, sys>>])
  /\ UNCHANGED <<data, acc, fld_num, ptc_num, is_restart, disk, crashes>>

-----------------------------------------------------------------------------
(* The environment *)

\* The job dies: what is in memory is gone, the files stay as they are.
Crash ==
  /\ pc \notin {"down", "done"} /\ crashes < MaxCrashes
  /\ pc' = "down"
  /\ crashes' = crashes + 1
  /\ UNCHANGED <<mem, disk, twin>>

\* Mutant of Usable: a snapshot whose writing was interrupted passes too.
UsableAny == snapshot.kind # "none"

Usable == snapshot.kind = "whole"

\* The job is run again with --restart and a usable snapshot, or without one.
Rerun ==
  /\ pc = "down"
  /\ Fresh(Usable)
  /\ UNCHANGED <<disk, crashes, twin>>

Step == RunSystem \/ Load \/ Output \/ WriteSnapshot \/ EndTurn \/ Rerun

Finished == pc = "done" /\ UNCHANGED vars

Next == Step \/ Crash \/ Finished

\* The job keeps running, and someone runs it again when it died.
Spec == Init /\ [][Next]_vars /\ WF_vars(Step)

-----------------------------------------------------------------------------
(* When a restart is exact *)

Exporter == CHOOSE i \in 1..Len(Order) : Order[i] = "exporter"

\* The systems that have run since the exporter when system i is next.
Since(i) ==
  {j \in 1..Len(Order) : IF i > Exporter THEN Exporter < j /\ j < i
                         ELSE Exporter < j \/ j < i}

\* The components that are restored or have been written since.
Known(i) == Restored \cup {d \in Data : \E j \in Since(i) : d \in Writes(Order[j])}

\* No system reads a component that is neither.  It is so in the programs with
\* the pusher before the solver and without new particles; it is not for J in
\* gr_2d_kerr_schild, where the solver comes first, for "ids" where particles
\* are made on a GPU or by radiation, for photons, and for "rng" on a GPU.
CarriesNothing == \A i \in 1..Len(Order) : Reads(Order[i]) \cap Data \subseteq Known(i)

-----------------------------------------------------------------------------
(* Properties *)

TypeOK ==
  /\ pc \in {"turn", "snapshot", "down", "done"}
  /\ sys \in 1..(Len(Order) + 1)
  /\ n \in 0..(max_steps + 1)
  /\ step \in Nat /\ time \in Nat /\ acc \in Nat
  /\ fld_num \in Nat /\ ptc_num \in Nat
  /\ is_restart \in BOOLEAN
  /\ DOMAIN data = Data
  /\ DOMAIN fld \subseteq Nat /\ DOMAIN ptc \subseteq Nat
  /\ snapshot.kind \in {"none", "partial", "whole"}
  /\ crashes \in 0..MaxCrashes

\* After any crashes and restarts, every system finds the step, the time and
\* all that it reads, J included, as they are in a job that never stopped
\* ("Anything that needs to be included in the snapshot will need to
\* explicitly declare this option").
Resumes ==
  pc = "turn" /\ sys <= Len(Order) =>
    /\ time = step
    /\ <<step, sys>> \in DOMAIN twin
    /\ \A d \in Reads(Order[sys]) \cap Data : data[d] = twin[<<step, sys>>][d]

\* Output files keep their place in the series over crashes and restarts:
\* file k is the output of step k * interval, and none is missing.
FieldSeries ==
  /\ \A k \in DOMAIN fld : fld[k].step = k * FldInterval
  /\ \A k \in 0..(fld_num - 1) : k \in DOMAIN fld
ParticleSeries ==
  /\ \A k \in DOMAIN ptc : ptc[k].step = k * PtcInterval
  /\ \A k \in 0..(ptc_num - 1) : k \in DOMAIN ptc

\* The steps between a snapshot and a crash are computed again and their
\* output files written again: always with the same fields, J and tracked
\* particles.
RewritesAgree ==
  [][/\ \A k \in DOMAIN fld : fld'[k].step = fld[k].step
                              /\ fld'[k].data = fld[k].data
     /\ \A k \in DOMAIN ptc : ptc'[k] = ptc[k]]_vars

\* A job that is run again after every crash ends.
JobFinishes == <>(pc = "done")

\* load_snapshot reads every component included in the snapshot back ("Walk
\* over all data components and read them from the snapshot file according
\* to their `include_in_snapshot`").
LoadsWhatWasSaved ==
  [][Load => \A d \in Data \cap Saved : data'[d] = snapshot.data[d]]_vars

\* Data with reset_after_output "always track the cumulative amount between
\* two data dumps": each field file holds one interval of accumulation.
TracksInterval ==
  \A k \in DOMAIN fld : fld[k].acc = IF k = 0 THEN 1 ELSE FldInterval
=============================================================================
