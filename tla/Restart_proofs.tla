--------------------------- MODULE Restart_proofs ---------------------------
(***************************************************************************)
(* Proofs about a job, its files and its restarts, for any order of        *)
(* systems, any updates, intervals, number of steps and crashes: output    *)
(* files keep their place in the series; and, where no system reads what   *)
(* was neither restored nor written since (CarriesNothing), a restarted    *)
(* job is one that never stopped.                                          *)
(***************************************************************************)
EXTENDS Restart, TLAPS

\* k files are due before step s if there is one every f steps.
Ahead(k, f, s) == s <= k * f /\ k * f < s + f

\* The first step whose outputs are still to be written.
NextOutput == IF sys <= Exporter /\ pc # "snapshot" THEN step ELSE step + 1

-----------------------------------------------------------------------------
(* Counting files *)

\* A multiple grows with its factor.
LEMMA TimesMonotone ==
  ASSUME NEW a \in Nat, NEW b \in Nat, NEW f \in Nat, a <= b
  PROVE  a * f <= b * f /\ a * f \in Nat /\ b * f \in Nat
<1>1. PICK c \in Nat : b = a + c
  <2>1. b - a \in Nat /\ b = a + (b - a)
    OBVIOUS
  <2> QED
    BY <2>1
<1>2. /\ b * f = a * f + c * f
      /\ a * f \in Nat /\ c * f \in Nat /\ b * f \in Nat
  BY <1>1
<1> QED
  BY <1>2

\* An output is due exactly when the files before it number step / interval.
LEMMA DueCount ==
  ASSUME NEW f \in Nat \ {0}, NEW s \in Nat, NEW k \in Nat, Ahead(k, f, s)
  PROVE  /\ s % f = 0 => s = k * f /\ Ahead(k + 1, f, s + 1)
         /\ s % f # 0 => Ahead(k, f, s + 1)
<1> DEFINE j == s \div f
           m == s % f
<1>1. /\ j \in Nat /\ m \in Nat /\ m < f /\ s = j * f + m
  BY SMT
<1>2. /\ s <= k * f /\ k * f < s + f
      /\ k * f \in Nat /\ j * f \in Nat /\ (j + 1) * f = j * f + f
      /\ (k + 1) * f = k * f + f
  BY <1>1 DEF Ahead
<1> HIDE DEF j, m
<1>3. ~(k + 1 <= j)
  <2> SUFFICES ASSUME k + 1 <= j PROVE FALSE
    OBVIOUS
  <2>1. (k + 1) * f <= j * f
    BY <1>1, TimesMonotone
  <2> QED
    BY <1>1, <1>2, <2>1
<1>4. ASSUME m = 0 PROVE k = j
  <2>1. ~(j + 1 <= k)
    <3> SUFFICES ASSUME j + 1 <= k PROVE FALSE
      OBVIOUS
    <3>1. (j + 1) * f <= k * f
      BY <1>1, TimesMonotone
    <3> QED
      BY <1>1, <1>2, <1>4, <3>1
  <2> QED
    BY <1>1, <1>3, <2>1
<1>5. ASSUME m = 0 PROVE s = k * f
  BY <1>1, <1>2, <1>4, <1>5
<1>6. ASSUME m # 0 PROVE s # k * f
  <2>1. CASE k = j
    BY <1>1, <1>2, <1>6, <2>1
  <2>2. CASE k # j
    <3>1. j + 1 <= k
      BY <1>1, <1>3, <2>2
    <3>2. (j + 1) * f <= k * f
      BY <1>1, <3>1, TimesMonotone
    <3> QED
      BY <1>1, <1>2, <3>2
  <2> QED
    BY <2>1, <2>2
<1>7. m = 0 => s = k * f /\ Ahead(k + 1, f, s + 1)
  BY <1>2, <1>5 DEF Ahead
<1>8. m # 0 => Ahead(k, f, s + 1)
  BY <1>2, <1>6 DEF Ahead
<1> QED
  BY <1>7, <1>8 DEF m

-----------------------------------------------------------------------------
(* The output series *)

\* Memory, files and snapshot agree on how many outputs there are.
CountInv ==
  /\ TypeOK
  /\ pc \notin {"down", "done"} => n <= max_steps
  /\ is_restart => pc \in {"turn", "down"} /\ sys <= Exporter
  /\ pc = "snapshot" => sys = Exporter
  /\ pc # "down" =>
       /\ Ahead(fld_num, FldInterval, NextOutput)
       /\ Ahead(ptc_num, PtcInterval, NextOutput)
  /\ snapshot.kind = "whole" =>
       /\ snapshot.step \in Nat /\ snapshot.time \in Nat
       /\ snapshot.fld_num \in Nat /\ snapshot.ptc_num \in Nat
       /\ Ahead(snapshot.fld_num, FldInterval, snapshot.step + 1)
       /\ Ahead(snapshot.ptc_num, PtcInterval, snapshot.step + 1)
       /\ \A k \in 0..(snapshot.fld_num - 1) : k \in DOMAIN fld
       /\ \A k \in 0..(snapshot.ptc_num - 1) : k \in DOMAIN ptc
  /\ FieldSeries /\ ParticleSeries

\* What a field file and a particle file take of the data.
FieldPart == [d \in Data \cap FieldFile |-> data[d]]
ParticlePart == [d \in Data \cap ParticleFile |-> data[d]]

\* Constants.
LEMMA Intervals ==
  /\ FldInterval \in Nat \ {0} /\ PtcInterval \in Nat \ {0}
  /\ max_steps \in Nat /\ SnapInterval \in Nat /\ MaxCrashes \in Nat
  /\ Len(Order) \in Nat
  BY RestartAssumption

\* There is one exporter.
LEMMA OneExporter ==
  /\ Exporter \in 1..Len(Order) /\ Order[Exporter] = "exporter"
  /\ Exporter \in Nat /\ 1 <= Exporter /\ Exporter <= Len(Order)
  /\ \A i \in 1..Len(Order) : Order[i] = "exporter" => i = Exporter
<1>1. \E i \in 1..Len(Order) : Order[i] = "exporter"
  BY RestartAssumption
<1>2. Exporter \in 1..Len(Order) /\ Order[Exporter] = "exporter"
  BY <1>1 DEF Exporter
<1>3. \A i, j \in 1..Len(Order) : Order[i] = Order[j] => i = j
  BY RestartAssumption
<1> QED
  BY <1>2, <1>3, Intervals

\* Where the systems are, by their place in the order.
LEMMA AtExporter ==
  ASSUME TypeOK
  PROVE  /\ Turn("exporter") => pc = "turn" /\ sys = Exporter
         /\ sys \in Nat /\ 1 <= sys /\ sys <= Len(Order) + 1
         /\ sys <= Len(Order) => sys \in 1..Len(Order)
<1>1. sys \in 1..(Len(Order) + 1)
  BY DEF TypeOK
<1> QED
  BY <1>1, OneExporter, Intervals DEF Turn

\* No files are due before step 0.
LEMMA NoneAhead ==
  Ahead(0, FldInterval, 0) /\ Ahead(0, PtcInterval, 0)
<1>1. 0 * FldInterval = 0 /\ 0 * PtcInterval = 0
  BY Intervals
<1> QED
  BY <1>1, Intervals DEF Ahead

\* A new job has no files and none are due.
LEMMA CountInit == Init => CountInv
<1> SUFFICES ASSUME Init PROVE CountInv
  OBVIOUS
<1>1. TypeOK
  <2>1. DOMAIN fld \subseteq Nat /\ DOMAIN ptc \subseteq Nat
    BY DEF Init, NoFiles
  <2>2. snapshot.kind = "none"
    BY DEF Init, NoFile
  <2>3. /\ n \in 0..(max_steps + 1) /\ crashes \in 0..MaxCrashes
        /\ sys \in 1..(Len(Order) + 1)
    BY Intervals DEF Init
  <2>4. DOMAIN data = Data
    BY DEF Init, Initial
  <2> QED
    BY <2>1, <2>2, <2>3, <2>4 DEF Init, TypeOK
<1>2. FieldSeries /\ ParticleSeries
  BY DEF Init, FieldSeries, ParticleSeries, NoFiles
<1>3. NextOutput = 0
  BY OneExporter DEF Init, NextOutput
<1> QED
  BY <1>1, <1>2, <1>3, NoneAhead, Intervals DEF Init, CountInv, NoFile

\* What Output does to the field files,
LEMMA FieldOutput ==
  ASSUME CountInv, Output
  PROVE  /\ fld_num' \in Nat /\ acc' \in Nat /\ DOMAIN fld' \subseteq Nat
         /\ Ahead(fld_num', FldInterval, step + 1)
         /\ DOMAIN fld \subseteq DOMAIN fld'
         /\ FieldSeries'
         /\ \A k \in DOMAIN fld' :
              \/ k \in DOMAIN fld /\ fld'[k] = fld[k]
              \/ fld'[k].step = k * FldInterval /\ fld'[k].step = step
                   /\ fld'[k].data = FieldPart
<1>1. /\ fld_num \in Nat /\ step \in Nat /\ acc \in Nat /\ DOMAIN fld \subseteq Nat
      /\ Ahead(fld_num, FldInterval, step) /\ FieldSeries
  BY AtExporter DEF CountInv, TypeOK, Output, NextOutput
<1>2. CASE Due(FldInterval)
  <2> DEFINE v == [step |-> step, data |-> FieldPart, acc |-> acc]
  <2>1. /\ fld' = Extend(fld, fld_num, v) /\ acc' = 0 /\ fld_num' = fld_num + 1
    BY <1>2 DEF Output, FieldPart
  <2>2. step = fld_num * FldInterval /\ Ahead(fld_num + 1, FldInterval, step + 1)
    BY <1>1, <1>2, DueCount, Intervals DEF Due
  <2>3. v.step = step /\ v.data = FieldPart
    OBVIOUS
  <2> HIDE DEF v
  <2>4. /\ DOMAIN fld' = DOMAIN fld \cup {fld_num} /\ DOMAIN fld' \subseteq Nat
        /\ fld'[fld_num] = v
        /\ \A j \in DOMAIN fld : j # fld_num => fld'[j] = fld[j]
        /\ \A j \in 0..(fld_num' - 1) : j \in DOMAIN fld'
    <3>1. \A j \in 0..(fld_num - 1) : j \in DOMAIN fld
      BY <1>1 DEF FieldSeries
    <3>2. DOMAIN fld' = DOMAIN fld \cup {fld_num} /\ DOMAIN fld' \subseteq Nat
      BY <1>1, <2>1 DEF Extend
    <3>3. /\ fld'[fld_num] = v
          /\ \A j \in DOMAIN fld : j # fld_num => fld'[j] = fld[j]
      BY <2>1 DEF Extend
    <3>4. \A j \in 0..(fld_num' - 1) : j \in 0..(fld_num - 1) \/ j = fld_num
      BY <1>1, <2>1
    <3> QED
      BY <3>1, <3>2, <3>3, <3>4
  <2>5. \A k \in DOMAIN fld' :
          \/ k \in DOMAIN fld /\ fld'[k] = fld[k]
          \/ fld'[k].step = k * FldInterval /\ fld'[k].step = step
               /\ fld'[k].data = FieldPart
    <3>1. /\ fld'[fld_num].step = step /\ fld'[fld_num].data = FieldPart
          /\ fld'[fld_num].step = fld_num * FldInterval
      BY <2>2, <2>3, <2>4
    <3> QED
      BY <2>4, <3>1
  <2>6. FieldSeries'
    BY <1>1, <2>4, <2>5 DEF FieldSeries
  <2> QED
    BY <1>1, <2>1, <2>2, <2>4, <2>5, <2>6
<1>3. CASE ~Due(FldInterval)
  <2>1. UNCHANGED <<fld, acc, fld_num>>
    BY <1>3 DEF Output
  <2>2. Ahead(fld_num, FldInterval, step + 1)
    BY <1>1, <1>3, DueCount, Intervals DEF Due
  <2> QED
    BY <1>1, <2>1, <2>2 DEF FieldSeries
<1> QED
  BY <1>2, <1>3

\* and to the particle files.
LEMMA ParticleOutput ==
  ASSUME CountInv, Output
  PROVE  /\ ptc_num' \in Nat /\ DOMAIN ptc' \subseteq Nat
         /\ Ahead(ptc_num', PtcInterval, step + 1)
         /\ DOMAIN ptc \subseteq DOMAIN ptc'
         /\ ParticleSeries'
         /\ \A k \in DOMAIN ptc' :
              \/ k \in DOMAIN ptc /\ ptc'[k] = ptc[k]
              \/ step = k * PtcInterval
                   /\ ptc'[k] = [step |-> step, data |-> ParticlePart]
<1>1. /\ ptc_num \in Nat /\ step \in Nat /\ DOMAIN ptc \subseteq Nat
      /\ Ahead(ptc_num, PtcInterval, step) /\ ParticleSeries
  BY AtExporter DEF CountInv, TypeOK, Output, NextOutput
<1>2. CASE Due(PtcInterval)
  <2> DEFINE v == [step |-> step, data |-> ParticlePart]
  <2>1. /\ ptc' = Extend(ptc, ptc_num, v) /\ ptc_num' = ptc_num + 1
    BY <1>2 DEF Output, ParticlePart
  <2>2. step = ptc_num * PtcInterval /\ Ahead(ptc_num + 1, PtcInterval, step + 1)
    BY <1>1, <1>2, DueCount, Intervals DEF Due
  <2>3. v.step = step /\ v.data = ParticlePart
    OBVIOUS
  <2> HIDE DEF v
  <2>4. /\ DOMAIN ptc' = DOMAIN ptc \cup {ptc_num} /\ DOMAIN ptc' \subseteq Nat
        /\ ptc'[ptc_num] = v
        /\ \A j \in DOMAIN ptc : j # ptc_num => ptc'[j] = ptc[j]
        /\ \A j \in 0..(ptc_num' - 1) : j \in DOMAIN ptc'
    <3>1. \A j \in 0..(ptc_num - 1) : j \in DOMAIN ptc
      BY <1>1 DEF ParticleSeries
    <3>2. DOMAIN ptc' = DOMAIN ptc \cup {ptc_num} /\ DOMAIN ptc' \subseteq Nat
      BY <1>1, <2>1 DEF Extend
    <3>3. /\ ptc'[ptc_num] = v
          /\ \A j \in DOMAIN ptc : j # ptc_num => ptc'[j] = ptc[j]
      BY <2>1 DEF Extend
    <3>4. \A j \in 0..(ptc_num' - 1) : j \in 0..(ptc_num - 1) \/ j = ptc_num
      BY <1>1, <2>1
    <3> QED
      BY <3>1, <3>2, <3>3, <3>4
  <2>5. \A k \in DOMAIN ptc' :
          \/ k \in DOMAIN ptc /\ ptc'[k] = ptc[k]
          \/ step = k * PtcInterval /\ ptc'[k] = v
    <3>1. step = ptc_num * PtcInterval /\ ptc'[ptc_num] = v
      BY <2>2, <2>4
    <3> QED
      BY <2>4, <3>1
  <2>6. ParticleSeries'
    BY <1>1, <2>3, <2>4, <2>5 DEF ParticleSeries
  <2> QED
    BY <1>1, <2>1, <2>2, <2>4, <2>5, <2>6 DEF v
<1>3. CASE ~Due(PtcInterval)
  <2>1. UNCHANGED <<ptc, ptc_num>>
    BY <1>3 DEF Output
  <2>2. Ahead(ptc_num, PtcInterval, step + 1)
    BY <1>1, <1>3, DueCount, Intervals DEF Due
  <2> QED
    BY <1>1, <2>1, <2>2 DEF ParticleSeries
<1> QED
  BY <1>2, <1>3

\* The exporter and the snapshot keep the count.
LEMMA OutputCounts ==
  ASSUME CountInv, Output
  PROVE  CountInv'
<1>1. /\ pc = "turn" /\ sys = Exporter /\ ~is_restart /\ TypeOK /\ n <= max_steps
      /\ UNCHANGED <<n, step, time, data, is_restart, crashes>>
  BY AtExporter DEF Output, CountInv
<1>2. \/ pc' = "snapshot" /\ sys' = sys /\ snapshot' = Partial
      \/ pc' = "turn" /\ sys' = sys + 1 /\ UNCHANGED snapshot
  BY <1>1 DEF Output
<1>3. /\ fld_num' \in Nat /\ acc' \in Nat /\ DOMAIN fld' \subseteq Nat
      /\ Ahead(fld_num', FldInterval, step + 1)
      /\ DOMAIN fld \subseteq DOMAIN fld' /\ FieldSeries'
  BY FieldOutput
<1>4. /\ ptc_num' \in Nat /\ DOMAIN ptc' \subseteq Nat
      /\ Ahead(ptc_num', PtcInterval, step + 1)
      /\ DOMAIN ptc \subseteq DOMAIN ptc' /\ ParticleSeries'
  BY ParticleOutput
<1>5. snapshot'.kind \in {"none", "partial", "whole"}
  BY <1>1, <1>2 DEF TypeOK, Partial
<1>6. TypeOK'
  <2>1. sys' \in 1..(Len(Order) + 1)
    BY <1>1, <1>2, OneExporter, Intervals
  <2> QED
    BY <1>1, <1>2, <1>3, <1>4, <1>5, <2>1 DEF TypeOK
<1>7. NextOutput' = step + 1 /\ (pc' = "snapshot" => sys' = Exporter')
  BY <1>1, <1>2, OneExporter DEF NextOutput
<1>8. snapshot'.kind = "whole" =>
        /\ snapshot' = snapshot
        /\ \A k \in 0..(snapshot.fld_num - 1) : k \in DOMAIN fld'
        /\ \A k \in 0..(snapshot.ptc_num - 1) : k \in DOMAIN ptc'
  BY <1>2, <1>3, <1>4 DEF CountInv, Partial
<1>9. /\ Ahead(fld_num', FldInterval, NextOutput')
      /\ Ahead(ptc_num', PtcInterval, NextOutput')
  BY <1>3, <1>4, <1>7
<1>10. n' <= max_steps /\ ~is_restart'
  BY <1>1
<1> QED
  BY <1>3, <1>4, <1>6, <1>7, <1>8, <1>9, <1>10 DEF CountInv

\* Every step keeps the count: the exporter writes what is due, the end of a
\* turn makes the next step the current one, a restart takes the snapshot's.
LEMMA CountNext == CountInv /\ [Next]_vars => CountInv'
<1> SUFFICES ASSUME CountInv, [Next]_vars PROVE CountInv'
  OBVIOUS
<1> USE Intervals
<1>0. TypeOK /\ sys \in Nat /\ 1 <= sys /\ sys <= Len(Order) + 1
  BY AtExporter DEF CountInv
<1>1. CASE RunSystem
  <2>1. /\ pc = "turn" /\ sys <= Len(Order) /\ sys # Exporter /\ sys' = sys + 1
        /\ data' = After(sys, step, time, data)
        /\ acc' \in {acc, acc + 1}
        /\ UNCHANGED <<pc, n, step, time, fld_num, ptc_num, is_restart, fld, ptc,
                       snapshot, crashes>>
    BY <1>1, OneExporter DEF RunSystem, disk
  <2>2. DOMAIN data' = Data
    BY <2>1 DEF After
  <2>3. sys' \in 1..(Len(Order) + 1) /\ acc' \in Nat
    BY <1>0, <2>1 DEF TypeOK
  <2>4. TypeOK'
    BY <1>0, <2>1, <2>2, <2>3 DEF TypeOK
  <2>5. NextOutput' = NextOutput /\ (is_restart' => sys' <= Exporter)
    BY <1>0, <2>1, OneExporter DEF NextOutput, CountInv
  <2>6. FieldSeries' /\ ParticleSeries'
    BY <2>1 DEF CountInv, FieldSeries, ParticleSeries
  <2> QED
    BY <2>1, <2>4, <2>5, <2>6 DEF CountInv
<1>2. CASE Load
  <2>1. /\ pc = "turn" /\ sys = Exporter /\ snapshot.kind = "whole"
        /\ step' = snapshot.step /\ time' = snapshot.time
        /\ fld_num' = snapshot.fld_num /\ ptc_num' = snapshot.ptc_num
        /\ DOMAIN data' = Data
        /\ is_restart' = FALSE /\ sys' = sys + 1
        /\ UNCHANGED <<pc, n, acc, fld, ptc, snapshot, crashes>>
    BY <1>0, <1>2, AtExporter DEF Load, LoadClock, LoadNumbers, disk
  <2>2. sys' \in 1..(Len(Order) + 1)
    BY <2>1, OneExporter
  <2>3. TypeOK'
    BY <1>0, <2>1, <2>2 DEF TypeOK, CountInv
  <2>4. NextOutput' = snapshot.step + 1
    BY <2>1, OneExporter DEF NextOutput
  <2>5. FieldSeries' /\ ParticleSeries'
    BY <2>1 DEF CountInv, FieldSeries, ParticleSeries
  <2> QED
    BY <2>1, <2>3, <2>4, <2>5 DEF CountInv
<1>3. CASE Output
  BY <1>3, OutputCounts
<1>4. CASE WriteSnapshot
  <2> DEFINE v == [kind |-> "whole", step |-> step, time |-> time,
                   data |-> [d \in Data \cap Saved |-> data[d]],
                   fld_num |-> fld_num, ptc_num |-> ptc_num]
  <2>1. /\ pc = "snapshot" /\ pc' = "turn" /\ snapshot' = v
        /\ sys = Exporter /\ sys' = sys + 1
        /\ UNCHANGED <<n, step, time, data, acc, fld_num, ptc_num, is_restart, fld,
                       ptc, crashes>>
    BY <1>4 DEF WriteSnapshot, CountInv
  <2>2. /\ v.kind = "whole" /\ v.step = step /\ v.time = time
        /\ v.fld_num = fld_num /\ v.ptc_num = ptc_num
    OBVIOUS
  <2> HIDE DEF v
  <2>3. sys' \in 1..(Len(Order) + 1)
    BY <2>1, OneExporter
  <2>4. TypeOK'
    BY <1>0, <2>1, <2>2, <2>3 DEF TypeOK
  <2>5. NextOutput' = step + 1 /\ NextOutput = step + 1 /\ ~is_restart
    BY <2>1, OneExporter DEF NextOutput, CountInv
  <2>6. FieldSeries' /\ ParticleSeries'
    BY <2>1 DEF CountInv, FieldSeries, ParticleSeries
  <2>7. /\ \A k \in 0..(v.fld_num - 1) : k \in DOMAIN fld
        /\ \A k \in 0..(v.ptc_num - 1) : k \in DOMAIN ptc
    BY <2>2 DEF CountInv, FieldSeries, ParticleSeries
  <2> QED
    BY <1>0, <2>1, <2>2, <2>4, <2>5, <2>6, <2>7 DEF CountInv, TypeOK
<1>5. CASE EndTurn
  <2>1. /\ pc = "turn" /\ sys > Len(Order) /\ sys' = 1
        /\ time' = time + 1 /\ step' = step + 1 /\ n' = n + 1
        /\ pc' = IF n + 1 <= max_steps THEN "turn" ELSE "done"
        /\ UNCHANGED <<data, acc, fld_num, ptc_num, is_restart, fld, ptc, snapshot,
                       crashes>>
    BY <1>5 DEF EndTurn, Continues, disk
  <2>2. n' \in 0..(max_steps + 1) /\ sys' \in 1..(Len(Order) + 1)
    BY <1>0, <2>1 DEF TypeOK, CountInv
  <2>3. TypeOK'
    BY <1>0, <2>1, <2>2 DEF TypeOK
  <2>4. NextOutput' = step + 1 /\ NextOutput = step + 1 /\ ~is_restart
    BY <1>0, <2>1, OneExporter DEF NextOutput, CountInv
  <2>5. FieldSeries' /\ ParticleSeries'
    BY <2>1 DEF CountInv, FieldSeries, ParticleSeries
  <2> QED
    BY <2>1, <2>3, <2>4, <2>5 DEF CountInv
<1>6. CASE Crash
  <2>1. /\ pc' = "down" /\ crashes < MaxCrashes /\ crashes' = crashes + 1
        /\ UNCHANGED <<sys, n, step, time, data, acc, fld_num, ptc_num, is_restart,
                       fld, ptc, snapshot>>
    BY <1>6 DEF Crash, mem, disk
  <2>2. TypeOK'
    BY <1>0, <2>1 DEF TypeOK
  <2>3. FieldSeries' /\ ParticleSeries'
    BY <2>1 DEF CountInv, FieldSeries, ParticleSeries
  <2> QED
    BY <2>1, <2>2, <2>3 DEF CountInv
<1>7. CASE Rerun
  <2>1. /\ sys' = 1 /\ n' = 0 /\ step' = 0 /\ time' = 0 /\ DOMAIN data' = Data
        /\ acc' = 0 /\ fld_num' = 0 /\ ptc_num' = 0 /\ is_restart' = Usable
        /\ pc' = "turn" /\ UNCHANGED <<fld, ptc, snapshot, crashes>>
    BY <1>7 DEF Rerun, Fresh, disk, Initial
  <2>2. TypeOK'
    BY <1>0, <2>1 DEF TypeOK, Usable
  <2>3. NextOutput' = 0 /\ sys' <= Exporter
    BY <2>1, OneExporter DEF NextOutput
  <2>4. FieldSeries' /\ ParticleSeries'
    BY <2>1 DEF CountInv, FieldSeries, ParticleSeries
  <2> QED
    BY <2>1, <2>2, <2>3, <2>4, NoneAhead DEF CountInv
<1>8. CASE UNCHANGED vars
  <2>1. UNCHANGED <<pc, sys, n, step, time, data, acc, fld_num, ptc_num, is_restart,
                    fld, ptc, snapshot, crashes>>
    BY <1>8 DEF vars, mem, disk
  <2>2. TypeOK'
    BY <1>0, <2>1 DEF TypeOK
  <2>3. NextOutput' = NextOutput
    BY <2>1 DEF NextOutput
  <2>4. FieldSeries' /\ ParticleSeries'
    BY <2>1 DEF CountInv, FieldSeries, ParticleSeries
  <2> QED
    BY <2>1, <2>2, <2>3, <2>4 DEF CountInv
<1> QED
  BY <1>1, <1>2, <1>3, <1>4, <1>5, <1>6, <1>7, <1>8 DEF Next, Step, Finished

\* Counters, files and the snapshot keep their types through any number of
\* crashes and restarts (sim_environment::run, data_exporter::update).
THEOREM JobTypes == Spec => []TypeOK
<1>1. CountInv => TypeOK
  BY DEF CountInv
<1> QED
  BY <1>1, CountInit, CountNext, PTL DEF Spec

\* Field files keep their place in the series: file k is the output of step
\* k * interval and none is missing, whatever the interval and wherever the job
\* crashes (data_exporter::update, load_snapshot).
THEOREM SeriesKept == Spec => []FieldSeries
<1>1. CountInv => FieldSeries
  BY DEF CountInv
<1> QED
  BY <1>1, CountInit, CountNext, PTL DEF Spec

\* So do the particle files, whose interval is their own.
THEOREM ParticleSeriesKept == Spec => []ParticleSeries
<1>1. CountInv => ParticleSeries
  BY DEF CountInv
<1> QED
  BY <1>1, CountInit, CountNext, PTL DEF Spec

-----------------------------------------------------------------------------
(* The job that never stops *)

\* The point of a run before p, and what p has if the point before has c.
Prior(p) == IF p[2] = 1 THEN <<p[1] - 1, Len(Order) + 1>> ELSE <<p[1], p[2] - 1>>
Follow(p, c) == IF p[2] = 1 THEN c ELSE After(p[2] - 1, p[1], p[1], c)

\* twin has no gaps, and each point follows from the one before.
TwinInv ==
  /\ <<0, 1>> \in DOMAIN twin /\ twin[<<0, 1>>] = Initial
  /\ \A p \in DOMAIN twin : p # <<0, 1>> =>
       /\ Prior(p) \in DOMAIN twin
       /\ \A d \in Data : twin[p][d] = Follow(p, twin[Prior(p)])[d]

\* The point before a system has run,
LEMMA PointBefore ==
  ASSUME NEW s \in Nat, NEW i \in Nat, 1 <= i, NEW p, p = <<s, i + 1>>
  PROVE  /\ Prior(p) = <<s, i>> /\ p # <<0, 1>>
         /\ \A c : Follow(p, c) = After(i, s, s, c)
<1>1. p[1] = s /\ p[2] = i + 1 /\ i + 1 # 1 /\ i + 1 - 1 = i
  OBVIOUS
<1>2. Prior(p) = <<s, i>> /\ p # <<0, 1>>
  BY <1>1 DEF Prior
<1>3. \A c : Follow(p, c) = After(i, s, s, c)
  BY <1>1 DEF Follow
<1> QED
  BY <1>2, <1>3

\* before the exporter has run,
LEMMA ExporterBefore ==
  ASSUME NEW s \in Nat, NEW p, p = <<s, Exporter + 1>>
  PROVE  /\ Prior(p) = <<s, Exporter>> /\ p # <<0, 1>>
         /\ \A c : \A d \in Data : Follow(p, c)[d] = c[d]
<1>1. PICK e \in Nat : e = Exporter /\ 1 <= e
  BY OneExporter
<1>2. p = <<s, e + 1>>
  BY <1>1
<1>3. Prior(p) = <<s, e>> /\ p # <<0, 1>> /\ \A c : Follow(p, c) = After(e, s, s, c)
  BY <1>1, <1>2, PointBefore
<1>4. Writes(Order[e]) = {}
  BY <1>1, OneExporter DEF Writes
<1>5. \A c : \A d \in Data : After(e, s, s, c)[d] = c[d]
  BY <1>4 DEF After
<1> QED
  BY <1>1, <1>3, <1>5

\* and before a turn has ended.
LEMMA TurnBefore ==
  ASSUME NEW s \in Nat, NEW p, p = <<s + 1, 1>>
  PROVE  /\ Prior(p) = <<s, Len(Order) + 1>> /\ p # <<0, 1>>
         /\ \A c : Follow(p, c) = c
<1>1. p[1] = s + 1 /\ p[2] = 1 /\ s + 1 - 1 = s /\ s + 1 # 0
  OBVIOUS
<1>2. Prior(p) = <<s, Len(Order) + 1>> /\ p # <<0, 1>>
  BY <1>1 DEF Prior
<1> QED
  BY <1>1, <1>2 DEF Follow

\* It stays so if it does not change.
LEMMA TwinStays ==
  ASSUME TwinInv, UNCHANGED twin
  PROVE  TwinInv'
<1>1. ASSUME NEW q \in DOMAIN twin', q # <<0, 1>>
      PROVE  /\ Prior(q) \in DOMAIN twin'
             /\ \A d \in Data : twin'[q][d] = Follow(q, twin'[Prior(q)])[d]
  BY <1>1 DEF TwinInv
<1>2. <<0, 1>> \in DOMAIN twin' /\ twin'[<<0, 1>>] = Initial
  BY DEF TwinInv
<1> QED
  BY <1>1, <1>2 DEF TwinInv, Prior, Follow, After, Initial

\* What Reach does to it.
LEMMA TwinReach ==
  ASSUME TwinInv, NEW p, NEW c, Reach(p, c), p # <<0, 1>>,
         Prior(p) \in DOMAIN twin,
         \A d \in Data : c[d] = Follow(p, twin[Prior(p)])[d]
  PROVE  /\ TwinInv'
         /\ p \in DOMAIN twin'
         /\ \A d \in Data : twin'[p][d] = Follow(p, twin[Prior(p)])[d]
<1>1. CASE p \in DOMAIN twin
  <2>1. twin' = twin
    BY <1>1 DEF Reach
  <2>2. TwinInv'
    BY <2>1, TwinStays
  <2> QED
    BY <1>1, <2>1, <2>2 DEF TwinInv
<1>2. CASE p \notin DOMAIN twin
  <2>1. /\ DOMAIN twin' = DOMAIN twin \cup {p}
        /\ twin'[p] = c
        /\ \A q \in DOMAIN twin : twin'[q] = twin[q]
    BY <1>2 DEF Reach, Extend
  <2>2. ASSUME NEW q \in DOMAIN twin', q # <<0, 1>>
        PROVE  /\ Prior(q) \in DOMAIN twin'
               /\ \A d \in Data : twin'[q][d] = Follow(q, twin'[Prior(q)])[d]
    <3>1. CASE q = p
      BY <2>1, <3>1
    <3>2. CASE q \in DOMAIN twin
      BY <2>1, <2>2, <3>2 DEF TwinInv
    <3> QED
      BY <2>1, <3>1, <3>2
  <2>3. <<0, 1>> \in DOMAIN twin' /\ twin'[<<0, 1>>] = Initial
    BY <2>1 DEF TwinInv
  <2>4. TwinInv'
    BY <2>2, <2>3 DEF TwinInv, Prior, Follow, After, Initial
  <2> QED
    BY <2>1, <2>4
<1> QED
  BY <1>1, <1>2

\* No step changes what the twin had at a point.
LEMMA TwinKeeps ==
  ASSUME [Next]_vars
  PROVE  \A p \in DOMAIN twin : p \in DOMAIN twin' /\ twin'[p] = twin[p]
<1>1. ASSUME NEW q, NEW c, Reach(q, c)
      PROVE  \A p \in DOMAIN twin : p \in DOMAIN twin' /\ twin'[p] = twin[p]
  <2>1. CASE q \in DOMAIN twin
    BY <1>1, <2>1 DEF Reach
  <2>2. CASE q \notin DOMAIN twin
    BY <1>1, <2>2 DEF Reach, Extend
  <2> QED
    BY <2>1, <2>2
<1>2. CASE RunSystem
  BY <1>1, <1>2 DEF RunSystem
<1>3. CASE Output
  BY <1>1, <1>3 DEF Output
<1>4. CASE EndTurn
  BY <1>1, <1>4 DEF EndTurn
<1>5. CASE UNCHANGED twin
  BY <1>5
<1> QED
  BY <1>2, <1>3, <1>4, <1>5 DEF Next, Step, Finished, Load, WriteSnapshot, Crash,
                                Rerun, vars

\* What is known changes by what each system writes.
LEMMA KnownChanges ==
  /\ \A i \in 1..Len(Order) : i # Exporter =>
       \A d \in Known(i + 1) : d \in Known(i) \/ d \in Data \cap Writes(Order[i])
  /\ Known(Exporter + 1) = Restored
  /\ Known(1) = Known(Len(Order) + 1)
  /\ \A i : Known(i) \subseteq Data /\ Restored \subseteq Known(i)
<1>1. ASSUME NEW i \in 1..Len(Order), i # Exporter
      PROVE  \A j \in Since(i + 1) : j \in Since(i) \/ j = i
  BY <1>1, OneExporter, Intervals DEF Since
<1>2. \A i \in 1..Len(Order) : i # Exporter =>
        \A d \in Known(i + 1) : d \in Known(i) \/ d \in Data \cap Writes(Order[i])
  BY <1>1 DEF Known, Restored
<1>3. Since(Exporter + 1) = {}
  BY OneExporter, Intervals DEF Since
<1>4. Since(1) = Since(Len(Order) + 1)
  BY OneExporter, Intervals DEF Since
<1> QED
  BY <1>2, <1>3, <1>4 DEF Known, Restored

-----------------------------------------------------------------------------
(* A restarted job is one that never stopped *)

\* What is in memory, in the snapshot and in the files is what the twin has at
\* that point, as far as it was restored or has been written since.
MemoryData ==
  /\ pc # "down" =>
       /\ time = step
       /\ <<step, sys>> \in DOMAIN twin
       /\ \A d \in Known(sys) : data[d] = twin[<<step, sys>>][d]
  /\ pc = "snapshot" => <<step, Exporter + 1>> \in DOMAIN twin
SnapshotData ==
  snapshot.kind = "whole" =>
    /\ snapshot.time = snapshot.step
    /\ <<snapshot.step, Exporter + 1>> \in DOMAIN twin
    /\ \A d \in Restored :
         snapshot.data[d] = twin[<<snapshot.step, Exporter + 1>>][d]
FieldData ==
  \A k \in DOMAIN fld :
    /\ <<k * FldInterval, Exporter>> \in DOMAIN twin
    /\ fld[k].data = [d \in Data \cap FieldFile |->
                        twin[<<k * FldInterval, Exporter>>][d]]
ParticleData ==
  \A k \in DOMAIN ptc :
    /\ <<k * PtcInterval, Exporter>> \in DOMAIN twin
    /\ ptc[k] = [step |-> k * PtcInterval,
                 data |-> [d \in Data \cap ParticleFile |->
                             twin[<<k * PtcInterval, Exporter>>][d]]]
DataInv ==
  CountInv /\ TwinInv /\ MemoryData /\ SnapshotData /\ FieldData /\ ParticleData

\* A new job has the initial condition.
LEMMA DataInit == Init => DataInv
<1> SUFFICES ASSUME Init PROVE DataInv
  OBVIOUS
<1>1. CountInv
  BY CountInit
<1>2. /\ pc = "turn" /\ sys = 1 /\ time = 0 /\ step = 0 /\ data = Initial
      /\ snapshot.kind = "none" /\ DOMAIN fld = {} /\ DOMAIN ptc = {}
      /\ DOMAIN twin = {<<0, 1>>} /\ twin[<<0, 1>>] = Initial
  BY DEF Init, NoFile, NoFiles
<1>3. TwinInv
  BY <1>2 DEF TwinInv
<1>4. MemoryData
  BY <1>2 DEF MemoryData
<1> QED
  BY <1>1, <1>2, <1>3, <1>4 DEF DataInv, SnapshotData, FieldData, ParticleData

\* The snapshot and the files stay right while nothing is written to them.
LEMMA DiskKeeps ==
  ASSUME DataInv, [Next]_vars
  PROVE  /\ UNCHANGED snapshot => SnapshotData'
         /\ UNCHANGED fld => FieldData'
         /\ UNCHANGED ptc => ParticleData'
<1>1. \A p \in DOMAIN twin : p \in DOMAIN twin' /\ twin'[p] = twin[p]
  BY TwinKeeps
<1>2. UNCHANGED snapshot => SnapshotData'
  BY <1>1 DEF DataInv, SnapshotData
<1>3. UNCHANGED fld => FieldData'
  BY <1>1 DEF DataInv, FieldData
<1>4. UNCHANGED ptc => ParticleData'
  BY <1>1 DEF DataInv, ParticleData
<1> QED
  BY <1>2, <1>3, <1>4

\* So does each file that is not written.
LEMMA FilesKeep ==
  ASSUME DataInv, [Next]_vars
  PROVE  /\ \A k \in DOMAIN fld :
              /\ <<k * FldInterval, Exporter>> \in DOMAIN twin'
              /\ fld[k].data = [d \in Data \cap FieldFile |->
                                  twin'[<<k * FldInterval, Exporter>>][d]]
         /\ \A k \in DOMAIN ptc :
              /\ <<k * PtcInterval, Exporter>> \in DOMAIN twin'
              /\ ptc[k] = [step |-> k * PtcInterval,
                           data |-> [d \in Data \cap ParticleFile |->
                                       twin'[<<k * PtcInterval, Exporter>>][d]]]
<1>1. \A p \in DOMAIN twin : p \in DOMAIN twin' /\ twin'[p] = twin[p]
  BY TwinKeeps
<1>2. FieldData /\ ParticleData
  BY DEF DataInv
<1> QED
  BY <1>1, <1>2 DEF FieldData, ParticleData

\* update() of a system leaves what it leaves in the twin.
LEMMA RunData ==
  ASSUME CarriesNothing, DataInv, CountInv', RunSystem
  PROVE  DataInv'
<1>0. TypeOK /\ step \in Nat /\ sys \in Nat /\ 1 <= sys
  BY AtExporter DEF DataInv, CountInv, TypeOK
<1>1. /\ pc = "turn" /\ sys \in 1..Len(Order) /\ sys # Exporter /\ sys' = sys + 1
      /\ data' = After(sys, step, time, data)
      /\ UNCHANGED <<pc, step, time, fld, ptc, snapshot>>
  BY <1>0, AtExporter, OneExporter DEF RunSystem, disk
<1>2. /\ time = step /\ <<step, sys>> \in DOMAIN twin
      /\ \A d \in Known(sys) : data[d] = twin[<<step, sys>>][d]
  BY <1>1 DEF DataInv, MemoryData
<1> DEFINE p == <<step, sys + 1>>
           c == After(sys, step, step, twin[<<step, sys>>])
<1>3. Prior(p) = <<step, sys>> /\ Follow(p, twin[<<step, sys>>]) = c /\ p # <<0, 1>>
  BY <1>0, PointBefore
<1>4. Reach(p, c)
  BY DEF RunSystem
<1>5. /\ TwinInv' /\ p \in DOMAIN twin'
      /\ \A d \in Data : twin'[p][d] = c[d]
  <2> HIDE DEF p, c
  <2> QED
    BY <1>2, <1>3, <1>4, TwinReach DEF DataInv
<1>6. \A d \in Known(sys + 1) : data'[d] = twin'[p][d]
  <2>1. [r \in Reads(Order[sys]) \cap Data |-> data[r]]
          = [r \in Reads(Order[sys]) \cap Data |-> twin[<<step, sys>>][r]]
    BY <1>1, <1>2 DEF CarriesNothing
  <2> SUFFICES ASSUME NEW d \in Known(sys + 1) PROVE data'[d] = twin'[p][d]
    OBVIOUS
  <2>2. d \in Data /\ twin'[p][d] = c[d]
    BY <1>5, KnownChanges
  <2>3. CASE d \in Writes(Order[sys])
    <3>1. data'[d] = Update(Order[sys], d, step, time,
                            [r \in Reads(Order[sys]) \cap Data |-> data[r]])
      BY <1>1, <2>2, <2>3 DEF After
    <3>2. c[d] = Update(Order[sys], d, step, step,
                   [r \in Reads(Order[sys]) \cap Data |-> twin[<<step, sys>>][r]])
      BY <2>2, <2>3 DEF After
    <3> QED
      BY <1>2, <2>1, <2>2, <3>1, <3>2
  <2>4. CASE d \notin Writes(Order[sys])
    <3>1. d \in Known(sys)
      BY <1>1, <2>4, KnownChanges
    <3>2. data'[d] = data[d] /\ c[d] = twin[<<step, sys>>][d]
      BY <1>1, <2>2, <2>4 DEF After
    <3> QED
      BY <1>2, <2>2, <3>1, <3>2
  <2> QED
    BY <2>3, <2>4
<1>7. [Next]_vars
  BY DEF Next, Step
<1>8. MemoryData'
  BY <1>1, <1>2, <1>5, <1>6 DEF MemoryData
<1>9. SnapshotData' /\ FieldData' /\ ParticleData'
  BY <1>1, <1>7, DiskKeeps
<1> QED
  BY <1>5, <1>8, <1>9 DEF DataInv

\* The exporter writes what the twin has.
LEMMA OutputData ==
  ASSUME CarriesNothing, DataInv, CountInv', Output
  PROVE  DataInv'
<1>0. CountInv /\ TypeOK /\ step \in Nat
  BY DEF DataInv, CountInv, TypeOK
<1>1. /\ pc = "turn" /\ sys = Exporter /\ UNCHANGED <<step, time, data>>
      /\ \/ pc' = "snapshot" /\ snapshot' = Partial /\ sys' = sys
         \/ pc' = "turn" /\ UNCHANGED snapshot /\ sys' = sys + 1
  BY <1>0, AtExporter DEF Output
<1>2. /\ time = step /\ <<step, Exporter>> \in DOMAIN twin
      /\ \A d \in Known(Exporter) : data[d] = twin[<<step, Exporter>>][d]
  BY <1>1 DEF DataInv, MemoryData
<1> DEFINE p == <<step, Exporter + 1>>
           c == twin[<<step, Exporter>>]
<1>3. /\ Prior(p) = <<step, Exporter>> /\ p # <<0, 1>>
      /\ \A d \in Data : c[d] = Follow(p, c)[d]
  BY <1>0, ExporterBefore
<1>4. Reach(p, c)
  BY <1>1 DEF Output
<1>5. /\ TwinInv' /\ p \in DOMAIN twin'
      /\ \A d \in Data : twin'[p][d] = c[d]
  <2> HIDE DEF p, c
  <2> QED
    BY <1>2, <1>3, <1>4, TwinReach DEF DataInv, c
<1>6. [Next]_vars
  BY DEF Next, Step
<1>7. <<step, Exporter>> \in DOMAIN twin' /\ twin'[<<step, Exporter>>] = c
  BY <1>2, <1>6, TwinKeeps
<1>8. \A d \in Known(sys') : data'[d] = twin'[<<step, sys'>>][d]
  <2>1. CASE sys' = Exporter
    BY <1>1, <1>2, <1>7, <2>1
  <2>2. CASE sys' = Exporter + 1
    BY <1>1, <1>2, <1>5, <2>2, KnownChanges
  <2> QED
    BY <1>1, <2>1, <2>2
<1>9. <<step, sys'>> \in DOMAIN twin'
  BY <1>1, <1>5, <1>7
<1>10. \A d \in Data \cap (FieldFile \cup ParticleFile) : data[d] = c[d]
  <2>1. Reads(Order[Exporter]) = FieldFile \cup ParticleFile \cup Saved
    BY OneExporter DEF Reads
  <2> QED
    BY <1>2, <2>1, OneExporter DEF CarriesNothing
<1>11. /\ FieldPart = [d \in Data \cap FieldFile |-> twin'[<<step, Exporter>>][d]]
       /\ ParticlePart = [d \in Data \cap ParticleFile |-> twin'[<<step, Exporter>>][d]]
  BY <1>7, <1>10 DEF FieldPart, ParticlePart
<1>12. ASSUME NEW k \in DOMAIN fld'
       PROVE  /\ <<k * FldInterval, Exporter>> \in DOMAIN twin'
              /\ fld'[k].data = [d \in Data \cap FieldFile |->
                                   twin'[<<k * FldInterval, Exporter>>][d]]
  <2>1. \/ k \in DOMAIN fld /\ fld'[k] = fld[k]
        \/ step = k * FldInterval /\ fld'[k].data = FieldPart
    BY <1>0, FieldOutput
  <2> QED
    BY <1>6, <1>7, <1>11, <2>1, FilesKeep
<1>13. ASSUME NEW k \in DOMAIN ptc'
       PROVE  /\ <<k * PtcInterval, Exporter>> \in DOMAIN twin'
              /\ ptc'[k] = [step |-> k * PtcInterval,
                            data |-> [d \in Data \cap ParticleFile |->
                                        twin'[<<k * PtcInterval, Exporter>>][d]]]
  <2>1. \/ k \in DOMAIN ptc /\ ptc'[k] = ptc[k]
        \/ step = k * PtcInterval /\ ptc'[k] = [step |-> step, data |-> ParticlePart]
    BY <1>0, ParticleOutput
  <2> QED
    BY <1>6, <1>7, <1>11, <2>1, FilesKeep
<1>14. SnapshotData'
  <2>1. CASE snapshot' = Partial
    BY <2>1 DEF SnapshotData, Partial
  <2>2. CASE UNCHANGED snapshot
    BY <1>6, <2>2, DiskKeeps
  <2> QED
    BY <1>1, <2>1, <2>2
<1>15. MemoryData'
  BY <1>1, <1>2, <1>5, <1>8, <1>9 DEF MemoryData
<1>16. FieldData' /\ ParticleData'
  BY <1>12, <1>13 DEF FieldData, ParticleData
<1> QED
  BY <1>5, <1>14, <1>15, <1>16 DEF DataInv

\* So does a snapshot.
LEMMA WriteData ==
  ASSUME DataInv, CountInv', WriteSnapshot
  PROVE  DataInv'
<1>0. step \in Nat
  BY DEF DataInv, CountInv, TypeOK
<1>1. /\ pc = "snapshot" /\ sys = Exporter /\ pc' = "turn" /\ sys' = sys + 1
      /\ snapshot'.time = time /\ snapshot'.step = step
      /\ snapshot'.data = [d \in Data \cap Saved |-> data[d]]
      /\ UNCHANGED <<step, time, data, fld, ptc, twin>>
  BY DEF WriteSnapshot, DataInv, CountInv
<1>2. /\ time = step /\ <<step, Exporter + 1>> \in DOMAIN twin
      /\ \A d \in Known(Exporter) : data[d] = twin[<<step, Exporter>>][d]
  BY <1>1 DEF DataInv, MemoryData
<1>3. \A d \in Data : twin[<<step, Exporter + 1>>][d] = twin[<<step, Exporter>>][d]
  <2> DEFINE p == <<step, Exporter + 1>>
  <2>1. /\ Prior(p) = <<step, Exporter>> /\ p # <<0, 1>>
        /\ \A d \in Data : Follow(p, twin[<<step, Exporter>>])[d]
                            = twin[<<step, Exporter>>][d]
    BY <1>0, ExporterBefore
  <2> HIDE DEF p
  <2>2. \A d \in Data : twin[p][d] = Follow(p, twin[Prior(p)])[d]
    BY <1>2, <2>1 DEF DataInv, TwinInv, p
  <2> QED
    BY <2>1, <2>2 DEF p
<1>4. \A d \in Restored : d \in Data \cap Saved /\ d \in Known(Exporter)
  BY KnownChanges DEF Restored
<1>5. \A d \in Restored : data[d] = twin[<<step, Exporter + 1>>][d]
  BY <1>2, <1>3, <1>4
<1>6. \A d \in Restored : snapshot'.data[d] = data[d]
  BY <1>1, <1>4
<1>7. TwinInv'
  BY <1>1, TwinStays DEF DataInv
<1>8. \A d \in Known(sys') : data'[d] = twin'[<<step', sys'>>][d]
  BY <1>1, <1>5, KnownChanges
<1>9. [Next]_vars
  BY DEF Next, Step
<1>10. SnapshotData'
  BY <1>1, <1>2, <1>5, <1>6 DEF SnapshotData
<1>11. MemoryData'
  BY <1>1, <1>2, <1>8 DEF MemoryData
<1>12. FieldData' /\ ParticleData'
  BY <1>1, <1>9, DiskKeeps
<1> QED
  BY <1>7, <1>10, <1>11, <1>12 DEF DataInv

\* Every step keeps what is known equal to the twin.
LEMMA DataNext ==
  ASSUME CarriesNothing
  PROVE  DataInv /\ [Next]_vars => DataInv'
<1> SUFFICES ASSUME DataInv, [Next]_vars PROVE DataInv'
  OBVIOUS
<1>0. /\ CountInv /\ CountInv' /\ TypeOK /\ step \in Nat /\ sys \in Nat
      /\ 1 <= sys /\ sys <= Len(Order) + 1
  BY CountNext, AtExporter DEF DataInv, CountInv, TypeOK
<1>same. ASSUME UNCHANGED twin PROVE TwinInv'
  BY <1>same, TwinStays DEF DataInv
<1>1. CASE RunSystem
  BY <1>0, <1>1, RunData
<1>2. CASE Load
  <2>1. /\ pc = "turn" /\ sys = Exporter /\ sys' = sys + 1 /\ pc' = pc
        /\ step' = snapshot.step /\ time' = snapshot.time
        /\ data' = [d \in Data |-> IF d \in Restored THEN snapshot.data[d] ELSE data[d]]
        /\ snapshot.kind = "whole" /\ UNCHANGED <<fld, ptc, snapshot, twin>>
    BY <1>0, <1>2, AtExporter DEF Load, LoadClock, disk
  <2>2. \A d \in Restored : data'[d] = twin[<<snapshot.step, Exporter + 1>>][d]
    BY <2>1 DEF DataInv, SnapshotData, Restored
  <2>3. \A d \in Known(sys') : data'[d] = twin'[<<step', sys'>>][d]
    BY <2>1, <2>2, KnownChanges
  <2>4. time' = step' /\ <<step', sys'>> \in DOMAIN twin'
    BY <2>1 DEF DataInv, SnapshotData
  <2>5. MemoryData'
    BY <2>1, <2>3, <2>4 DEF MemoryData
  <2> QED
    BY <1>0, <1>same, <2>1, <2>5, DiskKeeps DEF DataInv
<1>3. CASE Output
  BY <1>0, <1>3, OutputData
<1>4. CASE WriteSnapshot
  BY <1>0, <1>4, WriteData
<1>5. CASE EndTurn
  <2>1. /\ pc = "turn" /\ sys = Len(Order) + 1 /\ sys' = 1
        /\ pc' \in {"turn", "done"}
        /\ time' = time + 1 /\ step' = step + 1
        /\ UNCHANGED <<data, fld, ptc, snapshot>>
        /\ Reach(<<step + 1, 1>>, twin[<<step, sys>>])
    BY <1>0, <1>5, Intervals DEF EndTurn, disk
  <2>2. /\ time = step /\ <<step, sys>> \in DOMAIN twin
        /\ \A d \in Known(sys) : data[d] = twin[<<step, sys>>][d]
    BY <2>1 DEF DataInv, MemoryData
  <2> DEFINE p == <<step + 1, 1>>
             c == twin[<<step, sys>>]
  <2>3. Prior(p) = <<step, sys>> /\ Follow(p, c) = c /\ p # <<0, 1>>
    BY <1>0, <2>1, TurnBefore
  <2>4. /\ TwinInv' /\ p \in DOMAIN twin'
        /\ \A d \in Data : twin'[p][d] = c[d]
    <3>1. Reach(p, c)
      BY <2>1
    <3> HIDE DEF p, c
    <3> QED
      BY <2>2, <2>3, <3>1, TwinReach DEF DataInv, c
  <2>5. \A d \in Known(sys') : data'[d] = twin'[<<step', sys'>>][d]
    BY <2>1, <2>2, <2>4, KnownChanges
  <2>6. time' = step' /\ <<step', sys'>> \in DOMAIN twin'
    BY <2>1, <2>2, <2>4
  <2>7. MemoryData'
    BY <2>1, <2>5, <2>6 DEF MemoryData
  <2> QED
    BY <1>0, <2>1, <2>4, <2>7, DiskKeeps DEF DataInv
<1>6. CASE Crash
  <2>1. pc' = "down" /\ UNCHANGED <<fld, ptc, snapshot, twin>>
    BY <1>6 DEF Crash, disk
  <2> QED
    BY <1>0, <1>same, <2>1, DiskKeeps DEF DataInv, MemoryData
<1>7. CASE Rerun
  <2>1. /\ pc' = "turn" /\ sys' = 1 /\ step' = 0 /\ time' = 0 /\ data' = Initial
        /\ UNCHANGED <<fld, ptc, snapshot, twin>>
    BY <1>7 DEF Rerun, Fresh, disk
  <2>2. <<0, 1>> \in DOMAIN twin /\ twin[<<0, 1>>] = Initial
    BY DEF DataInv, TwinInv
  <2>3. MemoryData'
    BY <2>1, <2>2 DEF MemoryData
  <2> QED
    BY <1>0, <1>same, <2>1, <2>3, DiskKeeps DEF DataInv
<1>8. CASE UNCHANGED vars
  <2>1. UNCHANGED <<pc, sys, step, time, data, fld, ptc, snapshot, twin>>
    BY <1>8 DEF vars, mem, disk
  <2>2. MemoryData'
    BY <2>1 DEF DataInv, MemoryData
  <2> QED
    BY <1>0, <1>same, <2>1, <2>2, DiskKeeps DEF DataInv
<1> QED
  BY <1>1, <1>2, <1>3, <1>4, <1>5, <1>6, <1>7, <1>8 DEF Next, Step, Finished

\* If no system reads a component that was neither restored nor written since
\* the restart, then in a job restarted from its snapshot, after any crash and
\* any number of times, every system finds all that it reads as in a job that
\* never stopped (load_snapshot, set_step, set_time; J is not in the snapshot,
\* so the condition excludes a solver that runs before the pusher).
THEOREM RestartResumes ==
  ASSUME CarriesNothing
  PROVE  Spec => []Resumes
<1>1. DataInv => Resumes
  <2> SUFFICES ASSUME DataInv, pc = "turn", sys <= Len(Order)
               PROVE  /\ time = step
                      /\ <<step, sys>> \in DOMAIN twin
                      /\ \A d \in Reads(Order[sys]) \cap Data :
                           data[d] = twin[<<step, sys>>][d]
    BY DEF Resumes
  <2>1. sys \in 1..Len(Order)
    BY AtExporter DEF DataInv, CountInv
  <2> QED
    BY <2>1 DEF DataInv, MemoryData, CarriesNothing
<1> QED
  BY <1>1, DataInit, DataNext, PTL DEF Spec

\* On the same condition an output file that is written again, for a step
\* between the snapshot and the crash, gets the fields, the J and the tracked
\* particles that it had.
THEOREM FilesRewrittenAlike ==
  ASSUME CarriesNothing
  PROVE  Spec => RewritesAgree
<1> DEFINE Same ==
      /\ \A k \in DOMAIN fld : fld'[k].step = fld[k].step /\ fld'[k].data = fld[k].data
      /\ \A k \in DOMAIN ptc : ptc'[k] = ptc[k]
<1>1. ASSUME DataInv, DataInv', [Next]_vars PROVE [Same]_vars
  <2>1. CountInv /\ FieldSeries /\ FieldSeries'
    BY <1>1 DEF DataInv, CountInv
  <2>2. /\ \A k \in DOMAIN fld : k \in DOMAIN fld'
        /\ \A k \in DOMAIN ptc : k \in DOMAIN ptc'
    <3>1. CASE Output
      BY <2>1, <3>1, FieldOutput, ParticleOutput
    <3>2. CASE UNCHANGED <<fld, ptc>>
      BY <3>2
    <3> QED
      BY <1>1, <3>1, <3>2 DEF Next, Step, Finished, RunSystem, Load, WriteSnapshot,
                              EndTurn, Crash, Rerun, disk, vars
  <2>3. ASSUME NEW k \in DOMAIN fld
        PROVE  fld'[k].step = fld[k].step /\ fld'[k].data = fld[k].data
    <3>1. k \in DOMAIN fld'
      BY <2>2
    <3>2. fld'[k].step = k * FldInterval /\ fld[k].step = k * FldInterval
      BY <2>1, <3>1 DEF FieldSeries
    <3>3. fld'[k].data = [d \in Data \cap FieldFile |->
                            twin'[<<k * FldInterval, Exporter>>][d]]
      BY <1>1, <3>1 DEF DataInv, FieldData
    <3>4. fld[k].data = [d \in Data \cap FieldFile |->
                           twin'[<<k * FldInterval, Exporter>>][d]]
      BY <1>1, FilesKeep
    <3> QED
      BY <3>2, <3>3, <3>4
  <2>4. ASSUME NEW k \in DOMAIN ptc PROVE ptc'[k] = ptc[k]
    <3>1. k \in DOMAIN ptc'
      BY <2>2
    <3>2. ptc'[k] = [step |-> k * PtcInterval,
                     data |-> [d \in Data \cap ParticleFile |->
                                 twin'[<<k * PtcInterval, Exporter>>][d]]]
      BY <1>1, <3>1 DEF DataInv, ParticleData
    <3>3. ptc[k] = [step |-> k * PtcInterval,
                    data |-> [d \in Data \cap ParticleFile |->
                                twin'[<<k * PtcInterval, Exporter>>][d]]]
      BY <1>1, FilesKeep
    <3> QED
      BY <3>2, <3>3
  <2> QED
    BY <2>3, <2>4
<1> QED
  BY <1>1, DataInit, DataNext, PTL DEF Spec, RewritesAgree
=============================================================================
