---------------------- MODULE ParticleExchange_proofs ----------------------
(***************************************************************************)
(* Proofs about the particle exchange, for any number of ranks in one to   *)
(* three dimensions, any topology, capacity and number of time steps:      *)
(* conservation; and, where every receive appends, that each particle      *)
(* comes to the rank that owns its position, which implements Migration.   *)
(***************************************************************************)
EXTENDS ParticleExchange, CartesianDomain_proofs, FiniteSetTheorems, TLAPS

-----------------------------------------------------------------------------
(* Types and capacities *)

TypeInv == TypeOK /\ StepsLeft /\ Fits

\* The particles of one place can be counted.
LEMMA Countable ==
  ASSUME NEW S \in SUBSET Ptc
  PROVE  /\ IsFiniteSet(S)
         /\ Cardinality(S) \in Nat
         /\ \A T \in SUBSET S : /\ Cardinality(T) \in Nat
                                /\ Cardinality(T) <= Cardinality(S)
         /\ \A T \in SUBSET Ptc :
              Cardinality(S \cup T) <= Cardinality(S) + Cardinality(T)
<1>1. \A T \in SUBSET Ptc : IsFiniteSet(T) /\ Cardinality(T) \in Nat
  BY PtcAssumption, FS_Subset, FS_CardinalityType
<1>2. \A T \in SUBSET S : Cardinality(T) <= Cardinality(S)
  BY <1>1, FS_Subset
<1>3. ASSUME NEW T \in SUBSET Ptc
      PROVE  Cardinality(S \cup T) <= Cardinality(S) + Cardinality(T)
  <2>1. S \cap T \in SUBSET Ptc
    OBVIOUS
  <2>2. /\ Cardinality(S) \in Nat
        /\ Cardinality(T) \in Nat
        /\ Cardinality(S \cap T) \in Nat
    BY <1>1, <2>1
  <2>3. Cardinality(S \cup T) =
          Cardinality(S) + Cardinality(T) - Cardinality(S \cap T)
    BY <1>1, FS_Union
  <2> QED
    BY <2>2, <2>3
<1> QED
  BY <1>1, <1>2, <1>3

\* The end of a phase.
LEMMA NextPhaseFacts ==
  ASSUME NEW r \in Rank,
         stage \in [Rank -> Stages], phase \in [Rank -> Phases],
         NextPhase(r)
  PROVE  /\ stage' = [stage EXCEPT ![r] =
                        IF phase[r] = 2 * Dim THEN "unpack" ELSE "send"]
         /\ phase' = [phase EXCEPT ![r] =
                        IF phase[r] = 2 * Dim THEN @ ELSE @ + 1]
         /\ stage' \in [Rank -> Stages]
         /\ phase' \in [Rank -> Phases]
<1>1. /\ phase[r] \in 1..(2 * Dim)
      /\ phase[r] # 2 * Dim => phase[r] + 1 \in 1..(2 * Dim)
      /\ 1 \in 1..(2 * Dim)
  BY DimAssumption DEF Phases
<1>2. CASE phase[r] = 2 * Dim
  BY <1>2 DEF NextPhase, LastPhase, Goto, Stages, Phases
<1>3. CASE phase[r] # 2 * Dim
  BY <1>1, <1>3 DEF NextPhase, LastPhase, Goto, Stages, Phases
<1> QED
  BY <1>2, <1>3

\* Positions and cells stay vectors of integers.
LEMMA VectorTypes ==
  /\ \A u, v \in [Axis -> Int] : Add(u, v) \in [Axis -> Int]
  /\ \A u \in [Axis -> Int] : Wrap(u) \in [Axis -> Int]
  /\ \A u \in [Axis -> Int], z \in Zone : Shift(u, z) \in [Axis -> Int]
  /\ \A u \in [Axis -> Int] : ZoneOf(u) \in Zone
  /\ \A r \in Rank, u \in [Axis -> Int] : LocalCell(r, u) \in [Axis -> Int]
  /\ \A x \in Domain : x \in [Axis -> Int]
  /\ Reach \subseteq [Axis -> Int]
  /\ Centre \in Zone
<1>1. N \in Int /\ G \in Int /\ \A d \in Axis : Dims[d] \in Int
  BY CellAssumption, DimsAssumption
<1>2. \A u, v \in [Axis -> Int] : Add(u, v) \in [Axis -> Int]
  BY DEF Add
<1>3. \A u \in [Axis -> Int] : Wrap(u) \in [Axis -> Int]
  <2>1. \A d \in Axis : Dims[d] * N \in Int
    BY <1>1
  <2> QED
    BY <2>1 DEF Wrap
<1>4. \A u \in [Axis -> Int], z \in Zone : Shift(u, z) \in [Axis -> Int]
  <2>1. \A z \in Zone : \A d \in Axis : z[d] * N \in Int
    BY <1>1 DEF Zone
  <2> QED
    BY <2>1 DEF Shift
<1>5. \A u \in [Axis -> Int] : ZoneOf(u) \in Zone
  BY DEF ZoneOf, Zone
<1>6. \A r \in Rank, u \in [Axis -> Int] : LocalCell(r, u) \in [Axis -> Int]
  <2>1. \A r \in Rank : \A d \in Axis : r[d] * N \in Int
    BY <1>1, RankCoord
  <2> QED
    BY <2>1, <1>1 DEF LocalCell
<1>7. \A x \in Domain : x \in [Axis -> Int]
  BY DEF Domain
<1>8. Reach \subseteq [Axis -> Int]
  BY ReachAssumption, <1>1
<1>9. Centre \in Zone
  BY DEF Centre, Zone
<1> QED
  BY <1>2, <1>3, <1>4, <1>5, <1>6, <1>7, <1>8, <1>9

LEMMA TypeInit == Init => TypeInv
<1> SUFFICES ASSUME Init PROVE TypeInv
  OBVIOUS
<1>1. /\ MaxPtc \in Nat /\ MaxStep \in Nat \ {0}
      /\ 1 \in Phases
  BY BoundAssumption, DimAssumption DEF Phases
<1>2. arr \in [Rank -> SUBSET Ptc]
  BY DEF Init
<1>3. /\ number \in [Rank -> 0..MaxPtc]
      /\ \A r \in Rank : number[r] = Cardinality(arr[r])
  BY <1>1, <1>2, Countable DEF Init
<1>4. pos \in [Ptc -> [Axis -> Int]]
  BY VectorTypes DEF Init
<1>5. cell \in [Ptc -> [Axis -> Int]]
  BY <1>4, OneOwner, VectorTypes DEF Init
<1>6. /\ stage \in [Rank -> Stages] /\ phase \in [Rank -> Phases]
      /\ step \in [Rank -> 0..MaxStep]
      /\ buf \in [Rank -> [Zone -> SUBSET Ptc]]
      /\ ghost \in [Rank -> Nat]
      /\ net \subseteq Message /\ dropped \subseteq Ptc /\ exited \subseteq Ptc
  BY <1>1 DEF Init, Stages
<1>7. StepsLeft
  BY <1>1 DEF Init, StepsLeft, At
<1>8. Fits
  BY <1>1, <1>2, <1>3, Countable DEF Fits
<1> QED
  BY <1>2, <1>3, <1>4, <1>5, <1>6, <1>7, <1>8 DEF TypeInv, TypeOK

\* What is sent and what stays behind are sets of particles per zone.
LEMMA LoadType ==
  ASSUME buf \in [Rank -> [Zone -> SUBSET Ptc]],
         NEW r \in Rank, NEW k \in Phases
  PROVE  /\ Emptied(r, k) \in [Zone -> SUBSET Ptc]
         /\ Load(r, k) \in [Zone -> SUBSET Ptc]
         /\ \A z \in Zone : Outward(k, z) \in Zone
<1>1. PhaseAxis(k) \in Axis /\ PhaseDir(k) \in {-1, 1}
  BY PhaseFacts DEF Phases
<1>2. \A z \in Zone : Outward(k, z) \in Zone
  BY <1>1 DEF Outward, Zone
<1>3. Emptied(r, k) \in [Zone -> SUBSET Ptc]
  BY DEF Emptied
<1>4. Load(r, k) \in [Zone -> SUBSET Ptc]
  BY <1>2 DEF Load
<1> QED
  BY <1>2, <1>3, <1>4

LEMMA TypeNext == TypeInv /\ [Next]_vars => TypeInv'
<1> SUFFICES ASSUME TypeInv, [Next]_vars PROVE TypeInv'
  OBVIOUS
<1> USE DEF TypeInv
<1>0. /\ MaxPtc \in Nat /\ MaxStep \in Nat \ {0}
      /\ 1 \in Phases
  BY BoundAssumption, DimAssumption DEF Phases
<1>1. ASSUME NEW r \in Rank, Drift(r) PROVE TypeInv'
  <2>1. PICK f \in [arr[r] -> Reach] :
          /\ cell' = [p \in Ptc |->
                        IF p \in arr[r] THEN Add(cell[p], f[p]) ELSE cell[p]]
          /\ pos' = [p \in Ptc |->
                       IF p \in arr[r] THEN Wrap(Add(pos[p], f[p])) ELSE pos[p]]
    BY <1>1 DEF Drift
  <2>2. cell' \in [Ptc -> [Axis -> Int]] /\ pos' \in [Ptc -> [Axis -> Int]]
    <3>1. ASSUME NEW p \in Ptc, p \in arr[r]
          PROVE  /\ Add(cell[p], f[p]) \in [Axis -> Int]
                 /\ Wrap(Add(pos[p], f[p])) \in [Axis -> Int]
      <4>1. /\ f[p] \in [Axis -> Int]
            /\ cell[p] \in [Axis -> Int] /\ pos[p] \in [Axis -> Int]
        BY <3>1, VectorTypes DEF TypeOK
      <4> QED
        BY <4>1, VectorTypes
    <3>2. /\ \A p \in Ptc : cell[p] \in [Axis -> Int]
          /\ \A p \in Ptc : pos[p] \in [Axis -> Int]
      BY DEF TypeOK
    <3> QED
      BY <2>1, <3>1, <3>2
  <2>3. stage' \in [Rank -> Stages] /\ StepsLeft' /\ Fits'
    BY <1>1 DEF Drift, TypeOK, At, Goto, Stages, StepsLeft, Fits
  <2> QED
    BY <1>1, <2>2, <2>3 DEF Drift, TypeOK
<1>2. ASSUME NEW r \in Rank, Pack(r) PROVE TypeInv'
  <2>1. cell' \in [Ptc -> [Axis -> Int]]
    BY <1>2, VectorTypes DEF Pack, TypeOK
  <2>2. buf' \in [Rank -> [Zone -> SUBSET Ptc]] /\ ghost' \in [Rank -> Nat]
    BY <1>2 DEF Pack, Packed, TypeOK
  <2>3. stage' \in [Rank -> Stages] /\ phase' \in [Rank -> Phases] /\ StepsLeft'
    BY <1>0, <1>2 DEF Pack, TypeOK, At, Goto, Stages, StepsLeft
  <2>4. arr' \in [Rank -> SUBSET Ptc]
        /\ \A q \in Rank : arr'[q] \subseteq arr[q]
    BY <1>2 DEF Pack, TypeOK
  <2>5. Fits'
    <3> SUFFICES ASSUME NEW q \in Rank
                 PROVE  Cardinality(arr'[q]) <= number'[q] /\ number'[q] <= MaxPtc
      BY DEF Fits
    <3>1. number' = number
      BY <1>2 DEF Pack
    <3>2. /\ Cardinality(arr'[q]) <= Cardinality(arr[q])
          /\ Cardinality(arr'[q]) \in Nat /\ Cardinality(arr[q]) \in Nat
      BY <2>4, Countable DEF TypeOK
    <3> QED
      BY <3>1, <3>2, <1>0 DEF Fits, TypeOK
  <2> QED
    BY <1>2, <2>1, <2>2, <2>3, <2>4, <2>5 DEF Pack, TypeOK
<1>3. ASSUME NEW r \in Rank, LocalCopy(r) PROVE TypeInv'
  <2>1. Emptied(r, phase[r]) \in [Zone -> SUBSET Ptc]
        /\ Load(r, phase[r]) \in [Zone -> SUBSET Ptc]
    BY LoadType DEF TypeOK
  <2>2. buf' \in [Rank -> [Zone -> SUBSET Ptc]]
    BY <1>3, <2>1 DEF LocalCopy, Merge, TypeOK
  <2>3. /\ stage' \in [Rank -> Stages] /\ phase' \in [Rank -> Phases]
        /\ StepsLeft'
    BY <1>3, NextPhaseFacts DEF LocalCopy, TypeOK, At, StepsLeft
  <2> QED
    BY <1>3, <2>2, <2>3 DEF LocalCopy, TypeOK, Fits
<1>4. ASSUME NEW r \in Rank, Send(r) PROVE TypeInv'
  <2>1. Emptied(r, phase[r]) \in [Zone -> SUBSET Ptc]
        /\ Load(r, phase[r]) \in [Zone -> SUBSET Ptc]
    BY LoadType DEF TypeOK
  <2>2. buf' \in [Rank -> [Zone -> SUBSET Ptc]]
    BY <1>4, <2>1 DEF Send, TypeOK
  <2>3. stage' \in [Rank -> Stages] /\ StepsLeft'
    BY <1>4 DEF Send, TypeOK, At, Goto, Stages, StepsLeft
  <2>4. exited' \subseteq Ptc
    BY <1>4, <2>1 DEF Send, TypeOK
  <2>5. net' \subseteq Message
    <3>1. CASE Dest(r, phase[r]) = PROC_NULL
      BY <1>4, <3>1 DEF Send, TypeOK
    <3>2. CASE Dest(r, phase[r]) # PROC_NULL
      <4>1. phase[r] \in Phases /\ step[r] \in Nat
        BY DEF TypeOK
      <4>2. Dest(r, phase[r]) \in Rank
        BY <3>2, <4>1, SourceDest DEF Phases
      <4> QED
        BY <1>4, <2>1, <3>2, <4>1, <4>2 DEF Send, TypeOK, Message
    <3> QED
      BY <3>1, <3>2
  <2> QED
    BY <1>4, <2>2, <2>3, <2>4, <2>5 DEF Send, TypeOK, Fits
<1>5. ASSUME NEW r \in Rank, Recv(r) PROVE TypeInv'
  <2>1. PICK m \in Matching(r, phase[r]) :
          /\ net' = net \ {m}
          /\ IF AtOffset(phase[r])
             THEN buf' = [buf EXCEPT ![r] = Merge(buf[r], m.load)] /\ UNCHANGED ghost
             ELSE \E kept \in SUBSET buf[r][Centre] :
                    /\ Overwritten(buf[r][Centre], m.load[Centre], kept)
                    /\ buf' = [buf EXCEPT ![r][Centre] = kept \cup m.load[Centre]]
                    /\ ghost' = [ghost EXCEPT ![r] =
                                   @ + Cardinality(buf[r][Centre] \ kept)]
    BY <1>5 DEF Recv
  <2>2. m \in Message /\ m.load \in [Zone -> SUBSET Ptc]
    BY <2>1 DEF Matching, Oldest, TypeOK, Message
  <2>3. buf' \in [Rank -> [Zone -> SUBSET Ptc]] /\ ghost' \in [Rank -> Nat]
    <3>1. CASE AtOffset(phase[r])
      <4>1. buf[r] \in [Zone -> SUBSET Ptc]
        BY DEF TypeOK
      <4>2. Merge(buf[r], m.load) \in [Zone -> SUBSET Ptc]
        BY <4>1, <2>2 DEF Merge
      <4> QED
        BY <2>1, <3>1, <4>2 DEF TypeOK
    <3>2. CASE ~AtOffset(phase[r])
      <4>1. PICK kept \in SUBSET buf[r][Centre] :
              /\ buf' = [buf EXCEPT ![r][Centre] = kept \cup m.load[Centre]]
              /\ ghost' = [ghost EXCEPT ![r] =
                             @ + Cardinality(buf[r][Centre] \ kept)]
        BY <2>1, <3>2
      <4>2. buf[r][Centre] \in SUBSET Ptc /\ kept \cup m.load[Centre] \in SUBSET Ptc
        BY <2>2, VectorTypes DEF TypeOK
      <4>3. Cardinality(buf[r][Centre] \ kept) \in Nat
        BY <4>2, Countable
      <4>4. buf' = [buf EXCEPT ![r] =
                     [buf[r] EXCEPT ![Centre] = kept \cup m.load[Centre]]]
        BY <4>1
      <4>5. [buf[r] EXCEPT ![Centre] = kept \cup m.load[Centre]]
              \in [Zone -> SUBSET Ptc]
        BY <4>2 DEF TypeOK
      <4> QED
        BY <4>1, <4>3, <4>4, <4>5 DEF TypeOK
    <3> QED
      BY <3>1, <3>2
  <2>4. /\ stage' \in [Rank -> Stages] /\ phase' \in [Rank -> Phases]
        /\ StepsLeft'
    <3>1. stage[r] = "recv" /\ NextPhase(r) /\ UNCHANGED step
      BY <1>5 DEF Recv, At
    <3>2. stage' = [stage EXCEPT ![r] = IF phase[r] = 2 * Dim THEN "unpack" ELSE "send"]
      BY <3>1, NextPhaseFacts, Zenon DEF TypeOK
    <3>3. stage' \in [Rank -> Stages] /\ phase' \in [Rank -> Phases]
      BY <3>1, NextPhaseFacts, Zenon DEF TypeOK
    <3>4. \A q \in Rank : stage'[q] = "done" <=> stage[q] = "done"
      BY <3>1, <3>2 DEF TypeOK
    <3> QED
      BY <3>1, <3>3, <3>4 DEF At, StepsLeft
  <2>5. net' \subseteq Message
    BY <2>1 DEF TypeOK
  <2>6. UNCHANGED <<step, arr, number, cell, dropped, exited, pos>>
    BY <1>5 DEF Recv
  <2> QED
    BY <2>3, <2>4, <2>5, <2>6 DEF TypeOK, Fits
<1>6. ASSUME NEW r \in Rank, RecvNothing(r) PROVE TypeInv'
  <2>1. /\ stage' \in [Rank -> Stages] /\ phase' \in [Rank -> Phases]
        /\ StepsLeft'
    <3>1. stage[r] = "recv" /\ NextPhase(r) /\ UNCHANGED step
      BY <1>6 DEF RecvNothing, At
    <3>2. stage' = [stage EXCEPT ![r] = IF phase[r] = 2 * Dim THEN "unpack" ELSE "send"]
      BY <3>1, NextPhaseFacts, Zenon DEF TypeOK
    <3>3. stage' \in [Rank -> Stages] /\ phase' \in [Rank -> Phases]
      BY <3>1, NextPhaseFacts, Zenon DEF TypeOK
    <3>4. \A q \in Rank : stage'[q] = "done" <=> stage[q] = "done"
      BY <3>1, <3>2 DEF TypeOK
    <3> QED
      BY <3>1, <3>3, <3>4 DEF At, StepsLeft
  <2> QED
    BY <1>6, <2>1 DEF RecvNothing, TypeOK, Fits
<1>7. ASSUME NEW r \in Rank, Unpack(r) PROVE TypeInv'
  <2> DEFINE arrivals == buf[r][Centre]
  <2>1. arrivals \in SUBSET Ptc
    BY VectorTypes DEF TypeOK
  <2>2. PICK kept \in SUBSET arrivals :
          /\ Cardinality(kept) = Fitting(r, Cardinality(arrivals))
          /\ arr' = [arr EXCEPT ![r] = @ \cup kept]
          /\ dropped' = dropped \cup (arrivals \ kept)
    BY <1>7 DEF Unpack
  <2>3. kept \in SUBSET Ptc /\ arr' \in [Rank -> SUBSET Ptc] /\ dropped' \subseteq Ptc
    BY <2>1, <2>2 DEF TypeOK
  <2>4. buf' \in [Rank -> [Zone -> SUBSET Ptc]] /\ ghost' \in [Rank -> Nat]
    BY <1>7 DEF Unpack, TypeOK
  <2>5. stage' \in [Rank -> Stages] /\ StepsLeft'
    BY <1>7 DEF Unpack, TypeOK, At, Goto, Stages, StepsLeft
  <2>6. /\ number' = [number EXCEPT ![r] =
                        @ + Fitting(r, Cardinality(arrivals) + ghost[r])]
        /\ number[r] \in 0..MaxPtc /\ ghost[r] \in Nat
        /\ Cardinality(arrivals) \in Nat
    BY <1>7, <2>1, Countable DEF Unpack, TypeOK
  <2>7. /\ number[r] + Fitting(r, Cardinality(arrivals) + ghost[r]) \in 0..MaxPtc
        /\ Fitting(r, Cardinality(arrivals)) \in Nat
        /\ Fitting(r, Cardinality(arrivals))
             <= Fitting(r, Cardinality(arrivals) + ghost[r])
    BY <2>6, <1>0 DEF Fitting, Room
  <2>8. number' \in [Rank -> 0..MaxPtc]
    BY <2>6, <2>7 DEF TypeOK
  <2>9. Fits'
    <3> SUFFICES ASSUME NEW q \in Rank
                 PROVE  Cardinality(arr'[q]) <= number'[q] /\ number'[q] <= MaxPtc
      BY DEF Fits
    <3>1. CASE q = r
      <4>1. arr'[q] = arr[r] \cup kept /\ arr[r] \in SUBSET Ptc
        BY <3>1, <2>2 DEF TypeOK
      <4>2. Cardinality(arr[r] \cup kept) <= Cardinality(arr[r]) + Cardinality(kept)
        BY <4>1, <2>3, Countable
      <4>3. /\ Cardinality(arr[r]) \in Nat /\ Cardinality(arr[r] \cup kept) \in Nat
        BY <4>1, <2>3, Countable
      <4>4. number'[q] = number[r] + Fitting(r, Cardinality(arrivals) + ghost[r])
        BY <3>1, <2>6 DEF TypeOK
      <4>5. Cardinality(arr[r]) <= number[r]
        BY DEF Fits
      <4>6. Fitting(r, Cardinality(arrivals) + ghost[r]) \in Int
        BY <2>6, <1>0 DEF Fitting, Room
      <4> HIDE DEF arrivals
      <4> QED
        BY <4>1, <4>2, <4>3, <4>4, <4>5, <4>6, <2>2, <2>6, <2>7, <1>0
    <3>2. CASE q # r
      <4>1. arr'[q] = arr[q] /\ number'[q] = number[q]
        BY <3>2, <2>2, <2>6 DEF TypeOK
      <4> QED
        BY <4>1 DEF Fits
    <3> QED
      BY <3>1, <3>2
  <2> QED
    BY <1>7, <2>3, <2>4, <2>5, <2>8, <2>9 DEF Unpack, TypeOK
<1>8. ASSUME NEW r \in Rank, Tidy(r) PROVE TypeInv'
  <2> DEFINE live == {p \in arr[r] : InBound(cell[p])}
  <2>1. /\ arr[r] \in SUBSET Ptc /\ live \in SUBSET arr[r]
        /\ number[r] \in 0..MaxPtc /\ step[r] \in 0..MaxStep
    BY DEF TypeOK
  <2>2. /\ Cardinality(live) \in Nat /\ Cardinality(arr[r]) \in Nat
        /\ Cardinality(live) <= Cardinality(arr[r])
    BY <2>1, Countable
  <2>3. /\ Cardinality(live) <= number[r]
        /\ Cardinality(live) \in 0..MaxPtc
    BY <2>1, <2>2, <1>0 DEF Fits
  <2> HIDE DEF live
  <2>4. /\ arr' = [arr EXCEPT ![r] = live]
        /\ number' = [number EXCEPT ![r] = IF Sorts(step[r]) THEN Cardinality(live)
                                           ELSE @]
    BY <1>8 DEF Tidy, live
  <2>5. arr' \in [Rank -> SUBSET Ptc] /\ number' \in [Rank -> 0..MaxPtc]
    BY <2>1, <2>3, <2>4 DEF TypeOK
  <2>6. Fits'
    BY <2>2, <2>3, <2>4, <2>5, <1>0 DEF Fits, TypeOK
  <2>7. step[r] # MaxStep
    BY <1>8 DEF Tidy, StepsLeft, At
  <2> DEFINE s == IF step[r] + 1 = MaxStep THEN "done" ELSE "drift"
  <2>8. stage' = [stage EXCEPT ![r] = s] /\ step' = [step EXCEPT ![r] = @ + 1]
    BY <1>8 DEF Tidy, Goto
  <2>9. s \in Stages /\ (s = "done" <=> step[r] + 1 = MaxStep)
    BY DEF Stages
  <2> HIDE DEF s
  <2>10. step' \in [Rank -> 0..MaxStep] /\ stage' \in [Rank -> Stages]
    <3>1. step[r] + 1 \in 0..MaxStep
      BY <2>1, <2>7, <1>0
    <3>2. step' \in [Rank -> 0..MaxStep]
      BY <2>8, <3>1 DEF TypeOK
    <3>3. stage' \in [Rank -> Stages]
      BY <2>8, <2>9 DEF TypeOK
    <3> QED
      BY <3>2, <3>3
  <2>11. StepsLeft'
    <3>1. stage'[r] = s /\ step'[r] = step[r] + 1
      BY <2>8 DEF TypeOK
    <3>2. \A q \in Rank : q # r => stage'[q] = stage[q] /\ step'[q] = step[q]
      BY <2>8 DEF TypeOK
    <3> QED
      BY <2>9, <3>1, <3>2 DEF StepsLeft, At
  <2> QED
    BY <1>8, <2>5, <2>6, <2>10, <2>11 DEF Tidy, TypeOK
<1>9. CASE UNCHANGED vars
  <2>1. TypeOK'
    BY <1>9 DEF vars, TypeOK
  <2>2. StepsLeft' /\ Fits'
    BY <1>9 DEF vars, StepsLeft, Fits, At
  <2> QED
    BY <2>1, <2>2
<1> QED
  BY <1>1, <1>2, <1>3, <1>4, <1>5, <1>6, <1>7, <1>8, <1>9
     DEF Next, RankStep, Finished

\* Every variable keeps its type, whatever the grid, the particles and the
\* capacity (ptc_updater::update, send_particles_impl).
THEOREM Types == Spec => []TypeOK
<1>1. TypeInv => TypeOK
  BY DEF TypeInv
<1> QED
  BY <1>1, TypeInit, TypeNext, PTL DEF Spec

\* No array outgrows its allocation, and the live particles never outnumber the
\* slots in use (copy_from_buffer, clear_guard_cells).
THEOREM CapacityKept == Spec => []Fits
<1>1. TypeInv => Fits
  BY DEF TypeInv
<1> QED
  BY <1>1, TypeInit, TypeNext, PTL DEF Spec

-----------------------------------------------------------------------------
(* Messages meet the phase they were sent for *)

\* What each kind of step does to the exchanges that were posted and taken.
LEMMA QuietStamps ==
  ASSUME TypeInv, NEW r \in Rank,
         Drift(r) \/ Pack(r) \/ Unpack(r) \/ Tidy(r)
  PROVE  \A q \in Rank, t \in Nat, k \in Phases :
           /\ Posted(q, t, k)' <=> Posted(q, t, k)
           /\ Taken(q, t, k)' <=> Taken(q, t, k)
<1> USE DEF TypeInv
<1> SUFFICES ASSUME NEW q \in Rank, NEW t \in Nat, NEW k \in Phases
             PROVE  /\ Posted(q, t, k)' <=> Posted(q, t, k)
                    /\ Taken(q, t, k)' <=> Taken(q, t, k)
  OBVIOUS
<1>0. /\ step[q] \in Nat /\ phase[q] \in Nat /\ k \in Nat /\ 1 <= k
      /\ step[r] \in Nat
  BY BoundAssumption, DimAssumption DEF TypeOK, Phases
<1>1. CASE Drift(r)
  BY <1>0, <1>1 DEF Drift, At, Goto, TypeOK, Posted, Taken
<1>2. CASE Pack(r)
  <2>1. /\ stage' = [stage EXCEPT ![r] = "send"] /\ stage[r] = "pack"
        /\ phase' = [phase EXCEPT ![r] = 1] /\ step' = step
    BY <1>2 DEF Pack, At, Goto
  <2> QED
    BY <1>0, <2>1 DEF TypeOK, Posted, Taken
<1>3. CASE Unpack(r)
  <2>1. /\ stage' = [stage EXCEPT ![r] = "tidy"] /\ stage[r] = "unpack"
        /\ phase' = phase /\ step' = step
    BY <1>3 DEF Unpack, At, Goto
  <2> QED
    BY <1>0, <2>1 DEF TypeOK, Posted, Taken
<1>4. CASE Tidy(r)
  <2> DEFINE s == IF step[r] + 1 = MaxStep THEN "done" ELSE "drift"
  <2>1. /\ stage' = [stage EXCEPT ![r] = s] /\ stage[r] = "tidy"
        /\ phase' = phase /\ step' = [step EXCEPT ![r] = @ + 1]
    BY <1>4 DEF Tidy, At, Goto
  <2>2. s \in {"done", "drift"}
    OBVIOUS
  <2> HIDE DEF s
  <2>3. CASE q = r
    <3>1. stage'[q] = s /\ step'[q] = step[q] + 1 /\ stage[q] = "tidy"
      BY <2>1, <2>3 DEF TypeOK
    <3> QED
      BY <1>0, <2>2, <3>1 DEF Posted, Taken
  <2>4. CASE q # r
    BY <2>1, <2>4 DEF TypeOK, Posted, Taken
  <2> QED
    BY <2>3, <2>4
<1> QED
  BY <1>1, <1>2, <1>3, <1>4

LEMMA SendStamps ==
  ASSUME TypeInv, NEW r \in Rank, Send(r)
  PROVE  /\ \A q \in Rank, t \in Nat, k \in Phases :
              /\ Posted(q, t, k)' <=>
                   \/ Posted(q, t, k)
                   \/ q = r /\ t = step[r] /\ k = phase[r]
              /\ Taken(q, t, k)' <=> Taken(q, t, k)
         /\ ~Posted(r, step[r], phase[r])
<1> USE DEF TypeInv
<1>1. /\ stage' = [stage EXCEPT ![r] = "recv"] /\ stage[r] = "send"
      /\ phase' = phase /\ step' = step
  BY DEF Send, At, Goto
<1>2. \A q \in Rank : step[q] \in Nat /\ phase[q] \in Nat
  BY BoundAssumption, DimAssumption DEF TypeOK, Phases
<1>3. ASSUME NEW q \in Rank, NEW t \in Nat, NEW k \in Phases
      PROVE  /\ Posted(q, t, k)' <=>
                  \/ Posted(q, t, k)
                  \/ q = r /\ t = step[r] /\ k = phase[r]
             /\ Taken(q, t, k)' <=> Taken(q, t, k)
  <2>1. k \in Nat
    BY DEF Phases
  <2> QED
    BY <1>1, <1>2, <2>1 DEF Posted, Taken, TypeOK
<1>4. ~Posted(r, step[r], phase[r])
  BY <1>1, <1>2 DEF Posted
<1> QED
  BY <1>3, <1>4

\* The end of a phase is the same for all three actions that reach it.
LEMMA NextPhaseStamps ==
  ASSUME TypeInv, NEW r \in Rank, stage[r] \in {"send", "recv"},
         NextPhase(r), step' = step
  PROVE  \A q \in Rank, t \in Nat, k \in Phases :
           /\ Posted(q, t, k)' <=>
                \/ Posted(q, t, k)
                \/ q = r /\ t = step[r] /\ k = phase[r]
           /\ Taken(q, t, k)' <=>
                \/ Taken(q, t, k)
                \/ q = r /\ t = step[r] /\ k = phase[r]
<1> USE DEF TypeInv
<1> DEFINE s == IF phase[r] = 2 * Dim THEN "unpack" ELSE "send"
           f == IF phase[r] = 2 * Dim THEN phase[r] ELSE phase[r] + 1
<1>1. stage' = [stage EXCEPT ![r] = s] /\ phase' = [phase EXCEPT ![r] = f]
  BY NextPhaseFacts DEF TypeOK
<1>2. /\ phase[r] = 2 * Dim => s = "unpack"
      /\ phase[r] # 2 * Dim => s = "send" /\ f = phase[r] + 1
  OBVIOUS
<1> HIDE DEF s, f
<1>3. \A q \in Rank : step[q] \in Nat /\ phase[q] \in Nat /\ phase[q] <= 2 * Dim
  BY BoundAssumption, DimAssumption DEF TypeOK, Phases
<1> SUFFICES ASSUME NEW q \in Rank, NEW t \in Nat, NEW k \in Phases
             PROVE  /\ Posted(q, t, k)' <=>
                         \/ Posted(q, t, k)
                         \/ q = r /\ t = step[r] /\ k = phase[r]
                    /\ Taken(q, t, k)' <=>
                         \/ Taken(q, t, k)
                         \/ q = r /\ t = step[r] /\ k = phase[r]
  OBVIOUS
<1>4. k \in Nat /\ k <= 2 * Dim
  BY DimAssumption DEF Phases
<1>5. CASE q # r
  BY <1>1, <1>5 DEF Posted, Taken, TypeOK
<1>6. CASE q = r
  <2>1. stage'[q] = s /\ phase'[q] = f
    BY <1>1, <1>6 DEF TypeOK
  <2> QED
    BY <1>2, <1>3, <1>4, <1>6, <2>1, DimAssumption DEF Posted, Taken
<1> QED
  BY <1>5, <1>6

\* A rank that waits in a phase has posted its send.
LEMMA AlreadyPosted ==
  ASSUME TypeInv, NEW r \in Rank, At(r, "recv")
  PROVE  Posted(r, step[r], phase[r])
<1>1. phase[r] \in Nat
  BY DimAssumption DEF TypeInv, TypeOK, Phases
<1> QED
  BY <1>1 DEF Posted, At

LEMMA MatchInit == Init => InFlight /\ NoSecond /\ NoneMissing /\ NoneEarly
<1> SUFFICES ASSUME Init PROVE InFlight /\ NoSecond /\ NoneMissing /\ NoneEarly
  OBVIOUS
<1>1. net = {} /\ \A r \in Rank : stage[r] = "drift" /\ step[r] = 0
  BY DEF Init
<1>2. \A r \in Rank, t \in 0..(MaxStep - 1), k \in Phases :
        ~Posted(r, t, k) /\ ~Taken(r, t, k)
  BY <1>1 DEF Posted, Taken
<1>3. \A r \in Rank, k \in Phases :
        Source(r, k) # PROC_NULL => Source(r, k) \in Rank
  BY SourceDest DEF Phases
<1> QED
  BY <1>1, <1>2, <1>3 DEF InFlight, NoSecond, NoneMissing, NoneEarly

\* A rank that waits takes the message of its own step and phase.
LEMMA MatchingMatches ==
  ASSUME TypeInv, InFlight, NoneMissing,
         NEW r \in Rank, At(r, "recv"), NEW m \in Matching(r, phase[r])
  PROVE  /\ m \in net /\ m \in Message /\ m.dst = r /\ m.src = Source(r, phase[r])
         /\ m.step = step[r] /\ m.phase = phase[r]
<1> USE DEF TypeInv
<1> DEFINE k == phase[r]
           q == Source(r, k)
<1>1. /\ m \in net /\ m.src = q /\ m.dst = r
      /\ Communicator(m.phase) = Communicator(k)
      /\ \A n \in net : /\ n.src = q /\ n.dst = r
                        /\ Communicator(n.phase) = Communicator(k)
                        => ~Before(n, m)
  BY DEF Matching, Oldest
<1>2. /\ m \in Message /\ k \in Phases /\ step[r] \in 0..MaxStep
      /\ m.src \in Rank /\ m.step \in Nat /\ m.phase \in Phases
      /\ step[q] \in 0..MaxStep /\ phase[q] \in Phases
  BY <1>1 DEF TypeOK, Message
<1>3. /\ Posted(q, m.step, m.phase) /\ ~Taken(r, m.step, m.phase)
      /\ q \in Rank /\ q # PROC_NULL
  BY <1>1, <1>2, NullIsNoRank DEF InFlight
<1>4. step[r] \in 0..(MaxStep - 1)
  BY <1>2, BoundAssumption DEF StepsLeft, At
<1>5. ~ShortCut(r, k)
  <2>1. ASSUME ShortCut(r, k) PROVE FALSE
    <3>1. Batched(k) /\ q = r /\ Dest(r, k) = r
      BY <2>1 DEF ShortCut
    <3>2. Batched(m.phase)
      BY <1>1, <3>1 DEF Communicator
    <3>3. ~Before(m, m)
      BY <1>1
    <3>4. /\ m.step < step[r] \/ (m.step = step[r] /\ m.phase <= k)
      BY <1>3, <3>1 DEF Posted, At
    <3>5. m.step = step[r] /\ m.phase = k
      BY <1>2, <1>3, <3>4 DEF Taken, At, Phases
    <3> QED
      BY <1>1, <3>1, <3>5, <2>1 DEF InFlight
  <2> QED
    BY <2>1
<1>6. m.step > step[r] \/ (m.step = step[r] /\ m.phase >= k)
  BY <1>2, <1>3 DEF Taken, At, Phases
<1>7. Posted(q, step[r], k)
  BY <1>2, <1>3, <1>6 DEF Posted, Phases
<1>8. ~Taken(r, step[r], k)
  BY <1>2 DEF Taken, At, Phases
<1>9. PICK n \in net : n.dst = r /\ n.step = step[r] /\ n.phase = k
  BY <1>2, <1>3, <1>4, <1>5, <1>7, <1>8 DEF NoneMissing
<1>10. n.src = q
  <2>1. n.dst = Dest(n.src, k) /\ n.src \in Rank
    BY <1>9 DEF InFlight, TypeOK, Message
  <2>2. Dest(n.src, k) # PROC_NULL
    BY <1>9, <2>1, NullIsNoRank
  <2> QED
    BY <1>2, <1>9, <2>1, <2>2, SourceDest DEF Phases
<1>11. ~Before(n, m)
  BY <1>1, <1>9, <1>10
<1>12. m.step = step[r] /\ m.phase = k
  BY <1>2, <1>6, <1>9, <1>11 DEF Before, Phases
<1> QED
  BY <1>1, <1>2, <1>12

MatchInv == TypeInv /\ InFlight /\ NoSecond /\ NoneMissing /\ NoneEarly

LEMMA MatchNext == MatchInv /\ [Next]_vars => MatchInv'
<1> SUFFICES ASSUME MatchInv, [Next]_vars PROVE MatchInv'
  OBVIOUS
<1> USE DEF MatchInv
<1>0. /\ TypeInv' /\ net \subseteq Message /\ TypeOK
      /\ \A t \in 0..(MaxStep - 1) : t \in Nat
  BY TypeNext, BoundAssumption DEF TypeInv, TypeOK
<1>a. \A m \in net : m.src \in Rank /\ m.dst \in Rank /\ m.step \in Nat
                       /\ m.phase \in Phases
  BY <1>0 DEF Message
<1>b. \A q \in Rank, k \in Phases : Source(q, k) # PROC_NULL => Source(q, k) \in Rank
  BY SourceDest DEF Phases
<1>1. ASSUME NEW r \in Rank, Drift(r) \/ Pack(r) \/ Unpack(r) \/ Tidy(r)
      PROVE  MatchInv'
  <2>1. net' = net
    BY <1>1 DEF Drift, Pack, Unpack, Tidy
  <2>2. \A q \in Rank, t \in Nat, k \in Phases :
          /\ Posted(q, t, k)' <=> Posted(q, t, k)
          /\ Taken(q, t, k)' <=> Taken(q, t, k)
    BY <1>1, QuietStamps
  <2>3. InFlight' /\ NoSecond'
    BY <1>a, <2>1, <2>2 DEF InFlight, NoSecond
  <2>4. NoneMissing'
    BY <1>0, <1>b, <2>1, <2>2 DEF NoneMissing
  <2>5. NoneEarly'
    BY <1>0, <1>b, <2>2 DEF NoneEarly
  <2> QED
    BY <1>0, <2>3, <2>4, <2>5
<1>2. ASSUME NEW r \in Rank, LocalCopy(r) PROVE MatchInv'
  <2> DEFINE k == phase[r]
  <2>1. /\ net' = net /\ stage[r] = "send" /\ NextPhase(r) /\ step' = step
        /\ ShortCut(r, k)
    BY <1>2 DEF LocalCopy, At
  <2>2. \A q \in Rank, t \in Nat, j \in Phases :
          /\ Posted(q, t, j)' <=> Posted(q, t, j) \/ (q = r /\ t = step[r] /\ j = k)
          /\ Taken(q, t, j)' <=> Taken(q, t, j) \/ (q = r /\ t = step[r] /\ j = k)
    BY <2>1, NextPhaseStamps
  <2>3. Dest(r, k) = r /\ Source(r, k) = r
    BY <2>1 DEF ShortCut
  <2>4. InFlight'
    <3> SUFFICES ASSUME NEW m \in net
                 PROVE  /\ m.dst = Dest(m.src, m.phase)
                        /\ ~ShortCut(m.src, m.phase)
                        /\ Posted(m.src, m.step, m.phase)'
                        /\ ~Taken(m.dst, m.step, m.phase)'
      BY <2>1 DEF InFlight
    <3>1. ~(m.dst = r /\ m.phase = k)
      <4>1. ASSUME m.dst = r, m.phase = k PROVE FALSE
        <5>1. m.src = Source(r, k)
          BY <1>a, <4>1, SourceDest, NullIsNoRank DEF InFlight, Phases
        <5> QED
          BY <2>1, <2>3, <4>1, <5>1 DEF InFlight
      <4> QED
        BY <4>1
    <3> QED
      BY <1>a, <2>2, <3>1 DEF InFlight
  <2>5. NoSecond'
    BY <2>1 DEF NoSecond
  <2>6. NoneMissing'
    <3> SUFFICES ASSUME NEW q \in Rank, NEW t \in 0..(MaxStep - 1), NEW j \in Phases,
                        Source(q, j) # PROC_NULL, ~ShortCut(q, j),
                        Posted(Source(q, j), t, j)', ~Taken(q, t, j)'
                 PROVE  \E m \in net : m.dst = q /\ m.step = t /\ m.phase = j
      BY <2>1 DEF NoneMissing
    <3>1. ~(Source(q, j) = r /\ j = k)
      BY <2>1, <2>3, SourceDest DEF Phases
    <3> QED
      BY <1>0, <1>b, <2>2, <3>1 DEF NoneMissing
  <2>7. NoneEarly'
    BY <1>0, <1>b, <2>2, <2>3 DEF NoneEarly
  <2> QED
    BY <1>0, <2>4, <2>5, <2>6, <2>7
<1>3. ASSUME NEW r \in Rank, Send(r) PROVE MatchInv'
  <2> DEFINE k == phase[r]
             new == [src |-> r, dst |-> Dest(r, k), step |-> step[r],
                     phase |-> k, load |-> Load(r, k)]
  <2>1. /\ ~ShortCut(r, k)
        /\ Dest(r, k) = PROC_NULL => net' = net
        /\ Dest(r, k) # PROC_NULL => net' = net \cup {new}
    BY <1>3 DEF Send
  <2>2. /\ \A q \in Rank, t \in Nat, j \in Phases :
             /\ Posted(q, t, j)' <=> Posted(q, t, j) \/ (q = r /\ t = step[r] /\ j = k)
             /\ Taken(q, t, j)' <=> Taken(q, t, j)
        /\ ~Posted(r, step[r], k)
    BY <1>3, SendStamps
  <2>3. k \in Phases /\ step[r] \in Nat
    BY <1>0 DEF TypeOK
  <2>4. \A m \in net : ~(m.dst = Dest(r, k) /\ m.step = step[r] /\ m.phase = k)
    <3> SUFFICES ASSUME NEW m \in net, m.dst = Dest(r, k), m.step = step[r],
                        m.phase = k
                 PROVE  FALSE
      OBVIOUS
    <3>1. m.src = Source(m.dst, k) /\ Source(Dest(r, k), k) = r
      BY <1>a, <2>3, SourceDest, NullIsNoRank DEF InFlight, Phases
    <3> QED
      BY <2>2, <3>1 DEF InFlight
  <2>5. Dest(r, k) # PROC_NULL =>
          Dest(r, k) \in Rank /\ ~Taken(Dest(r, k), step[r], k)
    <3> SUFFICES ASSUME Dest(r, k) # PROC_NULL, Taken(Dest(r, k), step[r], k)
                 PROVE  FALSE
      BY <2>3, SourceDest DEF Phases
    <3>1. Dest(r, k) \in Rank /\ Source(Dest(r, k), k) = r /\ r # PROC_NULL
      BY <2>3, SourceDest, NullIsNoRank DEF Phases
    <3>2. step[r] \in 0..(MaxStep - 1)
      <4>1. stage[r] = "send" /\ step[r] \in 0..MaxStep
        BY <1>0, <1>3 DEF Send, At, TypeOK
      <4>2. step[r] # MaxStep
        BY <4>1 DEF TypeInv, StepsLeft, At
      <4> QED
        BY <4>1, <4>2, BoundAssumption
    <3> QED
      BY <2>2, <2>3, <3>1, <3>2 DEF NoneEarly
  <2>6. InFlight'
    BY <1>a, <2>1, <2>2, <2>3, <2>5 DEF InFlight
  <2>7. NoSecond'
    BY <2>1, <2>4 DEF NoSecond
  <2>8. NoneMissing'
    <3> SUFFICES ASSUME NEW q \in Rank, NEW t \in 0..(MaxStep - 1), NEW j \in Phases,
                        Source(q, j) # PROC_NULL, ~ShortCut(q, j),
                        Posted(Source(q, j), t, j)', ~Taken(q, t, j)'
                 PROVE  \E m \in net' : m.dst = q /\ m.step = t /\ m.phase = j
      BY DEF NoneMissing
    <3>1. CASE Posted(Source(q, j), t, j)
      BY <1>0, <2>1, <2>2, <3>1 DEF NoneMissing
    <3>2. CASE Source(q, j) = r /\ t = step[r] /\ j = k
      <4>1. Dest(r, k) = q /\ q # PROC_NULL
        BY <3>2, SourceDest, NullIsNoRank DEF Phases
      <4>2. new \in net' /\ new.dst = q /\ new.step = t /\ new.phase = j
        BY <2>1, <3>2, <4>1
      <4> QED
        BY <4>2
    <3> QED
      BY <1>0, <1>b, <2>2, <3>1, <3>2
  <2>9. NoneEarly'
    BY <1>0, <1>b, <2>2 DEF NoneEarly
  <2> QED
    BY <1>0, <2>6, <2>7, <2>8, <2>9
<1>4. ASSUME NEW r \in Rank, Recv(r) PROVE MatchInv'
  <2> DEFINE k == phase[r]
  <2>1. PICK m \in Matching(r, k) : net' = net \ {m}
    BY <1>4 DEF Recv
  <2>2. stage[r] = "recv" /\ NextPhase(r) /\ step' = step
    BY <1>4 DEF Recv, At
  <2>3. /\ m \in net /\ m.dst = r /\ m.step = step[r] /\ m.phase = k
    BY <2>1, <2>2, MatchingMatches DEF At
  <2>4. \A q \in Rank, t \in Nat, j \in Phases :
          /\ Posted(q, t, j)' <=> Posted(q, t, j)
          /\ Taken(q, t, j)' <=> Taken(q, t, j) \/ (q = r /\ t = step[r] /\ j = k)
    BY <2>2, NextPhaseStamps, AlreadyPosted DEF At
  <2>5. InFlight'
    <3> SUFFICES ASSUME NEW n \in net'
                 PROVE  /\ n.dst = Dest(n.src, n.phase)
                        /\ ~ShortCut(n.src, n.phase)
                        /\ Posted(n.src, n.step, n.phase)'
                        /\ ~Taken(n.dst, n.step, n.phase)'
      BY DEF InFlight
    <3>1. n \in net /\ ~(n.dst = r /\ n.step = step[r] /\ n.phase = k)
      BY <2>1, <2>3 DEF NoSecond
    <3> QED
      BY <1>a, <2>4, <3>1 DEF InFlight
  <2>6. NoSecond'
    BY <2>1 DEF NoSecond
  <2>7. NoneMissing'
    BY <1>0, <1>b, <2>1, <2>3, <2>4 DEF NoneMissing
  <2>8. Posted(Source(r, k), step[r], k)
    BY <2>1, <2>2, MatchingMatches DEF At, InFlight
  <2>9. NoneEarly'
    BY <1>0, <1>b, <2>4, <2>8 DEF NoneEarly
  <2> QED
    BY <1>0, <2>5, <2>6, <2>7, <2>9
<1>5. ASSUME NEW r \in Rank, RecvNothing(r) PROVE MatchInv'
  <2> DEFINE k == phase[r]
  <2>1. /\ stage[r] = "recv" /\ NextPhase(r) /\ step' = step /\ net' = net
        /\ Source(r, k) = PROC_NULL
    BY <1>5 DEF RecvNothing, At
  <2>2. \A q \in Rank, t \in Nat, j \in Phases :
          /\ Posted(q, t, j)' <=> Posted(q, t, j)
          /\ Taken(q, t, j)' <=> Taken(q, t, j) \/ (q = r /\ t = step[r] /\ j = k)
    BY <2>1, NextPhaseStamps, AlreadyPosted DEF At
  <2>3. \A m \in net : ~(m.dst = r /\ m.phase = k)
    BY <1>a, <2>1, SourceDest, NullIsNoRank DEF InFlight, Phases
  <2>4. InFlight' /\ NoSecond'
    BY <1>a, <2>1, <2>2, <2>3 DEF InFlight, NoSecond
  <2>5. NoneMissing'
    BY <1>0, <1>b, <2>1, <2>2 DEF NoneMissing
  <2>6. NoneEarly'
    BY <1>0, <1>b, <2>1, <2>2 DEF NoneEarly
  <2> QED
    BY <1>0, <2>4, <2>5, <2>6
<1>6. CASE UNCHANGED vars
  BY <1>0, <1>6 DEF vars, InFlight, NoSecond, NoneMissing, NoneEarly, Posted, Taken
<1> QED
  BY <1>1, <1>2, <1>3, <1>4, <1>5, <1>6 DEF Next, RankStep, Finished

\* For any number of ranks and any topology: although the ranks are never
\* synchronised and MPI matches by order alone, no rank ever takes a message
\* of another phase or another time step (send_particle_array).
THEOREM NoCrossTalk == Spec => []PhasesMatch
<1>1. Init => MatchInv
  BY TypeInit, MatchInit DEF MatchInv
<1>2. MatchInv => PhasesMatch
  BY MatchingMatches DEF MatchInv, PhasesMatch
<1> QED
  BY <1>1, <1>2, MatchNext, PTL DEF Spec

-----------------------------------------------------------------------------
(* The buffers drain *)

\* How the zones that may hold particles shrink from phase to phase.
LEMMA ZoneSteps ==
  ASSUME NEW k \in Phases, NEW z \in Zone
  PROVE  /\ z \in Sent(k) <=> z \in Pending(k) /\ z[PhaseAxis(k)] = PhaseDir(k)
         /\ z \in Inward(k) => z \in Pending(k) \ Sent(k)
         /\ z \in Pending(k) \ Sent(k) /\ k # 2 * Dim => z \in Pending(k + 1)
         /\ z \in Pending(k) \ Sent(k) /\ k = 2 * Dim => z = Centre
         /\ z \in Pending(1)
<1> DEFINE a == PhaseAxis(k)
           s == PhaseDir(k)
<1>1. /\ a \in Axis /\ s \in {-1, 1}
      /\ s = -1 => PhaseAxis(k + 1) = a /\ PhaseDir(k + 1) = 1
      /\ s = 1 /\ k # 2 * Dim => PhaseAxis(k + 1) = a + 1 /\ PhaseDir(k + 1) = -1
      /\ k = 2 * Dim => s = 1 /\ a = Dim
      /\ 1..a \subseteq Axis /\ a \in 1..a
  BY PhaseFacts, DimAssumption DEF Phases, Axis
<1>2. PhaseAxis(1) = 1 /\ PhaseDir(1) = -1
  BY DEF PhaseAxis, PhaseDir
<1>3. z \in [Axis -> {-1, 0, 1}] /\ z[a] \in {-1, 0, 1}
  BY <1>1 DEF Zone
<1> HIDE DEF a, s
<1>4. z \in Sent(k) <=> z \in Pending(k) /\ z[a] = s
  <2>1. ASSUME z \in Sent(k) PROVE z \in Pending(k) /\ z[a] = s
    <3>1. PICK y \in Inward(k) : z = [y EXCEPT ![a] = s]
      BY <2>1 DEF Sent, Outward, a, s
    <3>2. y \in Zone /\ \A d \in 1..a : y[d] = 0
      BY <3>1 DEF Inward, a
    <3>3. z[a] = s
      BY <1>1, <3>1, <3>2 DEF Zone
    <3>4. \A d \in 1..(a - 1) : z[d] = 0
      BY <1>1, <3>1, <3>2, DimAssumption DEF Zone, Axis
    <3> QED
      BY <1>1, <3>3, <3>4 DEF Pending, a, s
  <2>2. ASSUME z \in Pending(k), z[a] = s PROVE z \in Sent(k)
    <3> DEFINE y == [z EXCEPT ![a] = 0]
    <3>1. y \in Zone
      BY <1>1 DEF Zone
    <3>2. \A d \in 1..a : y[d] = 0
      BY <1>1, <2>2, DimAssumption DEF Pending, Zone, Axis, a
    <3>3. z = [y EXCEPT ![a] = s]
      <4>1. [y EXCEPT ![a] = s] = [z EXCEPT ![a] = s]
        BY <1>1, <1>3
      <4> QED
        BY <1>1, <1>3, <2>2, <4>1
    <3> QED
      BY <3>1, <3>2, <3>3 DEF Sent, Outward, Inward, a, s
  <2> QED
    BY <2>1, <2>2
<1>5. ASSUME z \in Inward(k) PROVE z \in Pending(k) \ Sent(k)
  <2>1. \A d \in 1..a : z[d] = 0
    BY <1>5 DEF Inward, a
  <2>2. z[a] = 0
    BY <1>1, <2>1
  <2>3. z \in Pending(k)
    BY <1>1, <2>1, <2>2, DimAssumption DEF Pending, Axis, a, s
  <2> QED
    BY <1>1, <1>4, <2>2, <2>3
<1>6. ASSUME z \in Pending(k), z \notin Sent(k)
      PROVE  /\ \A d \in 1..(a - 1) : z[d] = 0
             /\ z[a] # s
             /\ s = 1 => \A d \in 1..a : z[d] = 0
  <2>1. /\ \A d \in 1..(a - 1) : z[d] = 0
        /\ s = 1 => z[a] # -1
    BY <1>6 DEF Pending, a, s
  <2>2. z[a] # s
    BY <1>4, <1>6
  <2>3. s = 1 => z[a] = 0
    BY <1>3, <2>1, <2>2
  <2>4. a \in Nat /\ \A d \in 1..a : d = a \/ d \in 1..(a - 1)
    BY <1>1 DEF Axis
  <2> QED
    BY <2>1, <2>2, <2>3, <2>4
<1>7. ASSUME z \in Pending(k), z \notin Sent(k), k # 2 * Dim
      PROVE  z \in Pending(k + 1)
  <2>1. CASE s = -1
    BY <1>1, <1>6, <1>7, <2>1 DEF Pending
  <2>2. CASE s = 1
    <3>1. PhaseAxis(k + 1) - 1 = a /\ PhaseDir(k + 1) # 1
      BY <1>1, <1>7, <2>2 DEF Axis
    <3> QED
      BY <1>6, <1>7, <2>2, <3>1 DEF Pending
  <2> QED
    BY <1>1, <2>1, <2>2
<1>8. ASSUME z \in Pending(k), z \notin Sent(k), k = 2 * Dim
      PROVE  z = Centre
  BY <1>1, <1>3, <1>6, <1>8 DEF Centre, Axis
<1>9. z \in Pending(1)
  BY <1>2 DEF Pending
<1> QED
  BY <1>4, <1>5, <1>7, <1>8, <1>9 DEF a, s

ZoneInv == MatchInv /\ BufferZones

\* At the end of phase k a buffer that holds particles is one that a later
\* phase sends, or the central one.
LEMMA ZonesAfterPhase ==
  ASSUME TypeOK, NEW r \in Rank, NextPhase(r),
         NEW q \in Rank, NEW z \in Zone,
         IF q = r THEN z \in Pending(phase[r]) \ Sent(phase[r])
         ELSE \/ stage[q] = "send" /\ z \in Pending(phase[q])
              \/ stage[q] = "recv" /\ z \in Pending(phase[q]) \ Sent(phase[q])
              \/ stage[q] = "unpack" /\ z = Centre
  PROVE  \/ stage'[q] = "send" /\ z \in Pending(phase'[q])
         \/ stage'[q] = "recv" /\ z \in Pending(phase'[q]) \ Sent(phase'[q])
         \/ stage'[q] = "unpack" /\ z = Centre
<1>1. /\ stage \in [Rank -> Stages] /\ phase \in [Rank -> Phases]
      /\ phase[r] \in Phases
  BY DEF TypeOK
<1>2. CASE q # r
  <2>1. stage'[q] = stage[q] /\ phase'[q] = phase[q]
    BY <1>1, <1>2, NextPhaseFacts
  <2> QED
    BY <1>2, <2>1
<1>3. CASE q = r /\ phase[r] = 2 * Dim
  <2>1. stage'[r] = "unpack"
    BY <1>1, <1>3, NextPhaseFacts
  <2> QED
    BY <1>1, <1>3, <2>1, ZoneSteps
<1>4. CASE q = r /\ phase[r] # 2 * Dim
  <2>1. stage'[r] = "send" /\ phase'[r] = phase[r] + 1
    BY <1>1, <1>4, NextPhaseFacts
  <2> QED
    BY <1>1, <1>4, <2>1, ZoneSteps
<1> QED
  BY <1>2, <1>3, <1>4

\* Only receiving buffers are loaded.
LEMMA LoadZones ==
  \A r \in Rank, k \in Phases : \A z \in Zone :
    /\ Load(r, k)[z] # {} => z \in Inward(k)
    /\ Emptied(r, k)[z] # {} => z \notin Sent(k) /\ buf[r][z] # {}
  BY DEF Load, Emptied

LEMMA ZoneNext == ZoneInv /\ [Next]_vars => ZoneInv'
<1> SUFFICES ASSUME ZoneInv, [Next]_vars PROVE ZoneInv'
  OBVIOUS
<1> USE DEF ZoneInv
<1>0. /\ MatchInv' /\ TypeInv /\ TypeOK
      /\ \A q \in Rank : phase[q] \in Phases
      /\ buf \in [Rank -> [Zone -> SUBSET Ptc]]
      /\ stage \in [Rank -> Stages]
  BY MatchNext DEF MatchInv, TypeInv, TypeOK
<1>1. ASSUME NEW r \in Rank, Drift(r) PROVE ZoneInv'
  <2>1. /\ stage[r] = "drift" /\ stage' = [stage EXCEPT ![r] = "pack"]
        /\ UNCHANGED <<phase, buf, net>>
    BY <1>1 DEF Drift, At, Goto
  <2> QED
    BY <1>0, <2>1 DEF BufferZones
<1>2. ASSUME NEW r \in Rank, Pack(r) PROVE ZoneInv'
  <2>1. /\ stage[r] = "pack" /\ stage' = [stage EXCEPT ![r] = "send"]
        /\ phase' = [phase EXCEPT ![r] = 1] /\ net' = net
        /\ buf' = [buf EXCEPT ![r] = Packed(r)]
    BY <1>2 DEF Pack, At, Goto
  <2>2. \A z \in Zone : z \in Pending(1)
    BY <1>0, ZoneSteps, DimAssumption DEF Phases
  <2>3. /\ stage'[r] = "send" /\ phase'[r] = 1
        /\ \A q \in Rank : q # r =>
             /\ stage'[q] = stage[q] /\ phase'[q] = phase[q] /\ buf'[q] = buf[q]
    BY <1>0, <2>1 DEF TypeOK
  <2> QED
    BY <1>0, <2>1, <2>2, <2>3 DEF BufferZones
<1>3. ASSUME NEW r \in Rank, LocalCopy(r) PROVE ZoneInv'
  <2> DEFINE k == phase[r]
  <2>1. /\ stage[r] = "send" /\ NextPhase(r) /\ net' = net
        /\ buf' = [buf EXCEPT ![r] = Merge(Emptied(r, k), Load(r, k))]
    BY <1>3 DEF LocalCopy, At
  <2>2. ASSUME NEW q \in Rank, NEW z \in Zone, buf'[q][z] # {}
        PROVE  \/ stage'[q] = "send" /\ z \in Pending(phase'[q])
               \/ stage'[q] = "recv" /\ z \in Pending(phase'[q]) \ Sent(phase'[q])
               \/ stage'[q] = "unpack" /\ z = Centre
    <3>1. CASE q # r
      <4>1. buf'[q][z] = buf[q][z]
        BY <1>0, <2>1, <3>1
      <4> QED
        BY <1>0, <2>1, <2>2, <3>1, <4>1, ZonesAfterPhase DEF BufferZones
    <3>2. CASE q = r
      <4>1. buf'[r][z] = Emptied(r, k)[z] \cup Load(r, k)[z]
        BY <1>0, <2>1 DEF Merge
      <4>2. \/ z \notin Sent(k) /\ buf[r][z] # {}
            \/ z \in Inward(k)
        BY <1>0, <2>2, <3>2, <4>1, LoadZones
      <4>3. z \in Pending(k) \ Sent(k)
        BY <1>0, <2>1, <4>2, ZoneSteps DEF BufferZones
      <4> QED
        BY <1>0, <2>1, <3>2, <4>3, ZonesAfterPhase
    <3> QED
      BY <3>1, <3>2
  <2> QED
    BY <1>0, <2>1, <2>2 DEF BufferZones
<1>4. ASSUME NEW r \in Rank, Send(r) PROVE ZoneInv'
  <2> DEFINE k == phase[r]
  <2>1. /\ stage[r] = "send" /\ stage' = [stage EXCEPT ![r] = "recv"]
        /\ phase' = phase /\ buf' = [buf EXCEPT ![r] = Emptied(r, k)]
        /\ \A m \in net' : m \in net \/ (m.phase = k /\ m.load = Load(r, k))
    BY <1>4 DEF Send, At, Goto
  <2>2. ASSUME NEW z \in Zone, Emptied(r, k)[z] # {}
        PROVE  z \in Pending(k) \ Sent(k)
    BY <1>0, <2>1, <2>2, LoadZones DEF BufferZones
  <2>3. \A m \in net' : \A z \in Zone : m.load[z] # {} => z \in Inward(m.phase)
    BY <1>0, <2>1, LoadZones DEF BufferZones
  <2>4. ASSUME NEW q \in Rank, NEW z \in Zone, buf'[q][z] # {}
        PROVE  \/ stage'[q] = "send" /\ z \in Pending(phase'[q])
               \/ stage'[q] = "recv" /\ z \in Pending(phase'[q]) \ Sent(phase'[q])
               \/ stage'[q] = "unpack" /\ z = Centre
    <3>1. CASE q # r
      BY <1>0, <2>1, <2>4, <3>1 DEF BufferZones
    <3>2. CASE q = r
      BY <1>0, <2>1, <2>2, <2>4, <3>2
    <3> QED
      BY <3>1, <3>2
  <2> QED
    BY <1>0, <2>3, <2>4 DEF BufferZones
<1>5. ASSUME NEW r \in Rank, Recv(r) PROVE ZoneInv'
  <2> DEFINE k == phase[r]
  <2>1. PICK m \in Matching(r, k) :
          /\ net' = net \ {m}
          /\ IF AtOffset(k)
             THEN buf' = [buf EXCEPT ![r] = Merge(buf[r], m.load)] /\ UNCHANGED ghost
             ELSE \E kept \in SUBSET buf[r][Centre] :
                    /\ Overwritten(buf[r][Centre], m.load[Centre], kept)
                    /\ buf' = [buf EXCEPT ![r][Centre] = kept \cup m.load[Centre]]
                    /\ ghost' = [ghost EXCEPT ![r] =
                                   @ + Cardinality(buf[r][Centre] \ kept)]
    BY <1>5 DEF Recv
  <2>2. stage[r] = "recv" /\ At(r, "recv") /\ NextPhase(r)
    BY <1>5 DEF Recv, At
  <2>3. m \in net /\ m.phase = k
    BY <2>1, <2>2, MatchingMatches DEF MatchInv
  <2>4. ASSUME NEW z \in Zone, m.load[z] # {} \/ buf[r][z] # {}
        PROVE  z \in Pending(k) \ Sent(k)
    BY <1>0, <2>2, <2>3, <2>4, ZoneSteps DEF BufferZones
  <2>5. ASSUME NEW z \in Zone, buf'[r][z] # {}
        PROVE  m.load[z] # {} \/ buf[r][z] # {}
    <3>1. CASE AtOffset(k)
      <4>1. buf'[r][z] = buf[r][z] \cup m.load[z]
        BY <1>0, <2>1, <3>1 DEF Merge
      <4> QED
        BY <2>5, <4>1
    <3>2. CASE ~AtOffset(k)
      <4>1. PICK kept \in SUBSET buf[r][Centre] :
              buf' = [buf EXCEPT ![r][Centre] = kept \cup m.load[Centre]]
        BY <2>1, <3>2
      <4> QED
        BY <1>0, <2>5, <4>1
    <3> QED
      BY <3>1, <3>2
  <2>6. \A q \in Rank : q # r => buf'[q] = buf[q]
    <3>1. CASE AtOffset(k)
      BY <1>0, <2>1, <3>1
    <3>2. CASE ~AtOffset(k)
      BY <1>0, <2>1, <3>2
    <3> QED
      BY <3>1, <3>2
  <2>7. ASSUME NEW q \in Rank, NEW z \in Zone, buf'[q][z] # {}
        PROVE  \/ stage'[q] = "send" /\ z \in Pending(phase'[q])
               \/ stage'[q] = "recv" /\ z \in Pending(phase'[q]) \ Sent(phase'[q])
               \/ stage'[q] = "unpack" /\ z = Centre
    <3>1. CASE q # r
      BY <1>0, <2>2, <2>6, <2>7, <3>1, ZonesAfterPhase DEF BufferZones
    <3>2. CASE q = r
      BY <1>0, <2>2, <2>4, <2>5, <2>7, <3>2, ZonesAfterPhase
    <3> QED
      BY <3>1, <3>2
  <2>8. \A n \in net' : n \in net
    BY <2>1
  <2> QED
    BY <1>0, <2>7, <2>8 DEF BufferZones
<1>6. ASSUME NEW r \in Rank, RecvNothing(r) PROVE ZoneInv'
  <2>1. stage[r] = "recv" /\ NextPhase(r) /\ net' = net /\ buf' = buf
    BY <1>6 DEF RecvNothing, At
  <2>2. ASSUME NEW q \in Rank, NEW z \in Zone, buf'[q][z] # {}
        PROVE  \/ stage'[q] = "send" /\ z \in Pending(phase'[q])
               \/ stage'[q] = "recv" /\ z \in Pending(phase'[q]) \ Sent(phase'[q])
               \/ stage'[q] = "unpack" /\ z = Centre
    BY <1>0, <2>1, <2>2, ZonesAfterPhase DEF BufferZones
  <2> QED
    BY <1>0, <2>1, <2>2 DEF BufferZones
<1>7. ASSUME NEW r \in Rank, Unpack(r) PROVE ZoneInv'
  <2>1. /\ stage[r] = "unpack" /\ stage' = [stage EXCEPT ![r] = "tidy"]
        /\ buf' = [buf EXCEPT ![r][Centre] = {}]
        /\ UNCHANGED <<phase, net>>
    BY <1>7 DEF Unpack, At, Goto
  <2>2. \A q \in Rank, z \in Zone :
          buf'[q][z] # {} => q # r /\ buf[q][z] # {}
    BY <1>0, <2>1 DEF BufferZones
  <2> QED
    BY <1>0, <2>1, <2>2 DEF BufferZones
<1>8. ASSUME NEW r \in Rank, Tidy(r) PROVE ZoneInv'
  <2>1. /\ stage[r] = "tidy"
        /\ \A q \in Rank : q # r => stage'[q] = stage[q]
        /\ UNCHANGED <<phase, buf, net>>
    BY <1>0, <1>8 DEF Tidy, At, Goto
  <2> QED
    BY <1>0, <2>1 DEF BufferZones
<1>9. CASE UNCHANGED vars
  BY <1>0, <1>9 DEF vars, BufferZones
<1> QED
  BY <1>1, <1>2, <1>3, <1>4, <1>5, <1>6, <1>7, <1>8, <1>9
     DEF Next, RankStep, Finished

LEMMA ZoneInit == Init => ZoneInv
<1> SUFFICES ASSUME Init PROVE ZoneInv
  OBVIOUS
<1>1. BufferZones
  BY DEF Init, BufferZones
<1> QED
  BY <1>1, TypeInit, MatchInit DEF ZoneInv, MatchInv

\* Whatever the topology, the passes over the axes leave no particle behind
\* in a communication buffer (send_particles_impl).
THEOREM BuffersDrain == Spec => []Drained
<1>1. ZoneInv => Drained
  BY DEF ZoneInv, BufferZones, Drained
<1> QED
  BY <1>1, ZoneInit, ZoneNext, PTL DEF Spec

-----------------------------------------------------------------------------
(* No particle is lost or duplicated *)

NotHeld(p) == \A r \in Rank : p \notin arr[r]
NotPacked(p) == \A r \in Rank, z \in Zone : p \notin buf[r][z]
NotSent(p) == \A m \in net, z \in Zone : p \notin m.load[z]
NotGone(p) == p \notin dropped /\ p \notin exited

\* p is in exactly one place.
HeldOnce(p) ==
  /\ \E r \in Rank : \A q \in Rank : p \in arr[q] <=> q = r
  /\ NotPacked(p) /\ NotSent(p) /\ NotGone(p)
PackedOnce(p) ==
  /\ \E r \in Rank, z \in Zone :
       \A q \in Rank, y \in Zone : p \in buf[q][y] <=> q = r /\ y = z
  /\ NotHeld(p) /\ NotSent(p) /\ NotGone(p)
SentOnce(p) ==
  /\ \E m \in net, z \in Zone :
       \A n \in net, y \in Zone : p \in n.load[y] <=> n = m /\ y = z
  /\ NotHeld(p) /\ NotPacked(p) /\ NotGone(p)
GoneOnce(p) ==
  /\ p \in dropped \/ p \in exited
  /\ ~(p \in dropped /\ p \in exited)
  /\ NotHeld(p) /\ NotPacked(p) /\ NotSent(p)
Placed(p) == HeldOnce(p) \/ PackedOnce(p) \/ SentOnce(p) \/ GoneOnce(p)

LEMMA OnePlace ==
  ASSUME NEW p \in Ptc, Placed(p)
  PROVE  \E w \in Where(p) : Where(p) = {w}
<1> DEFINE A == {<<"arr", r>> : r \in {r \in Rank : p \in arr[r]}}
           B == {<<"buf", x[1], x[2]>> :
                   x \in {x \in Rank \X Zone : p \in buf[x[1]][x[2]]}}
           C == {<<"net", x[1], x[2]>> :
                   x \in {x \in net \X Zone : p \in x[1].load[x[2]]}}
           D == IF p \in dropped THEN {<<"dropped">>} ELSE {}
           E == IF p \in exited THEN {<<"exited">>} ELSE {}
<1>1. Where(p) = A \cup B \cup C \cup D \cup E
  BY DEF Where
<1>2. ASSUME \A r \in Rank : p \notin arr[r] PROVE A = {}
  BY <1>2
<1>3. ASSUME \A r \in Rank, z \in Zone : p \notin buf[r][z] PROVE B = {}
  BY <1>3
<1>4. ASSUME \A m \in net, z \in Zone : p \notin m.load[z] PROVE C = {}
  BY <1>4
<1>5. (p \notin dropped => D = {}) /\ (p \notin exited => E = {})
  OBVIOUS
<1>6. SUFFICES \E w : A \cup B \cup C \cup D \cup E = {w}
  BY <1>1
<1>7. CASE HeldOnce(p)
  <2>1. PICK r \in Rank : \A q \in Rank : p \in arr[q] <=> q = r
    BY <1>7 DEF HeldOnce
  <2>2. A = {<<"arr", r>>}
    BY <2>1
  <2>3. B = {} /\ C = {} /\ D = {} /\ E = {}
    BY <1>7, <1>3, <1>4, <1>5 DEF HeldOnce, NotPacked, NotSent, NotGone
  <2> HIDE DEF A, B, C, D, E
  <2> QED
    BY <2>2, <2>3
<1>8. CASE PackedOnce(p)
  <2>1. PICK r \in Rank, z \in Zone :
          \A q \in Rank, y \in Zone : p \in buf[q][y] <=> q = r /\ y = z
    BY <1>8 DEF PackedOnce
  <2>2. B = {<<"buf", r, z>>}
    <3> DEFINE S == {x \in Rank \X Zone : p \in buf[x[1]][x[2]]}
    <3>2. \A x \in Rank \X Zone :
            x[1] \in Rank /\ x[2] \in Zone /\ x = <<x[1], x[2]>>
      OBVIOUS
    <3>3. \A x \in S : x = <<r, z>>
      BY <2>1, <3>2
    <3>4. <<r, z>> \in S
      BY <2>1
    <3>5. B = {<<"buf", x[1], x[2]>> : x \in S}
      OBVIOUS
    <3>6. S = {<<r, z>>}
      BY <3>3, <3>4
    <3>7. {<<"buf", x[1], x[2]>> : x \in {<<r, z>>}} = {<<"buf", r, z>>}
      OBVIOUS
    <3> HIDE DEF S, B
    <3> QED
      BY <3>5, <3>6, <3>7
  <2>3. A = {} /\ C = {} /\ D = {} /\ E = {}
    BY <1>8, <1>2, <1>4, <1>5 DEF PackedOnce, NotHeld, NotSent, NotGone
  <2> HIDE DEF A, B, C, D, E
  <2> QED
    BY <2>2, <2>3
<1>9. CASE SentOnce(p)
  <2>1. PICK m \in net, z \in Zone :
          \A n \in net, y \in Zone : p \in n.load[y] <=> n = m /\ y = z
    BY <1>9 DEF SentOnce
  <2>2. C = {<<"net", m, z>>}
    <3> DEFINE S == {x \in net \X Zone : p \in x[1].load[x[2]]}
    <3>2. \A x \in net \X Zone :
            x[1] \in net /\ x[2] \in Zone /\ x = <<x[1], x[2]>>
      OBVIOUS
    <3>3. \A x \in S : x = <<m, z>>
      BY <2>1, <3>2
    <3>4. <<m, z>> \in S
      BY <2>1
    <3>5. C = {<<"net", x[1], x[2]>> : x \in S}
      OBVIOUS
    <3>6. S = {<<m, z>>}
      BY <3>3, <3>4
    <3>7. {<<"net", x[1], x[2]>> : x \in {<<m, z>>}} = {<<"net", m, z>>}
      OBVIOUS
    <3> HIDE DEF S, C
    <3> QED
      BY <3>5, <3>6, <3>7
  <2>3. A = {} /\ B = {} /\ D = {} /\ E = {}
    BY <1>9, <1>2, <1>3, <1>5 DEF SentOnce, NotHeld, NotPacked, NotGone
  <2> HIDE DEF A, B, C, D, E
  <2> QED
    BY <2>2, <2>3
<1>10. CASE GoneOnce(p)
  <2>1. A = {} /\ B = {} /\ C = {}
    BY <1>10, <1>2, <1>3, <1>4 DEF GoneOnce, NotHeld, NotPacked, NotSent
  <2>2. \E w : D \cup E = {w}
    BY <1>10 DEF GoneOnce
  <2> HIDE DEF A, B, C, D, E
  <2> QED
    BY <2>1, <2>2
<1> QED
  BY <1>7, <1>8, <1>9, <1>10 DEF Placed

\* A pass moves particles one to one between the buffers it sends and the
\* buffers that receive.
LEMMA PassMoves ==
  ASSUME buf \in [Rank -> [Zone -> SUBSET Ptc]],
         NEW r \in Rank, NEW k \in Phases
  PROVE  /\ \A z \in Inward(k) : z \in Zone /\ Outward(k, z) \in Sent(k)
         /\ \A z \in Sent(k) : z \in Zone /\ \E y \in Inward(k) : z = Outward(k, y)
         /\ \A y, z \in Inward(k) : Outward(k, y) = Outward(k, z) => y = z
<1>1. /\ PhaseAxis(k) \in Axis /\ PhaseAxis(k) \in 1..PhaseAxis(k)
  BY PhaseFacts DEF Phases, Axis
<1>2. Inward(k) \subseteq Zone
  BY DEF Inward
<1>3. \A z \in Zone : Outward(k, z) \in Zone
  BY LoadType
<1>4. /\ \A z \in Inward(k) : Outward(k, z) \in Sent(k)
      /\ \A z \in Sent(k) : z \in Zone /\ \E y \in Inward(k) : z = Outward(k, y)
  BY <1>2, <1>3 DEF Sent
<1>5. ASSUME NEW y \in Inward(k), NEW z \in Inward(k),
             Outward(k, y) = Outward(k, z)
      PROVE  y = z
  <2>1. /\ y \in [Axis -> {-1, 0, 1}] /\ z \in [Axis -> {-1, 0, 1}]
        /\ y[PhaseAxis(k)] = 0 /\ z[PhaseAxis(k)] = 0
    BY <1>1 DEF Inward, Zone
  <2>2. \A d \in Axis : d # PhaseAxis(k) =>
          /\ Outward(k, y)[d] = y[d]
          /\ Outward(k, z)[d] = z[d]
    BY <1>1, <2>1 DEF Outward
  <2> QED
    BY <1>5, <2>1, <2>2
<1> QED
  BY <1>2, <1>4, <1>5

\* What is in the load of a message and what stays in the buffers.
LEMMA LoadMembers ==
  ASSUME NEW r \in Rank, NEW k \in Phases, NEW p \in Ptc
  PROVE  /\ \A z \in Zone : p \in Load(r, k)[z] <=>
              z \in Inward(k) /\ p \in buf[r][Outward(k, z)]
         /\ \A z \in Zone : p \in Emptied(r, k)[z] <=>
              z \notin Sent(k) /\ p \in buf[r][z]
  BY DEF Load, Emptied

\* Shifting a particle out of the guard cells puts it in the interior.
LEMMA ShiftInward ==
  ASSUME NEW c \in [Axis -> Int], InReach(c)
  PROVE  /\ InBound(Shift(c, ZoneOf(c)))
         /\ ZoneOf(c) \in Zone
<1>1. N \in Nat /\ G \in Nat /\ G <= N
  BY CellAssumption
<1>2. ASSUME NEW d \in Axis
      PROVE  Shift(c, ZoneOf(c))[d] >= G /\ Shift(c, ZoneOf(c))[d] < N + G
  <2>1. c[d] \in Int /\ c[d] >= 0 /\ c[d] < N + 2 * G
    BY DEF InReach
  <2>2. CASE c[d] < G
    <3>1. Shift(c, ZoneOf(c))[d] = c[d] - (-1) * N
      BY <2>2 DEF Shift, ZoneOf
    <3> QED
      BY <1>1, <2>1, <2>2, <3>1
  <2>3. CASE ~(c[d] < G) /\ c[d] < N + G
    <3>1. Shift(c, ZoneOf(c))[d] = c[d] - 0 * N
      BY <2>3 DEF Shift, ZoneOf
    <3> QED
      BY <1>1, <2>1, <2>3, <3>1
  <2>4. CASE ~(c[d] < G) /\ ~(c[d] < N + G)
    <3>1. Shift(c, ZoneOf(c))[d] = c[d] - 1 * N
      BY <2>4 DEF Shift, ZoneOf
    <3> QED
      BY <1>1, <2>1, <2>4, <3>1
  <2> QED
    BY <2>2, <2>3, <2>4
<1> QED
  BY <1>2, VectorTypes DEF InBound
\* Every MPI_Sendrecv of a particle buffer appends to what is there: the host
\* build has it in one and two dimensions, the device build in three too.
Appends == \A k \in Phases : AtOffset(k)

KeepInv == Appends /\ ZoneInv /\ Inside /\ \A p \in Ptc : Placed(p)

\* A particle in the same places is still in exactly one.
LEMMA SamePlace ==
  ASSUME NEW p \in Ptc, Placed(p),
         \A q \in Rank : p \in arr'[q] <=> p \in arr[q],
         \A q \in Rank, z \in Zone : p \in buf'[q][z] <=> p \in buf[q][z],
         \A m \in net', z \in Zone : p \in m.load[z] => m \in net,
         \A m \in net, z \in Zone : p \in m.load[z] => m \in net',
         p \in dropped' <=> p \in dropped,
         p \in exited' <=> p \in exited
  PROVE  Placed(p)'
<1>1. /\ NotHeld(p)' <=> NotHeld(p)
      /\ NotPacked(p)' <=> NotPacked(p)
      /\ NotSent(p)' <=> NotSent(p)
      /\ NotGone(p)' <=> NotGone(p)
  BY DEF NotHeld, NotPacked, NotSent, NotGone
<1>2. HeldOnce(p) => HeldOnce(p)'
  BY <1>1 DEF HeldOnce
<1>3. PackedOnce(p) => PackedOnce(p)'
  BY <1>1 DEF PackedOnce
<1>4. SentOnce(p) => SentOnce(p)'
  BY <1>1 DEF SentOnce
<1>5. GoneOnce(p) => GoneOnce(p)'
  BY <1>1 DEF GoneOnce
<1> QED
  BY <1>2, <1>3, <1>4, <1>5 DEF Placed

\* An exchange step that leaves the arrays alone keeps particles inside if it
\* only buffers and sends particles that are.
LEMMA InsideKept ==
  ASSUME Inside, NEW r \in Rank, arr' = arr, cell' = cell,
         stage[r] # "pack", stage'[r] # "pack",
         \A q \in Rank : q # r => stage'[q] = stage[q],
         \A q \in Rank, z \in Zone : \A p \in buf'[q][z] : InBound(cell[p]),
         \A m \in net', z \in Zone : \A p \in m.load[z] : InBound(cell[p])
  PROVE  Inside'
<1>1. ASSUME NEW q \in Rank, NEW p \in arr[q]
      PROVE  IF stage'[q] = "pack" THEN InReach(cell[p]) ELSE InBound(cell[p])
  BY DEF Inside
<1>2. Inside' <=>
        /\ \A q \in Rank : \A p \in arr[q] :
             IF stage'[q] = "pack" THEN InReach(cell[p]) ELSE InBound(cell[p])
        /\ \A q \in Rank : \A z \in Zone : \A p \in buf'[q][z] : InBound(cell[p])
        /\ \A m \in net' : \A z \in Zone : \A p \in m.load[z] : InBound(cell[p])
  BY DEF Inside, InReach, InBound
<1> QED
  BY <1>1, <1>2

\* A push moves particles no further than the guard cells.
LEMMA DriftKeeps ==
  ASSUME KeepInv, NEW r \in Rank, Drift(r)
  PROVE  Inside' /\ \A p \in Ptc : Placed(p)'
<1>0. /\ TypeOK /\ stage \in [Rank -> Stages] /\ cell \in [Ptc -> [Axis -> Int]]
      /\ arr \in [Rank -> SUBSET Ptc] /\ buf \in [Rank -> [Zone -> SUBSET Ptc]]
      /\ \A m \in net : m.load \in [Zone -> SUBSET Ptc]
  BY DEF KeepInv, ZoneInv, MatchInv, TypeInv, TypeOK, Message
<1>1. /\ stage[r] = "drift" /\ stage' = [stage EXCEPT ![r] = "pack"]
      /\ UNCHANGED <<arr, buf, net, dropped, exited>>
  BY DEF Drift, At, Goto
<1>2. \A p \in Ptc : Placed(p)'
  BY <1>1, SamePlace DEF KeepInv
<1>3. PICK f \in [arr[r] -> Reach] :
        cell' = [p \in Ptc |-> IF p \in arr[r] THEN Add(cell[p], f[p]) ELSE cell[p]]
  BY DEF Drift
<1>4. ASSUME NEW p \in arr[r] PROVE InReach(cell'[p])
  <2>1. p \in Ptc /\ InBound(cell[p])
    BY <1>0, <1>1 DEF KeepInv, Inside
  <2>2. f[p] \in [Axis -> -G..G] /\ cell'[p] = Add(cell[p], f[p])
    BY <1>3, <2>1, ReachAssumption
  <2>3. \A d \in Axis : /\ cell[p][d] \in Int /\ f[p][d] \in -G..G
                        /\ cell[p][d] >= G /\ cell[p][d] < N + G
                        /\ cell'[p][d] = cell[p][d] + f[p][d]
    BY <1>0, <2>1, <2>2 DEF InBound, Add
  <2> QED
    BY <2>3, CellAssumption DEF InReach
<1>5. \A p \in Ptc : p \notin arr[r] => cell'[p] = cell[p]
  BY <1>3
<1>6. ASSUME NEW q \in Rank, q # r, NEW p \in arr[q]
      PROVE  cell'[p] = cell[p] /\ p \in Ptc /\ stage'[q] = stage[q]
  <2>1. p \in Ptc /\ p \notin arr[r]
    BY <1>0, <1>6 DEF KeepInv, Placed, HeldOnce, PackedOnce, SentOnce, GoneOnce,
                      NotHeld
  <2> QED
    BY <1>0, <1>1, <1>5, <1>6, <2>1
<1>7. ASSUME NEW q \in Rank, NEW z \in Zone, NEW p \in buf[q][z]
      PROVE  cell'[p] = cell[p]
  <2>1. p \in Ptc /\ p \notin arr[r]
    BY <1>0, <1>7 DEF KeepInv, Placed, HeldOnce, PackedOnce, SentOnce, GoneOnce,
                      NotHeld, NotPacked
  <2> QED
    BY <1>5, <2>1
<1>8. ASSUME NEW m \in net, NEW z \in Zone, NEW p \in m.load[z]
      PROVE  cell'[p] = cell[p]
  <2>1. p \in Ptc /\ p \notin arr[r]
    BY <1>0, <1>8 DEF KeepInv, Placed, HeldOnce, PackedOnce, SentOnce, GoneOnce,
                      NotHeld, NotSent
  <2> QED
    BY <1>5, <2>1
<1>9. Inside'
  BY <1>0, <1>1, <1>4, <1>6, <1>7, <1>8 DEF KeepInv, Inside, InReach, InBound
<1> QED
  BY <1>2, <1>9

\* Packing moves a particle from the array to the buffer of its zone.
LEMMA PackKeeps ==
  ASSUME KeepInv, NEW r \in Rank, Pack(r)
  PROVE  Inside' /\ \A p \in Ptc : Placed(p)'
<1>0. /\ TypeOK /\ stage \in [Rank -> Stages] /\ cell \in [Ptc -> [Axis -> Int]]
      /\ arr \in [Rank -> SUBSET Ptc] /\ buf \in [Rank -> [Zone -> SUBSET Ptc]]
      /\ \A m \in net : m.load \in [Zone -> SUBSET Ptc]
  BY DEF KeepInv, ZoneInv, MatchInv, TypeInv, TypeOK, Message
<1>1. /\ stage[r] = "pack" /\ stage' = [stage EXCEPT ![r] = "send"]
      /\ buf' = [buf EXCEPT ![r] = Packed(r)]
      /\ arr' = [arr EXCEPT ![r] = {p \in @ : ZoneOf(cell[p]) = Centre}]
      /\ cell' = [p \in Ptc |-> IF p \in arr[r] THEN Shift(cell[p], ZoneOf(cell[p]))
                                ELSE cell[p]]
      /\ UNCHANGED <<net, dropped, exited>>
  BY DEF Pack, At, Goto
<1>2. \A z \in Zone : buf[r][z] = {}
  BY <1>1 DEF KeepInv, ZoneInv, BufferZones
<1>3. \A p \in Ptc, q \in Rank :
        p \in arr'[q] <=> p \in arr[q] /\ (q = r => ZoneOf(cell[p]) = Centre)
  BY <1>0, <1>1
<1>4. \A p \in Ptc, q \in Rank, z \in Zone :
        p \in buf'[q][z] <=>
          IF q = r THEN z # Centre /\ p \in arr[r] /\ ZoneOf(cell[p]) = z
          ELSE p \in buf[q][z]
  BY <1>0, <1>1 DEF Packed
<1>5. \A p \in Ptc : p \in arr[r] =>
        InBound(Shift(cell[p], ZoneOf(cell[p]))) /\ ZoneOf(cell[p]) \in Zone
  BY <1>0, <1>1, ShiftInward DEF KeepInv, Inside
<1>6. ASSUME NEW p \in Ptc PROVE Placed(p)'
  <2>0. Placed(p)
    BY DEF KeepInv
  <2>1. CASE HeldOnce(p) /\ p \in arr[r]
    <3>1. /\ \A q \in Rank : p \in arr[q] <=> q = r
          /\ NotPacked(p) /\ NotSent(p) /\ NotGone(p)
      BY <2>1 DEF HeldOnce
    <3>2. CASE ZoneOf(cell[p]) = Centre
      <4>1. \A q \in Rank : p \in arr'[q] <=> q = r
        BY <1>3, <3>1, <3>2
      <4>2. NotPacked(p)'
        BY <1>4, <3>1, <3>2 DEF NotPacked
      <4>3. NotSent(p)' /\ NotGone(p)'
        BY <1>1, <3>1 DEF NotSent, NotGone
      <4> QED
        BY <4>1, <4>2, <4>3 DEF Placed, HeldOnce
    <3>3. CASE ZoneOf(cell[p]) # Centre
      <4>1. NotHeld(p)'
        BY <1>3, <3>1, <3>3 DEF NotHeld
      <4>2. \A q \in Rank, y \in Zone :
              p \in buf'[q][y] <=> q = r /\ y = ZoneOf(cell[p])
        BY <1>4, <2>1, <3>1, <3>3 DEF NotPacked
      <4>3. NotSent(p)' /\ NotGone(p)'
        BY <1>1, <3>1 DEF NotSent, NotGone
      <4> QED
        BY <1>5, <2>1, <4>1, <4>2, <4>3 DEF Placed, PackedOnce
    <3> QED
      BY <3>2, <3>3
  <2>2. CASE ~(HeldOnce(p) /\ p \in arr[r])
    <3>1. p \notin arr[r]
      BY <2>0, <2>2 DEF Placed, PackedOnce, SentOnce, GoneOnce, NotHeld
    <3>2. /\ \A q \in Rank : p \in arr'[q] <=> p \in arr[q]
          /\ \A q \in Rank, z \in Zone : p \in buf'[q][z] <=> p \in buf[q][z]
      BY <1>2, <1>3, <1>4, <3>1
    <3> QED
      BY <1>1, <2>0, <3>2, SamePlace
  <2> QED
    BY <2>1, <2>2
<1>7. \A p \in Ptc : p \in arr[r] => InBound(cell'[p])
  BY <1>1, <1>5
<1>8. \A p \in Ptc : p \notin arr[r] => cell'[p] = cell[p]
  BY <1>1
<1>9. ASSUME NEW q \in Rank, NEW p \in arr'[q]
      PROVE  IF stage'[q] = "pack" THEN InReach(cell'[p]) ELSE InBound(cell'[p])
  <2>1. p \in Ptc /\ p \in arr[q]
    BY <1>0, <1>1, <1>9
  <2>2. CASE q = r
    BY <1>0, <1>1, <1>7, <2>1, <2>2
  <2>3. CASE q # r
    <3>1. p \notin arr[r]
      BY <2>1, <2>3 DEF KeepInv, Placed, HeldOnce, PackedOnce, SentOnce, GoneOnce,
                        NotHeld
    <3>2. cell'[p] = cell[p] /\ stage'[q] = stage[q]
      BY <1>0, <1>1, <1>8, <2>1, <2>3, <3>1
    <3> QED
      BY <2>1, <3>2 DEF KeepInv, Inside, InReach, InBound
  <2> QED
    BY <2>2, <2>3
<1>10. ASSUME NEW q \in Rank, NEW z \in Zone, NEW p \in buf'[q][z]
       PROVE  InBound(cell'[p])
  <2>1. p \in Ptc
    BY <1>0, <1>1, <1>10 DEF Packed
  <2>2. CASE q = r
    BY <1>4, <1>7, <1>10, <2>1, <2>2
  <2>3. CASE q # r
    <3>1. p \in buf[q][z]
      BY <1>4, <1>10, <2>1, <2>3
    <3>2. p \notin arr[r]
      BY <2>1, <3>1 DEF KeepInv, Placed, HeldOnce, PackedOnce, SentOnce, GoneOnce,
                        NotHeld, NotPacked
    <3> QED
      BY <1>8, <2>1, <3>1, <3>2 DEF KeepInv, Inside, InBound
  <2> QED
    BY <2>2, <2>3
<1>11. ASSUME NEW m \in net', NEW z \in Zone, NEW p \in m.load[z]
       PROVE  InBound(cell'[p])
  <2>1. m \in net /\ p \in Ptc
    BY <1>0, <1>1, <1>11
  <2>2. p \notin arr[r]
    BY <1>11, <2>1 DEF KeepInv, Placed, HeldOnce, PackedOnce, SentOnce, GoneOnce,
                       NotHeld, NotSent
  <2> QED
    BY <1>8, <1>11, <2>1, <2>2 DEF KeepInv, Inside, InBound
<1>12. Inside'
  BY <1>9, <1>10, <1>11 DEF Inside
<1> QED
  BY <1>6, <1>12

\* A local copy moves particles to the receiving buffers of the same rank.
LEMMA CopyKeeps ==
  ASSUME KeepInv, NEW r \in Rank, LocalCopy(r)
  PROVE  Inside' /\ \A p \in Ptc : Placed(p)'
<1> DEFINE k == phase[r]
<1>0. /\ TypeOK /\ stage \in [Rank -> Stages] /\ k \in Phases
      /\ phase \in [Rank -> Phases]
      /\ arr \in [Rank -> SUBSET Ptc] /\ buf \in [Rank -> [Zone -> SUBSET Ptc]]
  BY DEF KeepInv, ZoneInv, MatchInv, TypeInv, TypeOK
<1>1. /\ stage[r] = "send" /\ NextPhase(r)
      /\ buf' = [buf EXCEPT ![r] = Merge(Emptied(r, k), Load(r, k))]
      /\ UNCHANGED <<arr, cell, net, dropped, exited>>
  BY DEF LocalCopy, At
<1> HIDE DEF k
<1>2. stage'[r] # "pack" /\ \A q \in Rank : q # r => stage'[q] = stage[q]
  BY <1>0, <1>1, NextPhaseFacts
<1>3. \A p \in Ptc, q \in Rank, z \in Zone :
        p \in buf'[q][z] <=>
          IF q = r THEN \/ z \notin Sent(k) /\ p \in buf[r][z]
                        \/ z \in Inward(k) /\ p \in buf[r][Outward(k, z)]
          ELSE p \in buf[q][z]
  <2>1. \A p \in Ptc, z \in Zone :
          p \in Merge(Emptied(r, k), Load(r, k))[z] <=>
            \/ z \notin Sent(k) /\ p \in buf[r][z]
            \/ z \in Inward(k) /\ p \in buf[r][Outward(k, z)]
    BY <1>0, LoadMembers DEF Merge
  <2> QED
    BY <1>0, <1>1, <2>1
<1>4. /\ \A z \in Inward(k) : z \in Zone /\ Outward(k, z) \in Sent(k)
      /\ \A z \in Sent(k) : z \in Zone /\ \E y \in Inward(k) : z = Outward(k, y)
      /\ \A y, z \in Inward(k) : Outward(k, y) = Outward(k, z) => y = z
  BY <1>0, PassMoves
<1>5. ASSUME NEW p \in Ptc PROVE Placed(p)'
  <2>0. Placed(p)
    BY DEF KeepInv
  <2>1. CASE \E y \in Zone : p \in buf[r][y]
    <3>1. /\ PackedOnce(p) /\ NotHeld(p) /\ NotSent(p) /\ NotGone(p)
      BY <2>0, <2>1 DEF Placed, HeldOnce, PackedOnce, SentOnce, GoneOnce, NotPacked
    <3>2. PICK y \in Zone : \A q \in Rank, z \in Zone :
                              p \in buf[q][z] <=> q = r /\ z = y
      BY <2>1, <3>1 DEF PackedOnce
    <3>3. \E x \in Zone : \A q \in Rank, z \in Zone :
                            p \in buf'[q][z] <=> q = r /\ z = x
      <4>1. CASE y \in Sent(k)
        <5>1. PICK x \in Inward(k) : y = Outward(k, x)
          BY <1>4, <4>1
        <5>2. \A q \in Rank, z \in Zone : p \in buf'[q][z] <=> q = r /\ z = x
          BY <1>3, <1>4, <3>2, <4>1, <5>1
        <5> QED
          BY <1>4, <5>2
      <4>2. CASE y \notin Sent(k)
        <5>1. \A q \in Rank, z \in Zone : p \in buf'[q][z] <=> q = r /\ z = y
          BY <1>3, <1>4, <3>2, <4>2
        <5> QED
          BY <5>1
      <4> QED
        BY <4>1, <4>2
    <3>4. NotHeld(p)' /\ NotSent(p)' /\ NotGone(p)'
      BY <1>1, <3>1 DEF NotHeld, NotSent, NotGone
    <3> QED
      BY <3>3, <3>4 DEF Placed, PackedOnce
  <2>2. CASE \A y \in Zone : p \notin buf[r][y]
    <3>1. \A q \in Rank, z \in Zone : p \in buf'[q][z] <=> p \in buf[q][z]
      BY <1>3, <1>4, <2>2
    <3> QED
      BY <1>1, <2>0, <3>1, SamePlace
  <2> QED
    BY <2>1, <2>2
<1>6. \A q \in Rank, z \in Zone : \A p \in buf'[q][z] : InBound(cell[p])
  <2>1. \A q \in Rank, z \in Zone : buf'[q][z] \subseteq Ptc
    BY <1>0, <1>1, LoadType DEF Merge
  <2> QED
    BY <1>3, <1>4, <2>1 DEF KeepInv, Inside
<1>7. Inside'
  <2>1. \A m \in net', z \in Zone : \A p \in m.load[z] : InBound(cell[p])
    BY <1>1 DEF KeepInv, Inside
  <2> QED
    BY <1>1, <1>2, <1>6, <2>1, InsideKept DEF KeepInv
<1> QED
  BY <1>5, <1>7

\* A send moves particles from the buffers it empties to one message, or out.
LEMMA SendKeeps ==
  ASSUME KeepInv, NEW r \in Rank, Send(r)
  PROVE  Inside' /\ \A p \in Ptc : Placed(p)'
<1> DEFINE k == phase[r]
           mes == [src |-> r, dst |-> Dest(r, k), step |-> step[r],
                   phase |-> k, load |-> Load(r, k)]
<1>0. /\ stage \in [Rank -> Stages] /\ k \in Phases
      /\ arr \in [Rank -> SUBSET Ptc] /\ buf \in [Rank -> [Zone -> SUBSET Ptc]]
      /\ net \subseteq Message
      /\ \A m \in net : m.load \in [Zone -> SUBSET Ptc]
  BY DEF KeepInv, ZoneInv, MatchInv, TypeInv, TypeOK, Message
<1>1. /\ stage[r] = "send" /\ stage' = [stage EXCEPT ![r] = "recv"]
      /\ buf' = [buf EXCEPT ![r] = Emptied(r, k)]
      /\ UNCHANGED <<arr, cell, dropped>>
      /\ \/ /\ exited' = exited \cup UNION {Load(r, k)[z] : z \in Zone}
            /\ net' = net
         \/ net' = net \cup {mes} /\ exited' = exited
  BY DEF Send, At, Goto
<1>2. mes.load = Load(r, k)
  OBVIOUS
<1> HIDE DEF k, mes
<1>3. Load(r, k) \in [Zone -> SUBSET Ptc]
  BY <1>0, LoadType
<1>4. /\ \A z \in Inward(k) : z \in Zone /\ Outward(k, z) \in Sent(k)
      /\ \A z \in Sent(k) : z \in Zone /\ \E y \in Inward(k) : z = Outward(k, y)
      /\ \A y, z \in Inward(k) : Outward(k, y) = Outward(k, z) => y = z
  BY <1>0, PassMoves
<1>5. \A p \in Ptc, z \in Zone : p \in Load(r, k)[z] <=>
        z \in Inward(k) /\ p \in buf[r][Outward(k, z)]
  BY <1>0, LoadMembers
<1>6. \A p \in Ptc, q \in Rank, z \in Zone :
        p \in buf'[q][z] <=> p \in buf[q][z] /\ (q = r => z \notin Sent(k))
  BY <1>0, <1>1, LoadMembers
<1>7. ASSUME NEW p \in Ptc PROVE Placed(p)'
  <2>0. Placed(p)
    BY DEF KeepInv
  <2>1. CASE \E y \in Sent(k) : p \in buf[r][y]
    <3>1. PICK y \in Sent(k) : p \in buf[r][y]
      BY <2>1
    <3>2. /\ PackedOnce(p) /\ NotHeld(p) /\ NotSent(p) /\ NotGone(p)
      BY <1>4, <2>0, <3>1 DEF Placed, HeldOnce, PackedOnce, SentOnce, GoneOnce,
                              NotPacked
    <3>3. \A q \in Rank, z \in Zone : p \in buf[q][z] <=> q = r /\ z = y
      BY <1>4, <3>1, <3>2 DEF PackedOnce
    <3>4. NotPacked(p)' /\ NotHeld(p)'
      BY <1>1, <1>6, <3>2, <3>3 DEF NotPacked, NotHeld
    <3>5. PICK x \in Inward(k) : y = Outward(k, x)
      BY <1>4
    <3>6. x \in Zone /\ \A z \in Zone : p \in Load(r, k)[z] <=> z = x
      BY <1>4, <1>5, <3>3, <3>5
    <3>7. CASE net' = net
      <4>1. exited' = exited \cup UNION {Load(r, k)[z] : z \in Zone} \/ exited' = exited
        BY <1>1
      <4>2. CASE exited' = exited \cup UNION {Load(r, k)[z] : z \in Zone}
        <5>1. p \in exited'
          BY <3>6, <4>2
        <5>2. NotSent(p)' /\ p \notin dropped'
          BY <1>1, <3>2, <3>7 DEF NotSent, NotGone
        <5> QED
          BY <3>4, <5>1, <5>2 DEF Placed, GoneOnce
      <4>3. CASE net' = net \cup {mes}
        <5>1. FALSE
          BY <1>2, <3>2, <3>6, <3>7, <4>3 DEF NotSent
        <5> QED
          BY <5>1
      <4> QED
        BY <1>1, <4>2, <4>3
    <3>8. CASE net' = net \cup {mes} /\ exited' = exited
      <4>1. \A n \in net', z \in Zone : p \in n.load[z] <=> n = mes /\ z = x
        BY <1>2, <3>2, <3>6, <3>8 DEF NotSent
      <4>2. mes \in net'
        BY <3>8
      <4>3. NotGone(p)'
        BY <1>1, <3>2, <3>8 DEF NotGone
      <4> QED
        BY <3>4, <3>6, <4>1, <4>2, <4>3 DEF Placed, SentOnce
    <3> QED
      BY <1>1, <3>7, <3>8
  <2>2. CASE \A y \in Sent(k) : p \notin buf[r][y]
    <3>1. \A z \in Zone : p \notin Load(r, k)[z]
      BY <1>4, <1>5, <2>2
    <3>2. \A q \in Rank, z \in Zone : p \in buf'[q][z] <=> p \in buf[q][z]
      BY <1>6, <2>2
    <3>3. /\ \A m \in net', z \in Zone : p \in m.load[z] => m \in net
          /\ \A m \in net, z \in Zone : p \in m.load[z] => m \in net'
      BY <1>1, <1>2, <3>1
    <3>4. p \in exited' <=> p \in exited
      BY <1>1, <3>1
    <3>5. /\ \A q \in Rank : p \in arr'[q] <=> p \in arr[q]
          /\ p \in dropped' <=> p \in dropped
      BY <1>1
    <3> QED
      BY <2>0, <3>2, <3>3, <3>4, <3>5, SamePlace
  <2> QED
    BY <2>1, <2>2
<1>8. \A q \in Rank, z \in Zone : \A p \in buf'[q][z] : InBound(cell[p])
  <2>1. \A q \in Rank, z \in Zone : buf'[q][z] \subseteq buf[q][z]
    BY <1>0, <1>1 DEF Emptied
  <2> QED
    BY <2>1 DEF KeepInv, Inside
<1>9. ASSUME NEW m \in net', NEW z \in Zone, NEW p \in m.load[z]
      PROVE  InBound(cell[p])
  <2>1. CASE m \in net
    BY <1>9, <2>1 DEF KeepInv, Inside
  <2>2. CASE m = mes
    <3>1. p \in Ptc /\ p \in Load(r, k)[z]
      BY <1>2, <1>3, <1>9, <2>2
    <3> QED
      BY <1>4, <1>5, <3>1 DEF KeepInv, Inside
  <2> QED
    BY <1>1, <2>1, <2>2
<1>10. Inside'
  <2>1. /\ stage[r] # "pack" /\ stage'[r] # "pack"
        /\ \A q \in Rank : q # r => stage'[q] = stage[q]
    BY <1>0, <1>1
  <2> QED
    BY <1>1, <1>8, <1>9, <2>1, InsideKept DEF KeepInv
<1> QED
  BY <1>7, <1>10

\* A receive moves the particles of one message to the buffers of its rank.
LEMMA RecvKeeps ==
  ASSUME KeepInv, NEW r \in Rank, Recv(r)
  PROVE  Inside' /\ \A p \in Ptc : Placed(p)'
<1>0. /\ stage \in [Rank -> Stages] /\ phase \in [Rank -> Phases]
      /\ arr \in [Rank -> SUBSET Ptc] /\ buf \in [Rank -> [Zone -> SUBSET Ptc]]
      /\ net \subseteq Message
      /\ \A m \in net : m.load \in [Zone -> SUBSET Ptc]
  BY DEF KeepInv, ZoneInv, MatchInv, TypeInv, TypeOK, Message
<1>1. PICK m \in Matching(r, phase[r]) :
        /\ net' = net \ {m}
        /\ buf' = [buf EXCEPT ![r] = Merge(buf[r], m.load)]
  BY <1>0 DEF Recv, KeepInv, Appends
<1>2. /\ At(r, "recv") /\ NextPhase(r)
      /\ UNCHANGED <<arr, cell, dropped, exited>>
  BY DEF Recv
<1>3. m \in net
  BY <1>1 DEF Matching, Oldest
<1>4. stage'[r] # "pack" /\ \A q \in Rank : q # r => stage'[q] = stage[q]
  BY <1>0, <1>2, NextPhaseFacts
<1>5. \A p \in Ptc, q \in Rank, z \in Zone :
        p \in buf'[q][z] <=> p \in buf[q][z] \/ (q = r /\ p \in m.load[z])
  BY <1>0, <1>1 DEF Merge
<1>6. ASSUME NEW p \in Ptc PROVE Placed(p)'
  <2>0. Placed(p)
    BY DEF KeepInv
  <2>1. CASE \E y \in Zone : p \in m.load[y]
    <3>1. PICK y \in Zone : p \in m.load[y]
      BY <2>1
    <3>2. SentOnce(p) /\ NotHeld(p) /\ NotPacked(p) /\ NotGone(p)
      BY <1>3, <2>0, <3>1 DEF Placed, HeldOnce, PackedOnce, SentOnce, GoneOnce,
                              NotSent
    <3>3. \A n \in net, z \in Zone : p \in n.load[z] <=> n = m /\ z = y
      BY <1>3, <3>1, <3>2 DEF SentOnce
    <3>4. NotSent(p)' /\ NotHeld(p)' /\ NotGone(p)'
      BY <1>1, <1>2, <3>2, <3>3 DEF NotSent, NotHeld, NotGone
    <3>5. \A q \in Rank, z \in Zone : p \in buf'[q][z] <=> q = r /\ z = y
      BY <1>3, <1>5, <3>2, <3>3 DEF NotPacked
    <3> QED
      BY <3>4, <3>5 DEF Placed, PackedOnce
  <2>2. CASE \A y \in Zone : p \notin m.load[y]
    <3>1. \A q \in Rank, z \in Zone : p \in buf'[q][z] <=> p \in buf[q][z]
      BY <1>5, <2>2
    <3>2. /\ \A n \in net', z \in Zone : p \in n.load[z] => n \in net
          /\ \A n \in net, z \in Zone : p \in n.load[z] => n \in net'
      BY <1>1, <2>2
    <3>3. /\ \A q \in Rank : p \in arr'[q] <=> p \in arr[q]
          /\ (p \in dropped' <=> p \in dropped) /\ (p \in exited' <=> p \in exited)
      BY <1>2
    <3> QED
      BY <2>0, <3>1, <3>2, <3>3, SamePlace
  <2> QED
    BY <2>1, <2>2
<1>7. \A q \in Rank, z \in Zone : \A p \in buf'[q][z] : InBound(cell[p])
  <2>1. \A q \in Rank, z \in Zone : buf'[q][z] \subseteq Ptc
    BY <1>0, <1>1, <1>3 DEF Merge
  <2> QED
    BY <1>3, <1>5, <2>1 DEF KeepInv, Inside
<1>8. Inside'
  <2>1. \A n \in net', z \in Zone : \A p \in n.load[z] : InBound(cell[p])
    BY <1>1 DEF KeepInv, Inside
  <2>2. stage[r] # "pack"
    BY <1>2 DEF At
  <2> QED
    BY <1>2, <1>4, <1>7, <2>1, <2>2, InsideKept DEF KeepInv
<1> QED
  BY <1>6, <1>8

LEMMA RecvNothingKeeps ==
  ASSUME KeepInv, NEW r \in Rank, RecvNothing(r)
  PROVE  Inside' /\ \A p \in Ptc : Placed(p)'
<1>0. stage \in [Rank -> Stages] /\ phase \in [Rank -> Phases]
  BY DEF KeepInv, ZoneInv, MatchInv, TypeInv, TypeOK
<1>1. /\ stage[r] = "recv" /\ NextPhase(r)
      /\ UNCHANGED <<arr, buf, cell, net, dropped, exited>>
  BY DEF RecvNothing, At
<1>2. stage'[r] # "pack" /\ \A q \in Rank : q # r => stage'[q] = stage[q]
  BY <1>0, <1>1, NextPhaseFacts
<1>3. Inside'
  <2>1. /\ \A q \in Rank, z \in Zone : \A p \in buf'[q][z] : InBound(cell[p])
        /\ \A m \in net', z \in Zone : \A p \in m.load[z] : InBound(cell[p])
    BY <1>1 DEF KeepInv, Inside
  <2> QED
    BY <1>1, <1>2, <2>1, InsideKept DEF KeepInv
<1>4. \A p \in Ptc : Placed(p)'
  BY <1>1, SamePlace DEF KeepInv
<1> QED
  BY <1>3, <1>4

\* Unpacking moves particles to the array, or drops them when it is full.
LEMMA UnpackKeeps ==
  ASSUME KeepInv, NEW r \in Rank, Unpack(r)
  PROVE  Inside' /\ \A p \in Ptc : Placed(p)'
<1>0. /\ stage \in [Rank -> Stages]
      /\ arr \in [Rank -> SUBSET Ptc] /\ buf \in [Rank -> [Zone -> SUBSET Ptc]]
  BY DEF KeepInv, ZoneInv, MatchInv, TypeInv, TypeOK
<1>1. /\ stage[r] = "unpack" /\ stage' = [stage EXCEPT ![r] = "tidy"]
      /\ buf' = [buf EXCEPT ![r][Centre] = {}]
      /\ UNCHANGED <<cell, net, exited>>
  BY DEF Unpack, At, Goto
<1>2. PICK kept \in SUBSET buf[r][Centre] :
        /\ arr' = [arr EXCEPT ![r] = @ \cup kept]
        /\ dropped' = dropped \cup (buf[r][Centre] \ kept)
  BY DEF Unpack
<1>3. \A p \in Ptc, q \in Rank, z \in Zone :
        p \in buf'[q][z] <=> p \in buf[q][z] /\ ~(q = r /\ z = Centre)
  BY <1>0, <1>1
<1>4. \A p \in Ptc, q \in Rank :
        p \in arr'[q] <=> p \in arr[q] \/ (q = r /\ p \in kept)
  BY <1>0, <1>2
<1>5. Centre \in Zone
  BY VectorTypes
<1>6. ASSUME NEW p \in Ptc PROVE Placed(p)'
  <2>0. Placed(p)
    BY DEF KeepInv
  <2>1. CASE p \in buf[r][Centre]
    <3>1. PackedOnce(p) /\ NotHeld(p) /\ NotSent(p) /\ NotGone(p)
      BY <1>5, <2>0, <2>1 DEF Placed, HeldOnce, PackedOnce, SentOnce, GoneOnce,
                              NotPacked
    <3>2. \A q \in Rank, z \in Zone : p \in buf[q][z] <=> q = r /\ z = Centre
      BY <1>5, <2>1, <3>1 DEF PackedOnce
    <3>3. NotPacked(p)' /\ NotSent(p)'
      BY <1>1, <1>3, <3>1, <3>2 DEF NotPacked, NotSent
    <3>4. CASE p \in kept
      <4>1. NotGone(p)'
        BY <1>1, <1>2, <3>1, <3>4 DEF NotGone
      <4>2. \A q \in Rank : p \in arr'[q] <=> q = r
        BY <1>4, <3>1, <3>4 DEF NotHeld
      <4> QED
        BY <3>3, <4>1, <4>2 DEF Placed, HeldOnce
    <3>5. CASE p \notin kept
      <4>1. p \in dropped' /\ p \notin exited'
        BY <1>1, <1>2, <2>1, <3>1, <3>5 DEF NotGone
      <4>2. NotHeld(p)'
        BY <1>4, <3>1, <3>5 DEF NotHeld
      <4> QED
        BY <3>3, <4>1, <4>2 DEF Placed, GoneOnce
    <3> QED
      BY <3>4, <3>5
  <2>2. CASE p \notin buf[r][Centre]
    <3>1. /\ \A q \in Rank : p \in arr'[q] <=> p \in arr[q]
          /\ \A q \in Rank, z \in Zone : p \in buf'[q][z] <=> p \in buf[q][z]
          /\ (p \in dropped' <=> p \in dropped) /\ (p \in exited' <=> p \in exited)
          /\ net' = net
      BY <1>1, <1>2, <1>3, <1>4, <2>2
    <3> QED
      BY <2>0, <3>1, SamePlace
  <2> QED
    BY <2>1, <2>2
<1>7. Inside'
  <2>1. ASSUME NEW q \in Rank, NEW p \in arr'[q]
        PROVE  IF stage'[q] = "pack" THEN InReach(cell'[p]) ELSE InBound(cell'[p])
    <3>1. p \in Ptc /\ cell' = cell
      <4>1. kept \subseteq Ptc
        BY <1>0, <1>2, <1>5
      <4> QED
        BY <1>0, <1>1, <1>2, <2>1, <4>1
    <3>2. CASE p \in arr[q]
      <4>1. stage'[q] = "pack" <=> stage[q] = "pack"
        BY <1>0, <1>1
      <4>2. IF stage[q] = "pack" THEN InReach(cell[p]) ELSE InBound(cell[p])
        BY <3>2 DEF KeepInv, Inside
      <4> QED
        BY <3>1, <4>1, <4>2 DEF InReach, InBound
    <3>3. CASE q = r /\ p \in kept
      <4>1. InBound(cell[p]) /\ stage'[q] # "pack"
        BY <1>0, <1>1, <1>5, <3>3 DEF KeepInv, Inside
      <4> QED
        BY <3>1, <4>1 DEF InBound
    <3> QED
      BY <1>4, <2>1, <3>1, <3>2, <3>3
  <2>2. \A q \in Rank, z \in Zone : \A p \in buf'[q][z] : InBound(cell'[p])
    <3>1. \A q \in Rank, z \in Zone : buf'[q][z] \subseteq buf[q][z]
      BY <1>0, <1>1, <1>5
    <3> QED
      BY <1>1, <3>1 DEF KeepInv, Inside, InBound
  <2>3. \A m \in net', z \in Zone : \A p \in m.load[z] : InBound(cell'[p])
    BY <1>1 DEF KeepInv, Inside, InBound
  <2> QED
    BY <2>1, <2>2, <2>3 DEF Inside
<1> QED
  BY <1>6, <1>7

\* clear_guard_cells finds nothing to erase.
LEMMA TidyKeeps ==
  ASSUME KeepInv, NEW r \in Rank, Tidy(r)
  PROVE  Inside' /\ \A p \in Ptc : Placed(p)'
<1>0. /\ stage \in [Rank -> Stages]
      /\ arr \in [Rank -> SUBSET Ptc]
  BY DEF KeepInv, ZoneInv, MatchInv, TypeInv, TypeOK
<1>1. /\ stage[r] = "tidy"
      /\ arr' = [arr EXCEPT ![r] = {p \in arr[r] : InBound(cell[p])}]
      /\ \A q \in Rank : q # r => stage'[q] = stage[q]
      /\ stage'[r] # "pack"
      /\ UNCHANGED <<buf, cell, net, dropped, exited>>
  BY <1>0 DEF Tidy, At, Goto
<1>2. \A p \in arr[r] : InBound(cell[p])
  BY <1>1 DEF KeepInv, Inside
<1>3. arr' = arr
  BY <1>0, <1>1, <1>2
<1>4. Inside'
  <2>1. /\ \A q \in Rank, z \in Zone : \A p \in buf'[q][z] : InBound(cell[p])
        /\ \A m \in net', z \in Zone : \A p \in m.load[z] : InBound(cell[p])
    BY <1>1 DEF KeepInv, Inside
  <2> QED
    BY <1>1, <1>3, <2>1, InsideKept DEF KeepInv
<1>5. \A p \in Ptc : Placed(p)'
  BY <1>1, <1>3, SamePlace DEF KeepInv
<1> QED
  BY <1>4, <1>5

LEMMA KeepNext == KeepInv /\ [Next]_vars => KeepInv'
<1> SUFFICES ASSUME KeepInv, [Next]_vars PROVE KeepInv'
  OBVIOUS
<1>1. ZoneInv' /\ Appends'
  BY ZoneNext DEF KeepInv, Appends
<1>2. CASE \E r \in Rank : RankStep(r)
  BY <1>1, <1>2, DriftKeeps, PackKeeps, CopyKeeps, SendKeeps, RecvKeeps,
     RecvNothingKeeps, UnpackKeeps, TidyKeeps DEF RankStep, KeepInv
<1>3. CASE UNCHANGED vars
  <2>1. Inside'
    BY <1>3 DEF vars, KeepInv, Inside, InReach, InBound
  <2>2. \A p \in Ptc : Placed(p)'
    BY <1>3, SamePlace DEF vars, KeepInv
  <2> QED
    BY <1>1, <2>1, <2>2 DEF KeepInv
<1> QED
  BY <1>2, <1>3 DEF Next, Finished

\* A rank starts with the particles of its own domain.
LEMMA KeepInit == Init /\ Appends => KeepInv
<1> SUFFICES ASSUME Init, Appends PROVE KeepInv
  OBVIOUS
<1>1. /\ arr = [r \in Rank |-> {p \in Ptc : InDomain(r, pos[p])}]
      /\ buf = [r \in Rank |-> [z \in Zone |-> {}]]
      /\ stage = [r \in Rank |-> "drift"]
      /\ cell = [p \in Ptc |-> LocalCell(Owner(pos[p]), pos[p])]
      /\ net = {} /\ dropped = {} /\ exited = {}
      /\ \A p \in Ptc : pos[p] \in Domain
  BY DEF Init
<1>2. ASSUME NEW p \in Ptc PROVE Placed(p)
  <2>1. \A q \in Rank : p \in arr[q] <=> q = Owner(pos[p])
    BY <1>1, OneOwner
  <2>2. Owner(pos[p]) \in Rank
    BY <1>1, OneOwner
  <2>3. NotPacked(p) /\ NotSent(p) /\ NotGone(p)
    BY <1>1 DEF NotPacked, NotSent, NotGone
  <2> QED
    BY <2>1, <2>2, <2>3 DEF Placed, HeldOnce
<1>3. ASSUME NEW q \in Rank, NEW p \in arr[q] PROVE InBound(cell[p])
  <2>1. p \in Ptc /\ InDomain(q, pos[p]) /\ pos[p] \in Domain
    BY <1>1
  <2>2. cell[p] = LocalCell(q, pos[p])
    BY <1>1, <2>1, OneOwner
  <2>3. \A d \in Axis : /\ q[d] * N \in Int /\ pos[p][d] \in Int
                        /\ q[d] * N <= pos[p][d]
                        /\ pos[p][d] < q[d] * N + N
    <3>1. \A d \in Axis : q[d] \in Int /\ pos[p][d] \in Int
      BY <2>1, RankCoord, VectorTypes
    <3>2. \A x \in Int : (x + 1) * N = x * N + N /\ x * N \in Int
      BY CellAssumption
    <3> QED
      BY <2>1, <3>1, <3>2 DEF InDomain
  <2> QED
    BY <2>2, <2>3, CellAssumption DEF LocalCell, InBound
<1>4. Inside
  BY <1>1, <1>3 DEF Inside
<1> QED
  BY <1>2, <1>4, ZoneInit DEF KeepInv

LEMMA AppendsWhen ==
  ASSUME Dim <= 2 \/ CudaMPI
  PROVE  Appends
<1> SUFFICES ASSUME NEW k \in Phases, Dim <= 2 PROVE PhaseAxis(k) < 3
  BY DEF Appends, AtOffset, Batched
<1> QED
  BY PhaseFacts, DimAssumption DEF Phases, Axis

\* No particle is ever lost or doubled by the exchange: in one and two
\* dimensions, and in three on a device with device-aware MPI, each particle is
\* at all times in exactly one array, buffer or message, or has been dropped by
\* a full array or left the domain (send_particles_impl, ptc_updater::update).
THEOREM ParticlesConserved ==
  ASSUME Dim <= 2 \/ CudaMPI
  PROVE  Spec => []Accounted
<1>1. KeepInv => Accounted
  BY OnePlace DEF KeepInv, Accounted
<1>2. Init => KeepInv
  BY AppendsWhen, KeepInit
<1> QED
  BY <1>1, <1>2, KeepNext, PTL DEF Spec

-----------------------------------------------------------------------------
(* Positions *)

\* Wrap on one axis.
Turn(d, n) ==
  IF ~Periodic[d] THEN n
  ELSE IF n < 0 THEN n + Dims[d] * N
  ELSE IF n >= Dims[d] * N THEN n - Dims[d] * N
  ELSE n

\* Position n of axis d is beyond an open boundary.
Over(d, n) == ~Periodic[d] /\ (n < 0 \/ n >= Dims[d] * N)

\* Sizes along one axis.
LEMMA Extent ==
  ASSUME NEW d \in Axis
  PROVE  /\ N \in Nat \ {0} /\ G \in Nat \ {0} /\ G <= N
         /\ Dims[d] \in Nat \ {0}
         /\ Dims[d] * N \in Nat /\ N <= Dims[d] * N
         /\ (Dims[d] - 1) * N = Dims[d] * N - N
<1>1. /\ N \in Nat \ {0} /\ G \in Nat \ {0} /\ G <= N /\ Dims[d] \in Nat \ {0}
  BY CellAssumption, DimsAssumption
<1>2. /\ 1 * N <= Dims[d] * N /\ Dims[d] * N \in Nat
  BY <1>1, ScaleMonotone
<1>3. \A a \in Int : (a - 1) * N = a * N - N
  BY <1>1
<1> QED
  BY <1>1, <1>2, <1>3

\* Global on one axis.
LEMMA GlobalAt ==
  ASSUME NEW r \in Rank, NEW z \in Zone, NEW c \in [Axis -> Int], NEW d \in Axis
  PROVE  /\ r[d] \in Int /\ z[d] \in Int
         /\ (r[d] + z[d]) * N + c[d] - G \in Int
         /\ Global(r, z, c)[d] = Turn(d, (r[d] + z[d]) * N + c[d] - G)
<1>1. r[d] \in Int /\ z[d] \in Int /\ c[d] \in Int
  BY RankCoord DEF Zone
<1>2. N \in Int /\ G \in Int
  BY CellAssumption
<1>3. \A i \in Int : i * N \in Int
  BY <1>2
<1> QED
  BY <1>1, <1>2, <1>3 DEF Global, Wrap, Turn

\* Two global positions are equal if they are on every axis.
LEMMA GlobalEq ==
  ASSUME NEW r \in Rank, NEW y \in Zone, NEW b \in [Axis -> Int],
         NEW q \in Rank, NEW z \in Zone, NEW c \in [Axis -> Int],
         \A d \in Axis : Turn(d, (r[d] + y[d]) * N + b[d] - G)
                           = Turn(d, (q[d] + z[d]) * N + c[d] - G)
  PROVE  Global(r, y, b) = Global(q, z, c)
<1>1. \A d \in Axis : Global(r, y, b)[d] = Global(q, z, c)[d]
  BY GlobalAt
<1> DEFINE x == [d \in Axis |-> Turn(d, (r[d] + y[d]) * N + b[d] - G)]
<1>2. \A a \in Rank, v \in Zone, e \in [Axis -> Int] :
        Global(a, v, e) = [d \in Axis |-> Global(a, v, e)[d]]
  BY DEF Global, Wrap
<1> QED
  BY <1>1, <1>2

\* Inside the domain nothing wraps.
LEMMA TurnInside ==
  ASSUME NEW d \in Axis, NEW n \in Int, 0 <= n, n < Dims[d] * N
  PROVE  Turn(d, n) = n /\ ~Over(d, n)
  BY Extent DEF Turn, Over

\* One hop along an axis: from rank i to its neighbour, a rank or none.
LEMMA TurnHop ==
  ASSUME NEW d \in Axis, NEW i \in 0..(Dims[d] - 1), NEW e \in Int,
         0 <= e, e < N
  PROVE  /\ ~Periodic[d] => Over(d, (-1) * N + e) /\ Over(d, Dims[d] * N + e)
         /\ Periodic[d] =>
              /\ Turn(d, (-1) * N + e) = Turn(d, (Dims[d] - 1) * N + e)
              /\ Turn(d, Dims[d] * N + e) = Turn(d, 0 * N + e)
         /\ Turn(d, i * N + e) = i * N + e
         /\ 0 <= i * N + e /\ i * N + e < Dims[d] * N
<1> DEFINE L == Dims[d] * N
<1>1. /\ N \in Nat \ {0} /\ L \in Nat /\ N <= L /\ (Dims[d] - 1) * N = L - N
      /\ (-1) * N = -N /\ 0 * N = 0 /\ Dims[d] \in Nat \ {0}
  BY Extent
<1>2. /\ 0 * N <= i * N /\ i * N <= (Dims[d] - 1) * N /\ i * N \in Int
  BY <1>1, ScaleMonotone
<1>3. /\ ~Periodic[d] => Over(d, -N + e) /\ Over(d, L + e)
      /\ Periodic[d] =>
           /\ Turn(d, -N + e) = L - N + e
           /\ Turn(d, L - N + e) = L - N + e
           /\ Turn(d, L + e) = e /\ Turn(d, 0 + e) = e
  <2> DEFINE T(n) == IF ~Periodic[d] THEN n ELSE IF n < 0 THEN n + L
                     ELSE IF n >= L THEN n - L ELSE n
  <2>1. \A n : Turn(d, n) = T(n)
    BY DEF Turn
  <2>2. \A n : Over(d, n) <=> ~Periodic[d] /\ (n < 0 \/ n >= L)
    BY DEF Over
  <2>3. N \in Int /\ L \in Int /\ e \in Int /\ 0 <= e /\ e < N /\ N <= L
    BY <1>1
  <2> HIDE DEF L
  <2> QED
    BY <2>1, <2>2, <2>3
<1>4. /\ 0 <= i * N + e /\ i * N + e < L /\ i * N + e \in Int
  <2> DEFINE m == i * N
  <2>1. m \in Int /\ 0 <= m /\ m <= L - N /\ L \in Int /\ N \in Int
    BY <1>1, <1>2
  <2> HIDE DEF m, L
  <2>2. 0 <= m + e /\ m + e < L /\ m + e \in Int
    BY <2>1
  <2> QED
    BY <2>2 DEF m
<1>5. Turn(d, i * N + e) = i * N + e
  BY <1>4, TurnInside
<1> QED
  BY <1>1, <1>3, <1>4, <1>5

\* The neighbour on one axis, as a coordinate; -1 stands for none.
Beside(d, i, s) ==
  IF i + s \in 0..(Dims[d] - 1) THEN i + s
  ELSE IF ~Periodic[d] THEN -1
  ELSE IF i + s < 0 THEN Dims[d] - 1
  ELSE 0

\* The neighbour of a rank is one coordinate away.
LEMMA NeighborBeside ==
  ASSUME NEW r \in Rank, NEW d \in Axis, NEW s \in {-1, 1}
  PROVE  LET i == Beside(d, r[d], s) IN
         /\ Neighbor(r, d, s) = PROC_NULL <=> i = -1
         /\ i # -1 => /\ Neighbor(r, d, s) = [r EXCEPT ![d] = i]
                      /\ i \in 0..(Dims[d] - 1)
<1>1. /\ Dims[d] \in Nat \ {0} /\ r[d] \in 0..(Dims[d] - 1)
  BY RankCoord
<1>2. \A i \in 0..(Dims[d] - 1) :
        /\ [r EXCEPT ![d] = i] \in Rank
        /\ [r EXCEPT ![d] = i] # PROC_NULL
  BY RankExcept, NullIsNoRank
<1>3. /\ 0 \in 0..(Dims[d] - 1) /\ Dims[d] - 1 \in 0..(Dims[d] - 1)
      /\ \A i \in 0..(Dims[d] - 1) : i # -1
  BY <1>1
<1>4. CASE r[d] + s \in 0..(Dims[d] - 1)
  BY <1>2, <1>3, <1>4 DEF Neighbor, Beside
<1>5. CASE r[d] + s \notin 0..(Dims[d] - 1) /\ ~Periodic[d]
  BY <1>3, <1>5 DEF Neighbor, Beside
<1>6. CASE r[d] + s \notin 0..(Dims[d] - 1) /\ Periodic[d] /\ r[d] + s < 0
  BY <1>2, <1>3, <1>6 DEF Neighbor, Beside
<1>7. CASE r[d] + s \notin 0..(Dims[d] - 1) /\ Periodic[d] /\ ~(r[d] + s < 0)
  BY <1>2, <1>3, <1>7 DEF Neighbor, Beside
<1> QED
  BY <1>4, <1>5, <1>6, <1>7

\* A hop along one axis keeps the position or leaves the domain.
LEMMA BesideTurn ==
  ASSUME NEW d \in Axis, NEW i \in 0..(Dims[d] - 1), NEW s \in {-1, 1},
         NEW e \in Int, 0 <= e, e < N
  PROVE  /\ Beside(d, i, s) = -1 => Over(d, (i + s) * N + e)
         /\ Beside(d, i, s) # -1 =>
              Turn(d, (i + s) * N + e) = Turn(d, Beside(d, i, s) * N + e)
<1>1. Dims[d] \in Nat \ {0}
  BY Extent
<1>2. CASE i + s \in 0..(Dims[d] - 1)
  <2>1. Beside(d, i, s) = i + s /\ i + s # -1
    BY <1>1, <1>2 DEF Beside
  <2> QED
    BY <2>1
<1>3. CASE i + s = -1
  <2>1. Beside(d, i, s) = IF Periodic[d] THEN Dims[d] - 1 ELSE -1
    BY <1>1, <1>3 DEF Beside
  <2>2. (i + s) * N + e = (-1) * N + e
    BY <1>3
  <2>3. Dims[d] - 1 # -1
    BY <1>1
  <2>4. CASE Periodic[d]
    BY <2>1, <2>2, <2>3, <2>4, TurnHop
  <2>5. CASE ~Periodic[d]
    BY <2>1, <2>2, <2>5, TurnHop
  <2> QED
    BY <2>4, <2>5
<1>4. CASE i + s = Dims[d]
  <2>1. Beside(d, i, s) = IF Periodic[d] THEN 0 ELSE -1
    BY <1>1, <1>4 DEF Beside
  <2>2. (i + s) * N + e = Dims[d] * N + e
    BY <1>4
  <2>4. CASE Periodic[d]
    BY <2>1, <2>2, <2>4, TurnHop
  <2>5. CASE ~Periodic[d]
    BY <2>1, <2>2, <2>5, TurnHop
  <2> QED
    BY <2>4, <2>5
<1> QED
  BY <1>1, <1>2, <1>3, <1>4

\* A pass brings a particle to a rank for which it is one zone nearer; off an
\* open boundary it is outside the domain.
LEMMA HopOver ==
  ASSUME NEW r \in Rank, NEW k \in Phases, NEW z \in Inward(k),
         NEW c \in [Axis -> Int], InBound(c)
  PROVE  /\ Dest(r, k) # PROC_NULL =>
              Global(r, Outward(k, z), c) = Global(Dest(r, k), z, c)
         /\ Dest(r, k) = PROC_NULL => Outside(Global(r, Outward(k, z), c))
<1> DEFINE a == PhaseAxis(k)
           s == PhaseDir(k)
           y == Outward(k, z)
           i == Beside(a, r[a], s)
           q == Dest(r, k)
<1>1. /\ a \in Axis /\ s \in {-1, 1} /\ a \in 1..a
  BY PhaseFacts DEF Phases, Axis
<1>2. /\ z \in Zone /\ z[a] = 0 /\ y \in Zone
      /\ y[a] = s /\ \A d \in Axis : d # a => y[d] = z[d]
  BY <1>1 DEF Inward, Outward, Zone
<1>3. /\ r[a] \in 0..(Dims[a] - 1)
      /\ c[a] - G \in Int /\ 0 <= c[a] - G /\ c[a] - G < N
  BY <1>1, RankCoord, CellAssumption DEF InBound
<1>4. /\ q = PROC_NULL <=> i = -1
      /\ i # -1 => q = [r EXCEPT ![a] = i] /\ i \in 0..(Dims[a] - 1)
  BY <1>1, NeighborBeside DEF Dest
<1>5. /\ i = -1 => Over(a, (r[a] + s) * N + (c[a] - G))
      /\ i # -1 => Turn(a, (r[a] + s) * N + (c[a] - G)) = Turn(a, i * N + (c[a] - G))
  BY <1>1, <1>3, BesideTurn
<1>6. \A j \in Int : j * N \in Int /\ j * N + (c[a] - G) = j * N + c[a] - G
  BY <1>1, CellAssumption
<1>7. r[a] + s \in Int /\ r[a] + s = r[a] + y[a]
  BY <1>1, <1>2, <1>3
<1>8. ASSUME i # -1 PROVE Global(r, y, c) = Global(q, z, c)
  <2>1. q = [r EXCEPT ![a] = i] /\ i \in 0..(Dims[a] - 1) /\ q \in Rank
    BY <1>1, <1>4, <1>8, RankExcept
  <2>2. q[a] = i /\ \A d \in Axis : d # a => q[d] = r[d]
    BY <1>1, <2>1 DEF Rank
  <2>3. Turn(a, (r[a] + y[a]) * N + c[a] - G) = Turn(a, (q[a] + z[a]) * N + c[a] - G)
    <3>1. i \in Int /\ q[a] + z[a] = i
      BY <1>2, <2>1, <2>2
    <3>2. /\ (r[a] + y[a]) * N + c[a] - G = (r[a] + s) * N + (c[a] - G)
          /\ (q[a] + z[a]) * N + c[a] - G = i * N + (c[a] - G)
      BY <1>6, <1>7, <3>1
    <3> QED
      BY <1>5, <1>8, <3>2
  <2>4. \A d \in Axis : Turn(d, (r[d] + y[d]) * N + c[d] - G)
                          = Turn(d, (q[d] + z[d]) * N + c[d] - G)
    BY <1>2, <2>2, <2>3
  <2> HIDE DEF a, s, i, y, q
  <2>5. y \in Zone /\ z \in Zone /\ q \in Rank
    BY <1>2, <2>1
  <2> QED
    BY <2>4, <2>5, GlobalEq
<1>9. ASSUME i = -1 PROVE Outside(Global(r, y, c))
  <2>1. Over(a, (r[a] + y[a]) * N + c[a] - G)
    BY <1>5, <1>6, <1>7, <1>9
  <2>2. Global(r, y, c)[a] = Turn(a, (r[a] + y[a]) * N + c[a] - G)
    BY <1>1, <1>2, GlobalAt
  <2>3. ~Periodic[a] /\ Global(r, y, c)[a] = (r[a] + y[a]) * N + c[a] - G
    BY <2>1, <2>2 DEF Over, Turn
  <2> QED
    BY <1>1, <2>1, <2>3 DEF Over, Outside
<1> QED
  BY <1>4, <1>8, <1>9

\* In the central zone the position is in the domain of the rank.
LEMMA CentreInside ==
  ASSUME NEW r \in Rank, NEW c \in [Axis -> Int], InBound(c)
  PROVE  /\ \A d \in Axis : Global(r, Centre, c)[d] = r[d] * N + c[d] - G
         /\ Global(r, Centre, c) \in [Axis -> Int]
         /\ InDomain(r, Global(r, Centre, c))
         /\ c = LocalCell(r, Global(r, Centre, c))
         /\ Global(r, Centre, c) \in Domain
<1> DEFINE x == Global(r, Centre, c)
<1>1. ASSUME NEW d \in Axis
      PROVE  /\ x[d] = r[d] * N + (c[d] - G) /\ x[d] \in Int
             /\ r[d] * N \in Int /\ c[d] \in Int /\ G \in Int
             /\ r[d] * N <= x[d] /\ x[d] < (r[d] + 1) * N
             /\ 0 <= x[d] /\ x[d] < Dims[d] * N
  <2>1. /\ r[d] \in 0..(Dims[d] - 1) /\ Centre \in Zone /\ Centre[d] = 0
        /\ c[d] \in Int /\ N \in Nat /\ G \in Nat /\ Dims[d] \in Nat
        /\ c[d] - G \in Int /\ 0 <= c[d] - G /\ c[d] - G < N
    BY RankCoord, VectorTypes, CellAssumption DEF Centre, InBound
  <2>2. \A j \in Int : /\ j * N \in Int /\ (j + 1) * N = j * N + N
                       /\ j * N + (c[d] - G) = j * N + c[d] - G
    BY <2>1
  <2>3. /\ Turn(d, r[d] * N + (c[d] - G)) = r[d] * N + (c[d] - G)
        /\ 0 <= r[d] * N + (c[d] - G) /\ r[d] * N + (c[d] - G) < Dims[d] * N
    BY <2>1, TurnHop
  <2>4. r[d] + Centre[d] = r[d] /\ r[d] \in Int
    BY <2>1
  <2>5. x[d] = Turn(d, r[d] * N + (c[d] - G))
    <3>1. x[d] = Turn(d, (r[d] + Centre[d]) * N + c[d] - G)
      BY <2>1, GlobalAt
    <3>2. (r[d] + Centre[d]) * N + c[d] - G = r[d] * N + (c[d] - G)
      BY <2>2, <2>4
    <3> QED
      BY <3>1, <3>2
  <2>6. x[d] = r[d] * N + (c[d] - G) /\ 0 <= x[d] /\ x[d] < Dims[d] * N
    BY <2>3, <2>5
  <2>7. r[d] * N \in Int /\ (r[d] + 1) * N = r[d] * N + N
    BY <2>2, <2>4
  <2> HIDE DEF x
  <2>8. x[d] \in Int /\ r[d] * N <= x[d] /\ x[d] < r[d] * N + N
    BY <2>1, <2>6, <2>7
  <2> QED
    BY <2>1, <2>6, <2>7, <2>8
<1>2. x = [d \in Axis |-> x[d]]
  BY DEF Global, Wrap
<1>3. x \in [Axis -> Int]
  BY <1>1, <1>2
<1>4. \A d \in Axis : x[d] = r[d] * N + c[d] - G /\ x[d] - r[d] * N + G = c[d]
  BY <1>1
<1>5. LocalCell(r, x) = [d \in Axis |-> c[d]]
  BY <1>4 DEF LocalCell
<1>6. c = [d \in Axis |-> c[d]]
  OBVIOUS
<1>7. \A d \in Axis : x[d] \in 0..(Dims[d] * N - 1) /\ x[d] < Dims[d] * N
  BY <1>1, Extent
<1>8. x \in Domain
  BY <1>2, <1>7 DEF Domain
<1> HIDE DEF x
<1>9. /\ \A d \in Axis : x[d] = r[d] * N + c[d] - G
      /\ x \in [Axis -> Int] /\ InDomain(r, x) /\ c = LocalCell(r, x) /\ x \in Domain
  BY <1>1, <1>3, <1>4, <1>5, <1>6, <1>8 DEF InDomain
<1> QED
  BY <1>9 DEF x

-----------------------------------------------------------------------------
(* Every particle is on its way to the owner of its position *)

ArriveInv == KeepInv /\ Located

\* Types, from the invariant.
LEMMA StateTypes ==
  ASSUME KeepInv
  PROVE  /\ stage \in [Rank -> Stages] /\ phase \in [Rank -> Phases]
         /\ step \in [Rank -> 0..MaxStep]
         /\ cell \in [Ptc -> [Axis -> Int]] /\ pos \in [Ptc -> [Axis -> Int]]
         /\ arr \in [Rank -> SUBSET Ptc] /\ buf \in [Rank -> [Zone -> SUBSET Ptc]]
         /\ net \subseteq Message
         /\ \A m \in net : /\ m.load \in [Zone -> SUBSET Ptc]
                           /\ m.dst \in Rank /\ m.src \in Rank
         /\ exited \subseteq Ptc /\ dropped \subseteq Ptc
         /\ Centre \in Zone
  BY VectorTypes DEF KeepInv, ZoneInv, MatchInv, TypeInv, TypeOK, Message

\* What is in the array of r is nowhere else.
LEMMA HeldAlone ==
  ASSUME KeepInv, NEW r \in Rank, NEW p \in arr[r]
  PROVE  /\ p \in Ptc
         /\ \A q \in Rank : p \in arr[q] => q = r
         /\ \A q \in Rank, z \in Zone : p \notin buf[q][z]
         /\ \A m \in net, z \in Zone : p \notin m.load[z]
         /\ p \notin exited
<1>1. p \in Ptc
  BY StateTypes
<1>2. HeldOnce(p)
  BY <1>1 DEF KeepInv, Placed, PackedOnce, SentOnce, GoneOnce, NotHeld
<1> QED
  BY <1>1, <1>2 DEF HeldOnce, NotPacked, NotSent, NotGone

\* An exchange step leaves cells and positions alone.
LEMMA LocatedKept ==
  ASSUME cell' = cell, pos' = pos,
         \A q \in Rank : \A p \in arr'[q] : pos[p] = Global(q, Centre, cell[p]),
         \A q \in Rank, z \in Zone : \A p \in buf'[q][z] :
           pos[p] = Global(q, z, cell[p]),
         \A m \in net', z \in Zone : \A p \in m.load[z] :
           pos[p] = Global(m.dst, z, cell[p]),
         \A p \in exited' : Outside(pos[p])
  PROVE  Located'
  BY DEF Located

\* A push moves cell and position alike.
LEMMA DriftLocates ==
  ASSUME ArriveInv, NEW r \in Rank, Drift(r)
  PROVE  Located'
<1>0. KeepInv /\ Located
  BY DEF ArriveInv
<1>1. stage[r] = "drift" /\ UNCHANGED <<arr, buf, net, exited>>
  BY DEF Drift, At
<1>2. PICK f \in [arr[r] -> Reach] :
        /\ cell' = [p \in Ptc |->
                      IF p \in arr[r] THEN Add(cell[p], f[p]) ELSE cell[p]]
        /\ pos' = [p \in Ptc |->
                     IF p \in arr[r] THEN Wrap(Add(pos[p], f[p])) ELSE pos[p]]
  BY DEF Drift
<1>3. ASSUME NEW p \in arr[r]
      PROVE  pos'[p] = Global(r, Centre, cell'[p])
  <2>1. /\ p \in Ptc /\ cell[p] \in [Axis -> Int] /\ InBound(cell[p])
        /\ pos[p] = Global(r, Centre, cell[p]) /\ f[p] \in [Axis -> Int]
    BY <1>0, <1>1, StateTypes, HeldAlone, VectorTypes DEF Inside, KeepInv, Located
  <2>2. \A d \in Axis : pos[p][d] = r[d] * N + cell[p][d] - G
    BY <2>1, CentreInside
  <2>3. ASSUME NEW d \in Axis
        PROVE  Add(pos[p], f[p])[d] = (r[d] + Centre[d]) * N + Add(cell[p], f[p])[d] - G
    <3>1. /\ r[d] \in Int /\ N \in Int /\ G \in Int /\ f[p][d] \in Int
          /\ cell[p][d] \in Int /\ Centre[d] = 0
      BY <2>1, RankCoord, CellAssumption DEF Centre
    <3>2. r[d] + Centre[d] = r[d] /\ r[d] * N \in Int
      BY <3>1
    <3>3. /\ Add(pos[p], f[p])[d] = pos[p][d] + f[p][d]
          /\ Add(cell[p], f[p])[d] = cell[p][d] + f[p][d]
      BY DEF Add
    <3>4. pos[p][d] = r[d] * N + cell[p][d] - G
      BY <2>2
    <3> QED
      BY <3>1, <3>2, <3>3, <3>4
  <2>4. Add(pos[p], f[p]) =
          [d \in Axis |-> (r[d] + Centre[d]) * N + Add(cell[p], f[p])[d] - G]
    <3>1. Add(pos[p], f[p]) = [d \in Axis |-> Add(pos[p], f[p])[d]]
      BY DEF Add
    <3> QED
      BY <2>3, <3>1
  <2>5. /\ pos'[p] = Wrap(Add(pos[p], f[p])) /\ cell'[p] = Add(cell[p], f[p])
    BY <1>2, <2>1
  <2> QED
    BY <2>4, <2>5 DEF Global
<1>4. \A p \in Ptc : p \notin arr[r] => cell'[p] = cell[p] /\ pos'[p] = pos[p]
  BY <1>2
<1>5. ASSUME NEW q \in Rank, NEW p \in arr'[q]
      PROVE  pos'[p] = Global(q, Centre, cell'[p])
  <2>1. CASE p \in arr[r]
    <3>1. q = r
      BY <1>0, <1>1, <1>5, <2>1, HeldAlone
    <3> QED
      BY <1>3, <2>1, <3>1
  <2>2. CASE p \notin arr[r]
    <3>1. p \in Ptc
      BY <1>0, <1>1, <1>5, StateTypes
    <3> QED
      BY <1>0, <1>1, <1>4, <1>5, <2>2, <3>1 DEF Located
  <2> QED
    BY <2>1, <2>2
<1>6. ASSUME NEW q \in Rank, NEW z \in Zone, NEW p \in buf'[q][z]
      PROVE  pos'[p] = Global(q, z, cell'[p])
  <2>1. p \in Ptc /\ p \notin arr[r] /\ p \in buf[q][z]
    BY <1>0, <1>1, StateTypes, HeldAlone
  <2> QED
    BY <1>0, <1>4, <2>1 DEF Located
<1>7. ASSUME NEW m \in net', NEW z \in Zone, NEW p \in m.load[z]
      PROVE  pos'[p] = Global(m.dst, z, cell'[p])
  <2>1. p \in Ptc /\ p \notin arr[r] /\ m \in net
    BY <1>0, <1>1, StateTypes, HeldAlone
  <2> QED
    BY <1>0, <1>4, <2>1 DEF Located
<1>8. ASSUME NEW p \in exited' PROVE Outside(pos'[p])
  <2>1. p \in Ptc /\ p \notin arr[r] /\ p \in exited
    BY <1>0, <1>1, StateTypes, HeldAlone
  <2> QED
    BY <1>0, <1>4, <2>1 DEF Located
<1> QED
  BY <1>5, <1>6, <1>7, <1>8 DEF Located

\* Packing names the zone and moves the cell into the frame of its rank.
LEMMA PackLocates ==
  ASSUME ArriveInv, NEW r \in Rank, Pack(r)
  PROVE  Located'
<1>0. KeepInv /\ Located
  BY DEF ArriveInv
<1>1. /\ UNCHANGED <<pos, net, exited>>
      /\ buf' = [buf EXCEPT ![r] = Packed(r)]
      /\ arr' = [arr EXCEPT ![r] = {p \in @ : ZoneOf(cell[p]) = Centre}]
      /\ cell' = [p \in Ptc |-> IF p \in arr[r] THEN Shift(cell[p], ZoneOf(cell[p]))
                                ELSE cell[p]]
  BY DEF Pack
<1>2. ASSUME NEW p \in arr[r]
      PROVE  /\ p \in Ptc /\ ZoneOf(cell[p]) \in Zone
             /\ pos'[p] = Global(r, ZoneOf(cell[p]), cell'[p])
  <2> DEFINE z == ZoneOf(cell[p])
             c == cell[p]
  <2>1. /\ p \in Ptc /\ c \in [Axis -> Int] /\ z \in Zone
        /\ pos[p] = Global(r, Centre, c) /\ Centre \in Zone
        /\ Shift(c, z) \in [Axis -> Int]
    BY <1>0, StateTypes, VectorTypes DEF Located
  <2> HIDE DEF z, c
  <2>2. ASSUME NEW d \in Axis
        PROVE  (r[d] + Centre[d]) * N + c[d] - G
                 = (r[d] + z[d]) * N + Shift(c, z)[d] - G
    <3>1. /\ r[d] \in Int /\ N \in Int /\ G \in Int /\ z[d] \in Int
          /\ c[d] \in Int /\ Centre[d] = 0
      BY <2>1, RankCoord, CellAssumption DEF Centre, Zone
    <3>2. \A i, j \in Int : /\ (i + j) * N = i * N + j * N
                            /\ i * N \in Int
      BY <3>1
    <3>3. r[d] + Centre[d] = r[d] /\ Shift(c, z)[d] = c[d] - z[d] * N
      BY <3>1 DEF Shift
    <3>4. /\ (r[d] + z[d]) * N = r[d] * N + z[d] * N
          /\ r[d] * N \in Int /\ z[d] * N \in Int
      BY <3>1, <3>2
    <3> QED
      BY <3>1, <3>3, <3>4
  <2>3. Global(r, Centre, c) = Global(r, z, Shift(c, z))
    BY <2>2 DEF Global
  <2>4. cell'[p] = Shift(c, z)
    BY <1>1, <2>1 DEF c, z
  <2> QED
    BY <1>1, <2>1, <2>3, <2>4 DEF c, z
<1>4. \A p \in Ptc : p \notin arr[r] => cell'[p] = cell[p] /\ pos'[p] = pos[p]
  BY <1>1
<1>5. ASSUME NEW q \in Rank, NEW p \in arr'[q]
      PROVE  pos'[p] = Global(q, Centre, cell'[p])
  <2>1. p \in arr[q] /\ (q = r => ZoneOf(cell[p]) = Centre)
    BY <1>0, <1>1, <1>5, StateTypes
  <2>2. CASE q = r
    BY <1>2, <2>1, <2>2
  <2>3. CASE q # r
    <3>1. p \in Ptc /\ p \notin arr[r]
      BY <1>0, <2>1, <2>3, HeldAlone
    <3> QED
      BY <1>0, <1>4, <2>1, <3>1 DEF Located
  <2> QED
    BY <2>2, <2>3
<1>6. ASSUME NEW q \in Rank, NEW z \in Zone, NEW p \in buf'[q][z]
      PROVE  pos'[p] = Global(q, z, cell'[p])
  <2>1. CASE q = r
    <3>1. p \in arr[r] /\ ZoneOf(cell[p]) = z
      BY <1>0, <1>1, <1>6, <2>1, StateTypes DEF Packed
    <3> QED
      BY <1>2, <2>1, <3>1
  <2>2. CASE q # r
    <3>1. p \in buf[q][z] /\ p \in Ptc /\ p \notin arr[r]
      BY <1>0, <1>1, <1>6, <2>2, StateTypes, HeldAlone
    <3> QED
      BY <1>0, <1>4, <3>1 DEF Located
  <2> QED
    BY <2>1, <2>2
<1>7. ASSUME NEW m \in net', NEW z \in Zone, NEW p \in m.load[z]
      PROVE  pos'[p] = Global(m.dst, z, cell'[p])
  <2>1. p \in Ptc /\ p \notin arr[r] /\ m \in net
    BY <1>0, <1>1, StateTypes, HeldAlone
  <2> QED
    BY <1>0, <1>4, <2>1 DEF Located
<1>8. ASSUME NEW p \in exited' PROVE Outside(pos'[p])
  BY <1>0, <1>1 DEF Located
<1> QED
  BY <1>5, <1>6, <1>7, <1>8 DEF Located

\* What a pass sends is one zone nearer for the neighbour that it goes to, or
\* is outside the domain.
LEMMA LoadLocated ==
  ASSUME ArriveInv, NEW r \in Rank, NEW k \in Phases, NEW z \in Zone,
         NEW p \in Load(r, k)[z]
  PROVE  /\ Dest(r, k) # PROC_NULL => pos[p] = Global(Dest(r, k), z, cell[p])
         /\ Dest(r, k) = PROC_NULL => Outside(pos[p])
<1>0. KeepInv /\ Located
  BY DEF ArriveInv
<1>1. z \in Inward(k) /\ p \in buf[r][Outward(k, z)]
  BY DEF Load
<1>2. Outward(k, z) \in Zone
  BY <1>0, StateTypes, LoadType
<1>3. /\ p \in Ptc /\ cell[p] \in [Axis -> Int] /\ InBound(cell[p])
      /\ pos[p] = Global(r, Outward(k, z), cell[p])
  BY <1>0, <1>1, <1>2, StateTypes DEF KeepInv, Inside, Located
<1> QED
  BY <1>1, <1>3, HopOver

\* A rank that is its own neighbour keeps what it would send.
LEMMA CopyLocates ==
  ASSUME ArriveInv, NEW r \in Rank, LocalCopy(r)
  PROVE  Located'
<1>0. KeepInv /\ Located
  BY DEF ArriveInv
<1> DEFINE k == phase[r]
<1>1. /\ Dest(r, k) = r /\ k \in Phases
      /\ buf' = [buf EXCEPT ![r] = Merge(Emptied(r, k), Load(r, k))]
      /\ UNCHANGED <<arr, cell, pos, net, exited>>
  BY <1>0, StateTypes DEF LocalCopy, ShortCut
<1>2. r # PROC_NULL
  BY NullIsNoRank
<1>3. ASSUME NEW q \in Rank, NEW z \in Zone, NEW p \in buf'[q][z]
      PROVE  pos[p] = Global(q, z, cell[p])
  <2>1. CASE q = r
    <3>1. p \in Emptied(r, k)[z] \/ p \in Load(r, k)[z]
      BY <1>0, <1>1, <1>3, <2>1, StateTypes DEF Merge
    <3>2. CASE p \in Emptied(r, k)[z]
      BY <1>0, <2>1, <3>2 DEF Emptied, Located
    <3>3. CASE p \in Load(r, k)[z]
      <4>1. pos[p] = Global(Dest(r, k), z, cell[p])
        BY <1>1, <1>2, <3>3, LoadLocated
      <4> QED
        BY <1>1, <2>1, <4>1
    <3> QED
      BY <3>1, <3>2, <3>3
  <2>2. CASE q # r
    BY <1>0, <1>1, <1>3, <2>2, StateTypes DEF Located
  <2> QED
    BY <2>1, <2>2
<1> QED
  BY <1>0, <1>1, <1>3, LocatedKept DEF Located

\* What is sent comes nearer, what is discarded is outside.
LEMMA SendLocates ==
  ASSUME ArriveInv, NEW r \in Rank, Send(r)
  PROVE  Located'
<1>0. KeepInv /\ Located
  BY DEF ArriveInv
<1> DEFINE k == phase[r]
<1>1. /\ k \in Phases
      /\ buf' = [buf EXCEPT ![r] = Emptied(r, k)]
      /\ UNCHANGED <<arr, cell, pos>>
  BY <1>0, StateTypes DEF Send
<1>2. \A q \in Rank, z \in Zone : \A p \in buf'[q][z] :
        pos[p] = Global(q, z, cell[p])
  BY <1>0, <1>1, StateTypes DEF Emptied, Located
<1>3. CASE Dest(r, k) = PROC_NULL
  <2>1. /\ exited' = exited \cup UNION {Load(r, k)[z] : z \in Zone}
        /\ net' = net
    BY <1>3 DEF Send
  <2>2. \A p \in exited' : Outside(pos[p])
    BY <1>0, <1>1, <1>3, <2>1, LoadLocated DEF Located
  <2> QED
    BY <1>0, <1>1, <1>2, <2>1, <2>2, LocatedKept DEF Located
<1>4. CASE Dest(r, k) # PROC_NULL
  <2> DEFINE n == [src |-> r, dst |-> Dest(r, k), step |-> step[r],
                   phase |-> k, load |-> Load(r, k)]
  <2>1. net' = net \cup {n} /\ exited' = exited
    BY <1>4 DEF Send
  <2>2. n.dst = Dest(r, k) /\ n.load = Load(r, k)
    OBVIOUS
  <2>3. \A z \in Zone : \A p \in n.load[z] : pos[p] = Global(n.dst, z, cell[p])
    BY <1>1, <1>4, <2>2, LoadLocated
  <2> HIDE DEF n
  <2>4. \A m \in net', z \in Zone : \A p \in m.load[z] :
          pos[p] = Global(m.dst, z, cell[p])
    BY <1>0, <2>1, <2>3 DEF Located
  <2> QED
    BY <1>0, <1>1, <1>2, <2>1, <2>4, LocatedKept DEF Located
<1> QED
  BY <1>3, <1>4

\* What is received goes to the buffer it was sent for.
LEMMA RecvLocates ==
  ASSUME ArriveInv, NEW r \in Rank, Recv(r)
  PROVE  Located'
<1>0. KeepInv /\ Located
  BY DEF ArriveInv
<1>1. PICK m \in Matching(r, phase[r]) :
        /\ net' = net \ {m}
        /\ buf' = [buf EXCEPT ![r] = Merge(buf[r], m.load)]
  BY <1>0, StateTypes DEF Recv, KeepInv, Appends
<1>2. m \in net /\ m.dst = r /\ UNCHANGED <<arr, cell, pos, exited>>
  BY <1>1 DEF Recv, Matching, Oldest
<1>3. ASSUME NEW q \in Rank, NEW z \in Zone, NEW p \in buf'[q][z]
      PROVE  pos[p] = Global(q, z, cell[p])
  <2>1. p \in buf[q][z] \/ (q = r /\ p \in m.load[z])
    BY <1>0, <1>1, <1>3, StateTypes DEF Merge
  <2> QED
    BY <1>0, <1>2, <2>1 DEF Located
<1> QED
  BY <1>0, <1>1, <1>2, <1>3, LocatedKept DEF Located

\* What is unpacked was in the central buffer.
LEMMA UnpackLocates ==
  ASSUME ArriveInv, NEW r \in Rank, Unpack(r)
  PROVE  Located'
<1>0. KeepInv /\ Located
  BY DEF ArriveInv
<1>1. PICK kept \in SUBSET buf[r][Centre] : arr' = [arr EXCEPT ![r] = @ \cup kept]
  BY DEF Unpack
<1>2. /\ buf' = [buf EXCEPT ![r][Centre] = {}]
      /\ UNCHANGED <<cell, pos, net, exited>>
  BY DEF Unpack
<1>3. \A q \in Rank : \A p \in arr'[q] :
        p \in arr[q] \/ (q = r /\ p \in buf[q][Centre])
  BY <1>0, <1>1, StateTypes
<1>4. \A q \in Rank, z \in Zone : buf'[q][z] \subseteq buf[q][z]
  BY <1>0, <1>2, StateTypes
<1>5. \A q \in Rank : \A p \in arr'[q] : pos[p] = Global(q, Centre, cell[p])
  BY <1>0, <1>3, StateTypes DEF Located
<1>6. \A q \in Rank, z \in Zone : \A p \in buf'[q][z] :
        pos[p] = Global(q, z, cell[p])
  BY <1>0, <1>4 DEF Located
<1> QED
  BY <1>0, <1>2, <1>5, <1>6, LocatedKept DEF Located

\* Every step keeps particles on their way.
LEMMA ArriveNext == ArriveInv /\ [Next]_vars => ArriveInv'
<1> SUFFICES ASSUME ArriveInv, [Next]_vars PROVE ArriveInv'
  OBVIOUS
<1>0. KeepInv /\ Located
  BY DEF ArriveInv
<1>1. KeepInv'
  BY <1>0, KeepNext
<1>2. ASSUME NEW r \in Rank, RecvNothing(r) PROVE Located'
  BY <1>0, <1>2 DEF RecvNothing, Located
<1>3. ASSUME NEW r \in Rank, Tidy(r) PROVE Located'
  <2>1. UNCHANGED <<buf, cell, net, exited, pos>>
    BY <1>3 DEF Tidy
  <2>2. \A q \in Rank : arr'[q] \subseteq arr[q]
    BY <1>0, <1>3, StateTypes DEF Tidy
  <2> QED
    BY <1>0, <2>1, <2>2 DEF Located
<1>4. ASSUME UNCHANGED vars PROVE Located'
  <2>1. UNCHANGED <<arr, buf, cell, net, exited, pos>>
    BY <1>4 DEF vars
  <2> QED
    BY <1>0, <2>1 DEF Located
<1>5. ASSUME NEW r \in Rank, RankStep(r) PROVE Located'
  BY <1>2, <1>3, <1>5, DriftLocates, PackLocates, CopyLocates, SendLocates,
     RecvLocates, UnpackLocates DEF RankStep
<1> QED
  BY <1>1, <1>4, <1>5 DEF Next, Finished, ArriveInv

\* At the start each particle is where it belongs.
LEMMA ArriveInit == Init /\ Appends => ArriveInv
<1> SUFFICES ASSUME Init, Appends PROVE ArriveInv
  OBVIOUS
<1>1. KeepInv
  BY KeepInit
<1>2. /\ arr = [r \in Rank |-> {p \in Ptc : InDomain(r, pos[p])}]
      /\ buf = [r \in Rank |-> [z \in Zone |-> {}]]
      /\ cell = [p \in Ptc |-> LocalCell(Owner(pos[p]), pos[p])]
      /\ stage = [r \in Rank |-> "drift"]
      /\ net = {} /\ exited = {}
      /\ \A p \in Ptc : pos[p] \in Domain
  BY DEF Init
<1>3. ASSUME NEW r \in Rank, NEW p \in arr[r]
      PROVE  pos[p] = Global(r, Centre, cell[p])
  <2>1. p \in Ptc /\ InDomain(r, pos[p]) /\ pos[p] \in Domain
    BY <1>2
  <2>2. cell[p] = LocalCell(r, pos[p])
    BY <1>2, <2>1, OneOwner
  <2>3. cell[p] \in [Axis -> Int] /\ InBound(cell[p]) /\ pos[p] \in [Axis -> Int]
    BY <1>1, <1>2, <2>1, StateTypes DEF KeepInv, Inside
  <2>4. /\ \A d \in Axis : Global(r, Centre, cell[p])[d] = r[d] * N + cell[p][d] - G
        /\ Global(r, Centre, cell[p]) \in [Axis -> Int]
    BY <2>3, CentreInside
  <2>5. ASSUME NEW d \in Axis PROVE Global(r, Centre, cell[p])[d] = pos[p][d]
    <3>1. cell[p][d] = pos[p][d] - r[d] * N + G
      BY <2>2 DEF LocalCell
    <3>2. r[d] * N \in Int /\ pos[p][d] \in Int /\ G \in Int
      <4>1. r[d] \in Int /\ N \in Int
        BY RankCoord, CellAssumption
      <4>2. \A i, j \in Int : i * j \in Int
        OBVIOUS
      <4> QED
        BY <2>3, <4>1, <4>2, CellAssumption
    <3>3. Global(r, Centre, cell[p])[d] = r[d] * N + cell[p][d] - G
      BY <2>4
    <3> QED
      BY <3>1, <3>2, <3>3
  <2> QED
    BY <2>3, <2>4, <2>5
<1>4. Located
  BY <1>2, <1>3 DEF Located
<1> QED
  BY <1>1, <1>4 DEF ArriveInv

\* After its exchange a rank holds only particles of its own domain, each at
\* the local cell of its position, whatever chain of hops brought it there
\* (find_zone, send_particles_impl), in one and two dimensions and on a device
\* with device-aware MPI in three.
THEOREM ParticlesSettle ==
  ASSUME Dim <= 2 \/ CudaMPI
  PROVE  Spec => []Settled
<1>1. ASSUME ArriveInv PROVE Settled
  <2>1. SUFFICES ASSUME NEW r \in Rank, stage[r] \in {"tidy", "drift", "done"},
                        NEW p \in arr[r]
                 PROVE  InDomain(r, pos[p]) /\ cell[p] = LocalCell(r, pos[p])
    BY DEF Settled
  <2>2. /\ p \in Ptc /\ cell[p] \in [Axis -> Int]
        /\ pos[p] = Global(r, Centre, cell[p]) /\ InBound(cell[p])
    BY <1>1, <2>1, StateTypes DEF ArriveInv, Located, KeepInv, Inside
  <2> QED
    BY <2>2, CentreInside
<1>2. Init => ArriveInv
  BY AppendsWhen, ArriveInit
<1> QED
  BY <1>1, <1>2, ArriveNext, PTL DEF Spec

\* On the same builds the ranks stay in step as far as their messages and
\* buffers can tell, every particle is where the next step of the exchange
\* expects it, and clear_guard_cells never erases one.
THEOREM StaysInLockstep ==
  ASSUME Dim <= 2 \/ CudaMPI
  PROVE  Spec => []Lockstep
<1>1. ArriveInv => Lockstep
  BY DEF ArriveInv, KeepInv, ZoneInv, MatchInv, TypeInv, Lockstep
<1>2. Init => ArriveInv
  BY AppendsWhen, ArriveInit
<1> QED
  BY <1>1, <1>2, ArriveNext, PTL DEF Spec

-----------------------------------------------------------------------------
(* The exchange implements Migration *)

Moving == {p \in Ptc : ~NotPacked(p) \/ ~NotSent(p)}
Gone == dropped \cup exited
Owned(r) == {p \in arr[r] : InDomain(r, pos[p])}

\* Migration speaks of the same domain.
LEMMA SameDomain ==
  /\ Promise!Axis = Axis /\ Promise!Rank = Rank /\ Promise!Domain = Domain
  /\ \A r, x : Promise!InDomain(r, x) <=> InDomain(r, x)
  /\ \A u, v : Promise!Add(u, v) = Add(u, v)
  /\ \A x : Promise!Wrap(x) = Wrap(x) /\ (Promise!Outside(x) <=> Outside(x))
  /\ \A r, d, s : Promise!Neighbor(r, d, s) = Neighbor(r, d, s)
<1>1. Promise!Axis = Axis
  BY DEF Promise!Axis, Axis
<1>2. Promise!Coord = Coord
  BY <1>1 DEF Promise!Coord, Coord
<1>3. Promise!Rank = Rank
  BY <1>1, <1>2 DEF Promise!Rank, Rank
<1>4. Promise!Domain = Domain
  BY <1>1 DEF Promise!Domain, Domain
<1>5. /\ \A r, x : Promise!InDomain(r, x) <=> InDomain(r, x)
      /\ \A u, v : Promise!Add(u, v) = Add(u, v)
      /\ \A x : Promise!Wrap(x) = Wrap(x) /\ (Promise!Outside(x) <=> Outside(x))
  BY <1>1 DEF Promise!InDomain, InDomain, Promise!Add, Add, Promise!Wrap, Wrap,
              Promise!Outside, Outside
<1>6. \A r, d, s : Promise!Neighbor(r, d, s) = Neighbor(r, d, s)
  BY <1>1 DEF Promise!Neighbor, Neighbor, Promise!PROC_NULL, PROC_NULL
<1> QED
  BY <1>1, <1>3, <1>4, <1>5, <1>6

\* What Migration calls moving, in the words of Promise.
InTransit == {p \in Ptc : \/ \E r \in Rank, z \in Zone : p \in buf[r][z]
                          \/ \E m \in net, z \in Zone : p \in m.load[z]}

\* It is what is in a buffer or a message.
LEMMA SameMoving == InTransit = Moving /\ InTransit' = Moving'
<1>1. InTransit = Moving
  BY DEF Moving, NotPacked, NotSent, InTransit
<1>2. InTransit' = Moving'
  BY DEF Moving, NotPacked, NotSent, InTransit
<1> QED
  BY <1>1, <1>2

\* What a rank owns is the same in Migration.
LEMMA SameOwned == \A r : Promise!Owned(r) = Owned(r)
  BY SameDomain DEF Promise!Owned, Owned

\* One lemma per action of Migration: what a step has to do to be one.
LEMMA StartMaps ==
  ASSUME pos \in [Ptc -> Domain],
         arr = [r \in Rank |-> {p \in Ptc : InDomain(r, pos[p])}],
         Moving = {}, Gone = {}
  PROVE  Promise!Init
  BY SameDomain, SameMoving, SameOwned DEF Promise!Init, InTransit, Gone

LEMMA DriftMaps ==
  ASSUME NEW r, arr[r] = Owned(r),
         \E f \in [arr[r] -> Reach] :
           pos' = [p \in Ptc |->
                     IF p \in arr[r] THEN Wrap(Add(pos[p], f[p])) ELSE pos[p]],
         arr' = arr, Moving' = Moving, Gone' = Gone
  PROVE  Promise!Drift(r)
  BY SameDomain, SameMoving, SameOwned DEF Promise!Drift, InTransit, Gone

LEMMA LeaveMaps ==
  ASSUME NEW r, NEW S \in SUBSET Owned(r),
         S # {} => \E d \in Axis : Neighbor(r, d, 1) = r,
         arr' = [arr EXCEPT ![r] = Owned(r) \ S],
         Moving' = Moving \cup (arr[r] \ Owned(r)) \cup S,
         pos' = pos, Gone' = Gone
  PROVE  Promise!Leave(r)
  BY SameDomain, SameMoving, SameOwned DEF Promise!Leave, InTransit, Gone

LEMMA ArriveMaps ==
  ASSUME NEW r, NEW S \in SUBSET {p \in Moving : InDomain(r, pos[p])},
         NEW turned \in SUBSET S,
         arr' = [arr EXCEPT ![r] = @ \cup (S \ turned)],
         Gone' = Gone \cup turned, Moving' = Moving \ S, pos' = pos
  PROVE  Promise!Arrive(r)
<1>1. /\ S \in SUBSET {p \in InTransit : Promise!InDomain(r, pos[p])}
      /\ InTransit' = InTransit \ S
  BY SameDomain, SameMoving
<1>2. Promise!Arrive(r) <=>
        \E T \in SUBSET {p \in InTransit : Promise!InDomain(r, pos[p])} :
          \E out \in SUBSET T :
            /\ arr' = [arr EXCEPT ![r] = @ \cup (T \ out)]
            /\ Gone' = Gone \cup out /\ InTransit' = InTransit \ T /\ pos' = pos
  BY DEF Promise!Arrive, InTransit, Gone
<1> QED
  BY <1>1, <1>2

LEMMA ExitMaps ==
  ASSUME NEW S \in SUBSET {p \in Moving : Outside(pos[p])},
         Gone' = Gone \cup S, Moving' = Moving \ S, pos' = pos, arr' = arr
  PROVE  Promise!Exit
  BY SameDomain, SameMoving, SameOwned DEF Promise!Exit, InTransit, Gone

LEMMA StutterMaps ==
  ASSUME arr' = arr, Moving' = Moving, Gone' = Gone, pos' = pos
  PROVE  UNCHANGED Promise!vars
  BY SameMoving DEF Promise!vars, InTransit, Gone

\* A push is a drift: all that the rank holds is in its domain.
LEMMA DriftImplements ==
  ASSUME ArriveInv, NEW r \in Rank, Drift(r)
  PROVE  Promise!Drift(r)
<1>0. KeepInv /\ Located
  BY DEF ArriveInv
<1>1. stage[r] = "drift" /\ UNCHANGED <<arr, buf, net, dropped, exited>>
  BY DEF Drift, At
<1>2. \A p \in arr[r] : InDomain(r, pos[p])
  <2> SUFFICES ASSUME NEW p \in arr[r] PROVE InDomain(r, pos[p])
    OBVIOUS
  <2>1. /\ cell[p] \in [Axis -> Int] /\ InBound(cell[p])
        /\ pos[p] = Global(r, Centre, cell[p])
    BY <1>0, <1>1, StateTypes, HeldAlone DEF KeepInv, Inside, Located
  <2> QED
    BY <2>1, CentreInside
<1>3. arr[r] = Owned(r)
  BY <1>2 DEF Owned
<1>4. Moving' = Moving /\ Gone' = Gone
  BY <1>1 DEF Moving, NotPacked, NotSent, Gone
<1>5. \E f \in [arr[r] -> Reach] :
        pos' = [p \in Ptc |->
                  IF p \in arr[r] THEN Wrap(Add(pos[p], f[p])) ELSE pos[p]]
  BY DEF Drift
<1> QED
  BY <1>1, <1>3, <1>4, <1>5, DriftMaps

\* A particle in the guard cells is still in the domain of its rank only if the
\* rank is its own neighbour.
LEMMA OwnNeighbour ==
  ASSUME NEW r \in Rank, NEW c \in [Axis -> Int], InReach(c),
         ZoneOf(c) # Centre, InDomain(r, Global(r, Centre, c))
  PROVE  \E d \in Axis : Neighbor(r, d, 1) = r
<1>1. PICK d \in Axis : c[d] < G \/ c[d] >= N + G
  <2>1. \E d \in Axis : ZoneOf(c)[d] # 0
    <3>1. ZoneOf(c) = [d \in Axis |-> ZoneOf(c)[d]]
      BY DEF ZoneOf
    <3> QED
      BY <3>1 DEF Centre
  <2>2. \A d \in Axis : c[d] \in Int
    OBVIOUS
  <2> QED
    BY <2>1, <2>2, CellAssumption DEF ZoneOf
<1> DEFINE L == Dims[d] * N
           i == r[d] * N
           e == c[d] - G
<1>2. /\ N \in Nat \ {0} /\ L \in Nat /\ Dims[d] \in Nat \ {0}
      /\ r[d] \in 0..(Dims[d] - 1) /\ (Dims[d] - 1) * N = L - N
      /\ G \in Nat /\ G <= N
  BY Extent, RankCoord
<1>3. /\ i \in Int /\ 0 * N <= i /\ i <= L - N /\ 0 * N = 0
      /\ (r[d] + 1) * N = i + N
  <2>1. 0 * N <= r[d] * N /\ r[d] * N <= (Dims[d] - 1) * N /\ r[d] * N \in Int
    <3>1. /\ 0 \in Int /\ r[d] \in Int /\ Dims[d] - 1 \in Int
          /\ 0 <= r[d] /\ r[d] <= Dims[d] - 1 /\ N \in Nat
      BY <1>2
    <3> QED
      BY <3>1, ScaleMonotone
  <2>2. (r[d] + 1) * N = r[d] * N + N /\ 0 * N = 0
    BY <1>2
  <2> QED
    BY <1>2, <2>1, <2>2
<1>4. /\ e \in Int /\ -N <= e /\ e < 2 * N /\ (e < 0 \/ e >= N)
  BY <1>1, <1>2 DEF InReach
<1>5. Turn(d, i + e) >= i /\ Turn(d, i + e) < i + N
  <2>1. Centre \in Zone /\ r[d] + Centre[d] = r[d]
    BY <1>2, VectorTypes DEF Centre
  <2>2. Global(r, Centre, c)[d] = Turn(d, (r[d] + Centre[d]) * N + c[d] - G)
    BY <2>1, GlobalAt
  <2>3. (r[d] + Centre[d]) * N + c[d] - G = i + e
    BY <1>2, <1>3, <2>1
  <2> QED
    BY <1>3, <2>2, <2>3 DEF InDomain
<1>6. \A n : Turn(d, n) = IF ~Periodic[d] THEN n
                         ELSE IF n < 0 THEN n + L
                         ELSE IF n >= L THEN n - L ELSE n
  BY DEF Turn
<1>7. Periodic[d] /\ L < 2 * N
  <2>1. /\ N \in Int /\ L \in Int /\ i \in Int /\ e \in Int /\ 0 < N
        /\ 0 <= i /\ i <= L - N
        /\ -N <= e /\ e < 2 * N /\ (e < 0 \/ e >= N)
    BY <1>2, <1>3, <1>4
  <2>2. Turn(d, i + e) >= i /\ Turn(d, i + e) < i + N
    BY <1>5
  <2> HIDE DEF L, i, e
  <2>3. CASE ~Periodic[d]
    <3>1. Turn(d, i + e) = i + e
      BY <1>6, <2>3
    <3> QED
      BY <2>1, <2>2, <3>1
  <2>4. CASE Periodic[d] /\ i + e < 0
    <3>1. Turn(d, i + e) = i + e + L
      BY <1>6, <2>4
    <3> QED
      BY <2>1, <2>2, <2>4, <3>1
  <2>5. CASE Periodic[d] /\ ~(i + e < 0) /\ i + e >= L
    <3> DEFINE n == i + e
    <3>0. n >= L /\ ~(n < 0) /\ Periodic[d]
      BY <2>5
    <3> HIDE DEF n
    <3>1. Turn(d, n) = n - L
      BY <1>6, <3>0
    <3> QED
      BY <2>1, <2>2, <2>5, <3>1 DEF n
  <2>6. CASE Periodic[d] /\ ~(i + e < 0) /\ ~(i + e >= L)
    <3>1. Turn(d, i + e) = i + e
      BY <1>6, <2>6
    <3> QED
      BY <2>1, <2>2, <3>1
  <2> QED
    BY <2>3, <2>4, <2>5, <2>6
<1>8. Dims[d] = 1
  <2>1. CASE Dims[d] >= 2
    <3>1. 2 * N <= Dims[d] * N
      BY <1>2, <2>1, ScaleMonotone
    <3> QED
      BY <1>2, <1>7, <3>1
  <2> QED
    BY <1>2, <2>1
<1>9. Neighbor(r, d, 1) = r
  <2>1. r[d] = 0 /\ ~(r[d] + 1 \in 0..(Dims[d] - 1)) /\ ~(r[d] + 1 < 0)
    BY <1>2, <1>8
  <2>2. Neighbor(r, d, 1) = [r EXCEPT ![d] = 0]
    BY <1>7, <2>1 DEF Neighbor
  <2> QED
    BY <2>1, <2>2 DEF Rank
<1> QED
  BY <1>9

\* Packing lets go of what has left the domain.
LEMMA PackImplements ==
  ASSUME ArriveInv, NEW r \in Rank, Pack(r)
  PROVE  Promise!Leave(r)
<1>0. KeepInv /\ Located
  BY DEF ArriveInv
<1> DEFINE S == {p \in Owned(r) : ZoneOf(cell[p]) # Centre}
<1>1. /\ stage[r] = "pack" /\ UNCHANGED <<net, dropped, exited, pos>>
      /\ buf' = [buf EXCEPT ![r] = Packed(r)]
      /\ arr' = [arr EXCEPT ![r] = {p \in @ : ZoneOf(cell[p]) = Centre}]
  BY DEF Pack, At
<1>2. ASSUME NEW p \in arr[r]
      PROVE  /\ p \in Ptc /\ cell[p] \in [Axis -> Int] /\ InReach(cell[p])
             /\ pos[p] = Global(r, Centre, cell[p]) /\ ZoneOf(cell[p]) \in Zone
  BY <1>0, <1>1, StateTypes, HeldAlone, VectorTypes DEF KeepInv, Inside, Located
<1>3. ASSUME NEW p \in arr[r], ZoneOf(cell[p]) = Centre PROVE p \in Owned(r)
  <2>1. \A d \in Axis : cell[p][d] \in Int /\ ZoneOf(cell[p])[d] = 0
    BY <1>2, <1>3 DEF Centre
  <2>2. InBound(cell[p])
    BY <2>1, CellAssumption DEF ZoneOf, InBound
  <2>3. InDomain(r, pos[p])
    BY <1>2, <2>2, CentreInside
  <2> QED
    BY <2>3 DEF Owned
<1>4. S # {} => \E d \in Axis : Neighbor(r, d, 1) = r
  <2> SUFFICES ASSUME NEW p \in S PROVE \E d \in Axis : Neighbor(r, d, 1) = r
    OBVIOUS
  <2>1. p \in arr[r] /\ InDomain(r, pos[p]) /\ ZoneOf(cell[p]) # Centre
    BY DEF Owned
  <2> QED
    BY <1>2, <2>1, OwnNeighbour
<1>5. arr' = [arr EXCEPT ![r] = Owned(r) \ S]
  <2>1. {p \in arr[r] : ZoneOf(cell[p]) = Centre} = Owned(r) \ S
    BY <1>3 DEF Owned
  <2> QED
    BY <1>1, <2>1
<1>6. \A z \in Zone : buf[r][z] = {}
  BY <1>0, <1>1 DEF KeepInv, ZoneInv, BufferZones
<1>7. ASSUME NEW p \in Ptc
      PROVE  ~NotPacked(p)' <=>
               ~NotPacked(p) \/ (p \in arr[r] /\ ZoneOf(cell[p]) # Centre)
  <2>1. \A q \in Rank, z \in Zone :
          p \in buf'[q][z] <=>
            IF q = r THEN z # Centre /\ p \in arr[r] /\ ZoneOf(cell[p]) = z
            ELSE p \in buf[q][z]
    BY <1>0, <1>1, StateTypes DEF Packed
  <2>2. p \in arr[r] => ZoneOf(cell[p]) \in Zone
    BY <1>2
  <2> QED
    BY <1>6, <2>1, <2>2 DEF NotPacked
<1>8. \A p \in Ptc : NotSent(p)' <=> NotSent(p)
  BY <1>1 DEF NotSent
<1>9. Moving' = Moving \cup (arr[r] \ Owned(r)) \cup S
  <2>1. arr[r] \subseteq Ptc
    BY <1>2
  <2>2. \A p \in Ptc : p \in Moving' <=>
          \/ p \in Moving
          \/ p \in arr[r] /\ ZoneOf(cell[p]) # Centre
    BY <1>7, <1>8 DEF Moving
  <2>3. \A p : p \in arr[r] /\ ZoneOf(cell[p]) # Centre
                 <=> p \in arr[r] \ Owned(r) \/ p \in S
    BY <1>3 DEF Owned
  <2>4. Moving \subseteq Ptc /\ Moving' \subseteq Ptc
    BY DEF Moving
  <2> HIDE DEF S
  <2> QED
    BY <2>1, <2>2, <2>3, <2>4
<1>10. pos' = pos /\ Gone' = Gone
  BY <1>1 DEF Gone
<1>11. S \in SUBSET Owned(r)
  OBVIOUS
<1> HIDE DEF S
<1> QED
  BY <1>4, <1>5, <1>9, <1>10, <1>11, LeaveMaps

\* A pass keeps what is in buffers and messages in buffers and messages.
LEMMA PassImplements ==
  ASSUME ArriveInv, NEW r \in Rank,
         LocalCopy(r) \/ Recv(r) \/ (Send(r) /\ Dest(r, phase[r]) # PROC_NULL)
  PROVE  UNCHANGED Promise!vars
<1>0. KeepInv /\ Located
  BY DEF ArriveInv
<1> DEFINE k == phase[r]
<1>1. k \in Phases
  BY <1>0, StateTypes
<1>2. UNCHANGED <<arr, pos, dropped, exited>>
  BY DEF LocalCopy, Recv, Send
<1>3. ASSUME NEW p \in Ptc
      PROVE  /\ (\E z \in Zone : p \in buf[r][z]) <=>
                  \/ \E z \in Zone : p \in Load(r, k)[z]
                  \/ \E z \in Zone : p \in Emptied(r, k)[z]
  <2>1. \A z \in Zone : /\ p \in Load(r, k)[z] <=>
                             z \in Inward(k) /\ p \in buf[r][Outward(k, z)]
                        /\ p \in Emptied(r, k)[z] <=>
                             z \notin Sent(k) /\ p \in buf[r][z]
    BY <1>1, LoadMembers
  <2>2. /\ \A z \in Inward(k) : z \in Zone /\ Outward(k, z) \in Sent(k)
        /\ \A z \in Sent(k) : z \in Zone /\ \E y \in Inward(k) : z = Outward(k, y)
    BY <1>0, <1>1, StateTypes, PassMoves
  <2> QED
    BY <2>1, <2>2
<1>4. ASSUME NEW p \in Ptc
      PROVE  ~NotPacked(p)' \/ ~NotSent(p)' <=> ~NotPacked(p) \/ ~NotSent(p)
  <2>1. CASE LocalCopy(r)
    <3>1. net' = net /\ buf' = [buf EXCEPT ![r] = Merge(Emptied(r, k), Load(r, k))]
      BY <2>1 DEF LocalCopy
    <3>2. \A q \in Rank, z \in Zone :
            p \in buf'[q][z] <=>
              IF q = r THEN p \in Emptied(r, k)[z] \/ p \in Load(r, k)[z]
              ELSE p \in buf[q][z]
      BY <1>0, <3>1, StateTypes DEF Merge
    <3>3. NotPacked(p)' <=> NotPacked(p)
      BY <1>3, <3>2 DEF NotPacked
    <3> QED
      BY <3>1, <3>3 DEF NotSent
  <2>2. CASE Recv(r)
    <3>1. PICK m \in Matching(r, phase[r]) :
            /\ net' = net \ {m}
            /\ buf' = [buf EXCEPT ![r] = Merge(buf[r], m.load)]
      BY <1>0, <2>2, StateTypes DEF Recv, KeepInv, Appends
    <3>2. m \in net
      BY <3>1 DEF Matching, Oldest
    <3>3. \A q \in Rank, z \in Zone :
            p \in buf'[q][z] <=> p \in buf[q][z] \/ (q = r /\ p \in m.load[z])
      BY <1>0, <3>1, StateTypes DEF Merge
    <3>4. ~NotPacked(p)' <=> ~NotPacked(p) \/ \E z \in Zone : p \in m.load[z]
      BY <3>3 DEF NotPacked
    <3>5. ~NotSent(p) <=> ~NotSent(p)' \/ \E z \in Zone : p \in m.load[z]
      BY <3>1, <3>2 DEF NotSent
    <3> QED
      BY <3>4, <3>5
  <2>3. CASE Send(r) /\ Dest(r, k) # PROC_NULL
    <3> DEFINE n == [src |-> r, dst |-> Dest(r, k), step |-> step[r],
                     phase |-> k, load |-> Load(r, k)]
    <3>1. net' = net \cup {n} /\ buf' = [buf EXCEPT ![r] = Emptied(r, k)]
      BY <2>3 DEF Send
    <3>2. n.load = Load(r, k)
      OBVIOUS
    <3> HIDE DEF n
    <3>3. \A q \in Rank, z \in Zone :
            p \in buf'[q][z] <=>
              IF q = r THEN p \in Emptied(r, k)[z] ELSE p \in buf[q][z]
      BY <1>0, <3>1, StateTypes
    <3>4. ~NotPacked(p) <=> ~NotPacked(p)' \/ \E z \in Zone : p \in n.load[z]
      BY <1>3, <3>2, <3>3 DEF NotPacked
    <3>5. ~NotSent(p)' <=> ~NotSent(p) \/ \E z \in Zone : p \in n.load[z]
      BY <3>1 DEF NotSent
    <3> QED
      BY <3>4, <3>5
  <2> QED
    BY <2>1, <2>2, <2>3
<1>5. Moving' = Moving
  BY <1>4 DEF Moving
<1> QED
  BY <1>2, <1>5, StutterMaps DEF Gone

\* What is in a buffer is nowhere else.
LEMMA PackedAlone ==
  ASSUME KeepInv, NEW r \in Rank, NEW z \in Zone, NEW p \in buf[r][z]
  PROVE  /\ p \in Ptc
         /\ \A q \in Rank, y \in Zone : p \in buf[q][y] => q = r /\ y = z
         /\ NotSent(p)
<1>1. p \in Ptc
  BY StateTypes
<1>2. PackedOnce(p)
  BY <1>1 DEF KeepInv, Placed, HeldOnce, SentOnce, GoneOnce, NotPacked
<1> QED
  BY <1>1, <1>2 DEF PackedOnce

\* Only what is outside the domain is discarded.
LEMMA DiscardImplements ==
  ASSUME ArriveInv, NEW r \in Rank, Send(r), Dest(r, phase[r]) = PROC_NULL
  PROVE  Promise!Exit
<1>0. KeepInv /\ Located
  BY DEF ArriveInv
<1> DEFINE k == phase[r]
           S == UNION {Load(r, k)[z] : z \in Zone}
<1>1. k \in Phases
  BY <1>0, StateTypes
<1>2. /\ UNCHANGED <<arr, pos, net, dropped>>
      /\ exited' = exited \cup S
      /\ buf' = [buf EXCEPT ![r] = Emptied(r, k)]
  BY DEF Send
<1>3. \A p \in Ptc, z \in Zone :
        /\ p \in Load(r, k)[z] <=> z \in Inward(k) /\ p \in buf[r][Outward(k, z)]
        /\ p \in Emptied(r, k)[z] <=> z \notin Sent(k) /\ p \in buf[r][z]
  BY <1>1, LoadMembers
<1>4. /\ \A z \in Inward(k) : z \in Zone /\ Outward(k, z) \in Sent(k)
      /\ \A z \in Sent(k) : z \in Zone /\ \E y \in Inward(k) : z = Outward(k, y)
  BY <1>0, <1>1, StateTypes, PassMoves
<1>5. S \subseteq Ptc
  <2>1. \A z \in Zone : Load(r, k)[z] \subseteq Ptc
    BY <1>0, <1>1, StateTypes, LoadType
  <2> QED
    BY <2>1
<1>6. ASSUME NEW p \in Ptc
      PROVE  p \in S <=> \E y \in Sent(k) : p \in buf[r][y]
  BY <1>3, <1>4
<1> HIDE DEF S
<1>7. ASSUME NEW p \in S
      PROVE  p \in Moving /\ Outside(pos[p]) /\ p \notin Moving'
  <2>1. PICK y \in Sent(k) : p \in buf[r][y]
    BY <1>5, <1>6
  <2>2. y \in Zone /\ p \in Ptc
    BY <1>4, <1>5
  <2>3. NotSent(p) /\ \A q \in Rank, z \in Zone : p \in buf[q][z] => q = r /\ z = y
    BY <1>0, <2>1, <2>2, PackedAlone
  <2>4. p \in Moving
    BY <2>1, <2>2 DEF Moving, NotPacked
  <2>5. Outside(pos[p])
    <3>1. \E z \in Zone : p \in Load(r, k)[z]
      BY <1>3, <1>4, <2>1, <2>2
    <3> QED
      BY <1>1, <3>1, LoadLocated
  <2>6. NotPacked(p)'
    <3>1. \A q \in Rank, z \in Zone : p \in buf'[q][z] =>
            IF q = r THEN z \notin Sent(k) /\ p \in buf[r][z] ELSE p \in buf[q][z]
      BY <1>0, <1>2, <1>3, <2>2, StateTypes
    <3> QED
      BY <2>1, <2>3, <3>1 DEF NotPacked
  <2>7. NotSent(p)'
    BY <1>2, <2>3 DEF NotSent
  <2> QED
    BY <2>4, <2>5, <2>6, <2>7 DEF Moving
<1>8. ASSUME NEW p \in Ptc, p \notin S
      PROVE  p \in Moving' <=> p \in Moving
  <2>1. \A q \in Rank, z \in Zone : p \in buf'[q][z] <=> p \in buf[q][z]
    BY <1>0, <1>2, <1>3, <1>6, <1>8, StateTypes
  <2> QED
    BY <1>2, <2>1 DEF Moving, NotPacked, NotSent
<1>9. Moving' = Moving \ S
  <2>1. Moving \subseteq Ptc /\ Moving' \subseteq Ptc
    BY DEF Moving
  <2> QED
    BY <1>7, <1>8, <2>1
<1>10. S \in SUBSET {p \in Moving : Outside(pos[p])}
  BY <1>7
<1>11. Gone' = Gone \cup S /\ pos' = pos /\ arr' = arr
  BY <1>2 DEF Gone
<1> QED
  BY <1>9, <1>10, <1>11, ExitMaps

\* What is unpacked arrives at the owner of its position.
LEMMA UnpackImplements ==
  ASSUME ArriveInv, NEW r \in Rank, Unpack(r)
  PROVE  Promise!Arrive(r)
<1>0. KeepInv /\ Located
  BY DEF ArriveInv
<1> DEFINE S == buf[r][Centre]
<1>1. PICK kept \in SUBSET S :
        /\ arr' = [arr EXCEPT ![r] = @ \cup kept]
        /\ dropped' = dropped \cup (S \ kept)
  BY DEF Unpack
<1>2. /\ buf' = [buf EXCEPT ![r][Centre] = {}]
      /\ UNCHANGED <<pos, net, exited>>
  BY DEF Unpack
<1>3. Centre \in Zone
  BY VectorTypes
<1>4. ASSUME NEW p \in S
      PROVE  p \in Moving /\ InDomain(r, pos[p]) /\ p \notin Moving'
  <2>1. /\ p \in Ptc /\ NotSent(p)
        /\ \A q \in Rank, y \in Zone : p \in buf[q][y] => q = r /\ y = Centre
    BY <1>0, <1>3, PackedAlone
  <2>2. /\ cell[p] \in [Axis -> Int] /\ InBound(cell[p])
        /\ pos[p] = Global(r, Centre, cell[p])
    BY <1>0, <1>3, <2>1, StateTypes DEF KeepInv, Inside, Located
  <2>3. InDomain(r, pos[p])
    BY <2>2, CentreInside
  <2>4. p \in Moving
    BY <1>3, <2>1 DEF Moving, NotPacked
  <2>5. NotPacked(p)'
    <3>1. \A q \in Rank, z \in Zone :
            p \in buf'[q][z] => p \in buf[q][z] /\ ~(q = r /\ z = Centre)
      BY <1>0, <1>2, <1>3, StateTypes
    <3> QED
      BY <2>1, <3>1 DEF NotPacked
  <2>6. NotSent(p)'
    BY <1>2, <2>1 DEF NotSent
  <2> QED
    BY <2>3, <2>4, <2>5, <2>6 DEF Moving
<1>5. ASSUME NEW p \in Ptc, p \notin S
      PROVE  p \in Moving' <=> p \in Moving
  <2>1. \A q \in Rank, z \in Zone : p \in buf'[q][z] <=> p \in buf[q][z]
    BY <1>0, <1>2, <1>5, StateTypes
  <2> QED
    BY <1>2, <2>1 DEF Moving, NotPacked, NotSent
<1>6. S \subseteq Ptc
  BY <1>0, StateTypes
<1> HIDE DEF S
<1>7. Moving' = Moving \ S
  <2>1. Moving \subseteq Ptc /\ Moving' \subseteq Ptc
    BY DEF Moving
  <2> QED
    BY <1>4, <1>5, <2>1
<1>8. S \in SUBSET {p \in Moving : InDomain(r, pos[p])}
  BY <1>4
<1>9. /\ S \ kept \in SUBSET S
      /\ S \ (S \ kept) = kept
  BY <1>1
<1>10. Gone' = Gone \cup (S \ kept) /\ pos' = pos
  BY <1>1, <1>2 DEF Gone
<1>11. arr' = [arr EXCEPT ![r] = @ \cup (S \ (S \ kept))]
  BY <1>1, <1>9
<1> QED
  BY <1>7, <1>8, <1>9, <1>10, <1>11, ArriveMaps

\* A particle only changes hands from a rank to the owner of its position, or
\* leaves at an open boundary: what send_particles_impl does with buffers,
\* passes and messages is a step of Migration or none, in one and two dimensions
\* and on a device with device-aware MPI in three.
THEOREM MigrationImplemented ==
  ASSUME Dim <= 2 \/ CudaMPI
  PROVE  Spec => ImplementsMigration
<1>1. Init => Promise!Init
  <2> SUFFICES ASSUME Init PROVE Promise!Init
    OBVIOUS
  <2>1. /\ pos \in [Ptc -> Domain]
        /\ arr = [r \in Rank |-> {p \in Ptc : InDomain(r, pos[p])}]
        /\ buf = [r \in Rank |-> [z \in Zone |-> {}]]
        /\ net = {} /\ dropped = {} /\ exited = {}
    BY DEF Init
  <2>2. Moving = {} /\ Gone = {}
    BY <2>1 DEF Moving, NotPacked, NotSent, Gone
  <2> QED
    BY <2>1, <2>2, StartMaps
<1>2. ASSUME ArriveInv, [Next]_vars PROVE [Promise!Next]_(Promise!vars)
  <2>0. KeepInv /\ Promise!Rank = Rank
    BY <1>2, SameDomain DEF ArriveInv
  <2>1. ASSUME NEW r \in Rank, RankStep(r)
        PROVE  Promise!Next \/ UNCHANGED Promise!vars
    <3>1. CASE Drift(r)
      BY <1>2, <2>0, <3>1, DriftImplements DEF Promise!Next
    <3>2. CASE Pack(r)
      BY <1>2, <2>0, <3>2, PackImplements DEF Promise!Next
    <3>3. CASE LocalCopy(r) \/ Recv(r)
      BY <1>2, <3>3, PassImplements
    <3>4. CASE Send(r)
      BY <1>2, <3>4, PassImplements, DiscardImplements DEF Promise!Next
    <3>5. CASE RecvNothing(r)
      <4>1. UNCHANGED <<arr, buf, net, dropped, exited, pos>>
        BY <3>5 DEF RecvNothing
      <4>2. Moving' = Moving /\ Gone' = Gone
        BY <4>1 DEF Moving, NotPacked, NotSent, Gone
      <4> QED
        BY <4>1, <4>2, StutterMaps
    <3>6. CASE Unpack(r)
      BY <1>2, <2>0, <3>6, UnpackImplements DEF Promise!Next
    <3>7. CASE Tidy(r)
      <4>1. stage[r] = "tidy" /\ UNCHANGED <<buf, net, dropped, exited, pos>>
        BY <3>7 DEF Tidy, At
      <4>2. \A p \in arr[r] : InBound(cell[p])
        BY <2>0, <4>1 DEF KeepInv, Inside
      <4>3. arr' = arr
        BY <2>0, <3>7, <4>2, StateTypes DEF Tidy
      <4>4. Moving' = Moving /\ Gone' = Gone
        BY <4>1 DEF Moving, NotPacked, NotSent, Gone
      <4> QED
        BY <4>1, <4>3, <4>4, StutterMaps
    <3> QED
      BY <2>1, <3>1, <3>2, <3>3, <3>4, <3>5, <3>6, <3>7 DEF RankStep
  <2>2. ASSUME UNCHANGED vars PROVE UNCHANGED Promise!vars
    <3>1. UNCHANGED <<arr, buf, net, dropped, exited, pos>>
      BY <2>2 DEF vars
    <3>2. Moving' = Moving /\ Gone' = Gone
      BY <3>1 DEF Moving, NotPacked, NotSent, Gone
    <3> QED
      BY <3>1, <3>2, StutterMaps
  <2> QED
    BY <1>2, <2>1, <2>2 DEF Next, Finished
<1>3. Init => ArriveInv
  BY AppendsWhen, ArriveInit
<1> QED
  BY <1>1, <1>2, <1>3, ArriveNext, PTL DEF Spec, ImplementsMigration, Promise!Spec

\* When every rank is done, each particle that no full array dropped is held by
\* the rank whose domain it moved into (what the comments of
\* tests/test_mpi3d.cpp expect), on the builds where every receive appends.
THEOREM EachReachesItsRank ==
  ASSUME Dim <= 2 \/ CudaMPI
  PROVE  Spec => []ReachesItsRank
<1>1. ASSUME ArriveInv PROVE ReachesItsRank
  <2> SUFFICES ASSUME \A r \in Rank : At(r, "done"),
                      NEW p \in Ptc \ dropped, NEW r \in Rank, InDomain(r, pos[p])
               PROVE  p \in arr[r]
    BY DEF ReachesItsRank
  <2>0. KeepInv /\ Located /\ Placed(p)
    BY <1>1 DEF ArriveInv, KeepInv
  <2>1. NotPacked(p)
    BY <2>0 DEF KeepInv, ZoneInv, BufferZones, At, NotPacked
  <2>2. NotSent(p)
    <3>1. ASSUME NEW m \in net PROVE FALSE
      <4>1. m.src \in Rank /\ m.dst \in Rank
        BY <2>0, StateTypes
      <4>2. /\ Posted(m.src, m.step, m.phase) /\ ~Taken(m.dst, m.step, m.phase)
            /\ StepsLeft
        BY <2>0 DEF KeepInv, ZoneInv, MatchInv, TypeInv, InFlight
      <4>3. step[m.src] = step[m.dst]
        BY <4>1, <4>2 DEF StepsLeft
      <4> QED
        BY <4>1, <4>2, <4>3 DEF Posted, Taken, At
    <3> QED
      BY <3>1 DEF NotSent
  <2>3. pos[p] \in [Axis -> Int]
    BY <2>0, StateTypes
  <2>4. p \notin exited
    <3>1. ~Outside(pos[p])
      <4> SUFFICES ASSUME NEW d \in Axis
                   PROVE  0 <= pos[p][d] /\ pos[p][d] < Dims[d] * N
        BY <2>3, Extent DEF Outside
      <4>1. /\ r[d] \in 0..(Dims[d] - 1) /\ Dims[d] \in Nat \ {0} /\ N \in Nat
            /\ pos[p][d] \in Int
        BY <2>3, RankCoord, CellAssumption
      <4>2. r[d] * N <= pos[p][d] /\ pos[p][d] < (r[d] + 1) * N
        BY DEF InDomain
      <4>3. 0 * N <= r[d] * N /\ (r[d] + 1) * N <= Dims[d] * N
        <5>1. /\ 0 \in Int /\ r[d] \in Int /\ r[d] + 1 \in Int /\ Dims[d] \in Int
              /\ 0 <= r[d] /\ r[d] + 1 <= Dims[d]
          BY <4>1
        <5> QED
          BY <4>1, <5>1, ScaleMonotone
      <4>4. /\ 0 * N = 0 /\ r[d] * N \in Int /\ (r[d] + 1) * N \in Int
            /\ Dims[d] * N \in Int
        BY <4>1
      <4> QED
        BY <4>1, <4>2, <4>3, <4>4
    <3> QED
      BY <2>0, <3>1 DEF Located
  <2>5. PICK q \in Rank : p \in arr[q]
    BY <2>0, <2>1, <2>2, <2>4 DEF Placed, HeldOnce, PackedOnce, SentOnce,
                                  GoneOnce, NotPacked, NotSent
  <2>6. /\ cell[p] \in [Axis -> Int] /\ InBound(cell[p])
        /\ pos[p] = Global(q, Centre, cell[p])
    BY <2>0, <2>5, StateTypes DEF KeepInv, Inside, Located, At
  <2>7. InDomain(q, pos[p]) /\ pos[p] \in Domain
    BY <2>6, CentreInside
  <2>8. r = q
    BY <2>7, OneOwner
  <2> QED
    BY <2>5, <2>8
<1>2. Init => ArriveInv
  BY AppendsWhen, ArriveInit
<1> QED
  BY <1>1, <1>2, ArriveNext, PTL DEF Spec
=============================================================================
