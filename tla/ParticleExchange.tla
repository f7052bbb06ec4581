-------------------------- MODULE ParticleExchange --------------------------
(***************************************************************************)
(* The particle part of one time step on a Cartesian grid of MPI ranks:    *)
(* particles drift, the ones found in guard cells are packed into one      *)
(* communication buffer per neighbouring zone, the buffers are shifted     *)
(* along x, then y, then z, and what arrives in the central buffer is      *)
(* appended to the particle array (domain_comm::send_particles_impl with   *)
(* the kernels it calls, inside ptc_updater::update).                      *)
(*                                                                         *)
(* A communication buffer is a set: the order of particles inside a buffer *)
(* is the order of the particle array, which is arbitrary.  A zone number  *)
(* 0 .. 3^Dim - 1 is written as its ternary digits, each moved to -1 .. 1. *)
(* The MPI_Sendrecv calls of one phase run between the same two ranks, in  *)
(* the same order on both sides and on disjoint buffers, so a phase is one *)
(* exchange of one message that carries every lane.                        *)
(***************************************************************************)
EXTENDS CartesianDomain, MPI, FiniteSets

CONSTANTS
  Ptc,           \* the particles that exist
  Reach,         \* the displacements, in cells, of a particle in one step
  MaxPtc,        \* capacity of the particle array of a rank
  SortInterval,  \* sort_interval; 0 turns sorting off
  CudaMPI,       \* m_is_device && use_cuda_mpi
  MaxStep        \* steps each rank takes (bound of the model)

ASSUME PtcAssumption == IsFiniteSet(Ptc)
ASSUME ReachAssumption == Reach \subseteq [Axis -> -G..G]
ASSUME BoundAssumption ==
  /\ MaxPtc \in Nat
  /\ SortInterval \in Nat
  /\ MaxStep \in Nat \ {0}
  /\ CudaMPI \in BOOLEAN

-----------------------------------------------------------------------------
(* Zones and phases *)

Zone == [Axis -> {-1, 0, 1}]
Centre == [d \in Axis |-> 0]

\* Mutant of ZoneOf: the first guard cell counts as interior.
ZoneOfLoose(c) ==
  [d \in Axis |-> IF c[d] < G THEN -1 ELSE IF c[d] <= N + G THEN 0 ELSE 1]

\* find_zone: which side of the interior a local cell lies on, per axis.
ZoneOf(c) ==
  [d \in Axis |-> IF c[d] < G THEN -1 ELSE IF c[d] < N + G THEN 0 ELSE 1]

\* Mutant of Shift: by the full extent, guard cells included.
ShiftFull(c, z) == [d \in Axis |-> c[d] - z[d] * (N + 2 * G)]

\* The same cell in the frame of the rank that zone z belongs to.
Shift(c, z) == [d \in Axis |-> c[d] - z[d] * N]

Phases == 1..(2 * Dim)

\* Buffers that receive in phase k (digit 0 up to the axis of k), and the
\* buffer each of them is filled from.
Inward(k) == {z \in Zone : \A d \in 1..PhaseAxis(k) : z[d] = 0}

\* Mutant of Outward: the buffer of the opposite side.
OutwardSwapped(k, z) == [z EXCEPT ![PhaseAxis(k)] = -PhaseDir(k)]

Outward(k, z) == [z EXCEPT ![PhaseAxis(k)] = PhaseDir(k)]
Sent(k) == {Outward(k, z) : z \in Inward(k)}

\* x and y use the batch overload of send_particle_array on m_cart, z the
\* single-buffer overload on m_world.
Batched(k) == PhaseAxis(k) < 3
Communicator(k) == IF Batched(k) THEN "m_cart" ELSE "m_world"

-----------------------------------------------------------------------------
VARIABLES
  stage,    \* where each rank is inside its time step
  phase,    \* the exchange phase of each rank
  step,     \* the time step of each rank
  arr,      \* the live particles in the particle array of each rank
  number,   \* ptc.number(): slots in use, empty_cell holes included
  buf,      \* ptc_buffers with ptc_buffer_nums, per rank and zone
  ghost,    \* slots buf_nums counts in the central buffer beyond its particles
  cell,     \* ptc.cell of each particle, wherever the particle is stored
  net,      \* messages sent and not yet received
  dropped,  \* particles past the end of a full particle array
  exited,   \* particles sent to MPI_PROC_NULL
  pos       \* history: where in the global domain each particle really is

vars == <<stage, phase, step, arr, number, buf, ghost, cell, net, dropped,
          exited, pos>>

Stages == {"drift", "pack", "send", "recv", "unpack", "tidy", "done"}
Message == [src : Rank, dst : Rank, step : Nat, phase : Phases,
            load : [Zone -> SUBSET Ptc]]

\* MPI_Sendrecv posted by r in phase k matches the oldest message of its
\* source on the communicator it uses.
Matching(r, k) ==
  Oldest({m \in net : Communicator(m.phase) = Communicator(k)},
         Source(r, k), r)

At(r, s) == stage[r] = s
Goto(r, s) == stage' = [stage EXCEPT ![r] = s]
\* Mutant of LastPhase: one phase too many.
LastPhaseLate(k) == k > 2 * Dim

LastPhase(k) == k = 2 * Dim

NextPhase(r) ==
  IF LastPhase(phase[r])
  THEN Goto(r, "unpack") /\ UNCHANGED phase
  ELSE Goto(r, "send") /\ phase' = [phase EXCEPT ![r] = @ + 1]

\* Any placement of the particles in the interior that fits the arrays.
Init ==
  /\ pos \in [Ptc -> Domain]
  /\ arr = [r \in Rank |-> {p \in Ptc : InDomain(r, pos[p])}]
  /\ \A r \in Rank : Cardinality(arr[r]) <= MaxPtc
  /\ number = [r \in Rank |-> Cardinality(arr[r])]
  /\ cell = [p \in Ptc |-> LocalCell(Owner(pos[p]), pos[p])]
  /\ stage = [r \in Rank |-> "drift"]
  /\ phase = [r \in Rank |-> 1]
  /\ step = [r \in Rank |-> 0]
  /\ buf = [r \in Rank |-> [z \in Zone |-> {}]]
  /\ ghost = [r \in Rank |-> 0]
  /\ net = {}
  /\ dropped = {}
  /\ exited = {}

\* The push: every live particle of r moves by at most G cells per axis.
Drift(r) ==
  /\ At(r, "drift")
  /\ \E f \in [arr[r] -> Reach] :
       /\ cell' = [p \in Ptc |->
                     IF p \in arr[r] THEN Add(cell[p], f[p]) ELSE cell[p]]
       /\ pos' = [p \in Ptc |->
                    IF p \in arr[r] THEN Wrap(Add(pos[p], f[p])) ELSE pos[p]]
  /\ Goto(r, "pack")
  /\ UNCHANGED <<phase, step, arr, number, buf, ghost, net, dropped, exited>>

\* buf_nums is zeroed, then every live particle outside the centre moves to
\* the buffer of its zone; its slot in the array becomes an empty_cell hole.
Packed(r) ==
  [z \in Zone |->
     IF z = Centre THEN {} ELSE {p \in arr[r] : ZoneOf(cell[p]) = z}]

Pack(r) ==
  /\ At(r, "pack")
  /\ buf' = [buf EXCEPT ![r] = Packed(r)]
  /\ ghost' = [ghost EXCEPT ![r] = 0]
  /\ arr' = [arr EXCEPT ![r] = {p \in @ : ZoneOf(cell[p]) = Centre}]
  /\ cell' = [p \in Ptc |-> IF p \in arr[r] THEN Shift(cell[p], ZoneOf(cell[p]))
                            ELSE cell[p]]
  /\ phase' = [phase EXCEPT ![r] = 1]
  /\ Goto(r, "send")
  /\ UNCHANGED <<step, number, net, dropped, exited, pos>>

\* What r sends in phase k, keyed by the buffer that receives it.
Load(r, k) ==
  [z \in Zone |-> IF z \in Inward(k) THEN buf[r][Outward(k, z)] ELSE {}]

\* Mutant of Emptied: buf_nums of the sent buffers is not reset.
EmptiedNot(r, k) == buf[r]

\* Buffers of r once the ones sent in phase k are reset to zero particles.
Emptied(r, k) ==
  [z \in Zone |-> IF z \in Sent(k) THEN {} ELSE buf[r][z]]

Merge(b, load) == [z \in Zone |-> b[z] \cup load[z]]

\* src == dst == m_rank: one rank along a periodic axis, a local copy.
ShortCut(r, k) == Batched(k) /\ Dest(r, k) = r /\ Source(r, k) = r

LocalCopy(r) ==
  LET k == phase[r] IN
  /\ At(r, "send")
  /\ ShortCut(r, k)
  /\ buf' = [buf EXCEPT ![r] = Merge(Emptied(r, k), Load(r, k))]
  /\ NextPhase(r)
  /\ UNCHANGED <<step, arr, number, ghost, cell, net, dropped, exited, pos>>

\* The sending half of MPI_Sendrecv; a send to MPI_PROC_NULL discards.
Send(r) ==
  LET k == phase[r] IN
  /\ At(r, "send")
  /\ ~ShortCut(r, k)
  /\ IF Dest(r, k) = PROC_NULL
     THEN /\ exited' = exited \cup UNION {Load(r, k)[z] : z \in Zone}
          /\ UNCHANGED net
     ELSE /\ net' = net \cup {[src |-> r, dst |-> Dest(r, k), step |-> step[r],
                               phase |-> k, load |-> Load(r, k)]}
          /\ UNCHANGED exited
  /\ buf' = [buf EXCEPT ![r] = Emptied(r, k)]
  /\ Goto(r, "recv")
  /\ UNCHANGED <<phase, step, arr, number, ghost, cell, dropped, pos>>

\* The single-buffer overload on a host build receives at the start of the
\* buffer, not after the particles already in it, and still adds the counts:
\* the first Cardinality(new) of the old ones are overwritten, and as many
\* slots after the last particle are counted too.  Those are default
\* constructed (cell = empty_cell) in the first step; later they may repeat
\* particles of earlier steps, which the model does not follow.
Overwritten(old, new, kept) ==
  /\ kept \subseteq old
  /\ Cardinality(kept) =
       IF Cardinality(new) < Cardinality(old)
       THEN Cardinality(old) - Cardinality(new) ELSE 0

\* Mutant of AtOffset: the device build makes the same mistake.
AtOffsetBatch(k) == Batched(k)

AtOffset(k) == Batched(k) \/ CudaMPI

\* The receiving half of MPI_Sendrecv.  Nothing comes from MPI_PROC_NULL.
Recv(r) ==
  LET k == phase[r] IN
  /\ At(r, "recv")
  /\ Source(r, k) # PROC_NULL
  /\ \E m \in Matching(r, k) :
       /\ net' = net \ {m}
       /\ IF AtOffset(k)
          THEN buf' = [buf EXCEPT ![r] = Merge(buf[r], m.load)] /\ UNCHANGED ghost
          ELSE \E kept \in SUBSET buf[r][Centre] :
                 /\ Overwritten(buf[r][Centre], m.load[Centre], kept)
                 /\ buf' = [buf EXCEPT ![r][Centre] = kept \cup m.load[Centre]]
                 /\ ghost' = [ghost EXCEPT ![r] =
                                @ + Cardinality(buf[r][Centre] \ kept)]
  /\ NextPhase(r)
  /\ UNCHANGED <<step, arr, number, cell, dropped, exited, pos>>

\* Mutant of RecvNothing: a rank without a source waits for a message.
RecvNothingBlocks(r) == FALSE

RecvNothing(r) ==
  /\ At(r, "recv")
  /\ Source(r, phase[r]) = PROC_NULL
  /\ NextPhase(r)
  /\ UNCHANGED <<step, arr, number, buf, ghost, cell, net, dropped, exited, pos>>

\* Mutant of Room: slots in use are not counted.
RoomAll(r) == MaxPtc

Room(r) == MaxPtc - number[r]

\* What the exchange took in, ghost slots included, up to the free slots.
Fitting(r, n) == IF n <= Room(r) THEN n ELSE Room(r)

\* ptc_copy_from_buffer: the arrivals are appended after ptc.number() and
\* the ones that do not fit are silently left out.
Unpack(r) ==
  LET arrivals == buf[r][Centre] IN
  /\ At(r, "unpack")
  /\ \E kept \in SUBSET arrivals :
       /\ Cardinality(kept) = Fitting(r, Cardinality(arrivals))
       /\ arr' = [arr EXCEPT ![r] = @ \cup kept]
       /\ dropped' = dropped \cup (arrivals \ kept)
  /\ number' = [number EXCEPT ![r] =
                  @ + Fitting(r, Cardinality(arrivals) + ghost[r])]
  /\ buf' = [buf EXCEPT ![r][Centre] = {}]
  /\ ghost' = [ghost EXCEPT ![r] = 0]
  /\ Goto(r, "tidy")
  /\ UNCHANGED <<phase, step, cell, net, exited, pos>>

\* clear_guard_cells, then every SortInterval steps the sort that squeezes
\* the holes out of the array.
InBound(c) == \A d \in Axis : c[d] >= G /\ c[d] < N + G
Sorts(n) == SortInterval > 0 /\ n % SortInterval = 0

Tidy(r) ==
  LET live == {p \in arr[r] : InBound(cell[p])} IN
  /\ At(r, "tidy")
  /\ arr' = [arr EXCEPT ![r] = live]
  /\ number' = [number EXCEPT ![r] = IF Sorts(step[r]) THEN Cardinality(live)
                                     ELSE @]
  /\ step' = [step EXCEPT ![r] = @ + 1]
  /\ Goto(r, IF step[r] + 1 = MaxStep THEN "done" ELSE "drift")
  /\ UNCHANGED <<phase, buf, ghost, cell, net, dropped, exited, pos>>

RankStep(r) ==
  \/ Drift(r) \/ Pack(r) \/ LocalCopy(r) \/ Send(r) \/ Recv(r)
  \/ RecvNothing(r) \/ Unpack(r) \/ Tidy(r)

Finished == (\A r \in Rank : At(r, "done")) /\ UNCHANGED vars

Next == (\E r \in Rank : RankStep(r)) \/ Finished

Spec == Init /\ [][Next]_vars

\* Every MPI process keeps running.
FairSpec == Spec /\ \A r \in Rank : WF_vars(RankStep(r))

-----------------------------------------------------------------------------
(* Properties *)

TypeOK ==
  /\ stage \in [Rank -> Stages]
  /\ phase \in [Rank -> Phases]
  /\ step \in [Rank -> 0..MaxStep]
  /\ arr \in [Rank -> SUBSET Ptc]
  /\ number \in [Rank -> 0..MaxPtc]
  /\ buf \in [Rank -> [Zone -> SUBSET Ptc]]
  /\ ghost \in [Rank -> Nat]
  /\ cell \in [Ptc -> [Axis -> Int]]
  /\ net \subseteq Message
  /\ dropped \subseteq Ptc
  /\ exited \subseteq Ptc
  /\ pos \in [Ptc -> [Axis -> Int]]

\* Every place that holds particle p.
Where(p) ==
  {<<"arr", r>> : r \in {r \in Rank : p \in arr[r]}}
  \cup {<<"buf", x[1], x[2]>> :
          x \in {x \in Rank \X Zone : p \in buf[x[1]][x[2]]}}
  \cup {<<"net", x[1], x[2]>> :
          x \in {x \in net \X Zone : p \in x[1].load[x[2]]}}
  \cup (IF p \in dropped THEN {<<"dropped">>} ELSE {})
  \cup (IF p \in exited THEN {<<"exited">>} ELSE {})

\* The exchange neither loses nor duplicates a particle: at every moment each
\* one is in exactly one array, buffer or message, or has left for a reason
\* (an open boundary, a full array).  send_particles_impl.
Accounted == \A p \in Ptc : \E w \in Where(p) : Where(p) = {w}

\* MPI matches messages by order only; the ranks never drift so far apart
\* that a rank receives the message of another phase or another time step.
PhasesMatch ==
  \A r \in Rank : At(r, "recv") =>
    \A m \in Matching(r, phase[r]) :
      m.step = step[r] /\ m.phase = phase[r]

\* After its exchange a rank holds exactly particles of its own domain, each
\* at the local cell of its global position, whatever chain of hops brought
\* it there.  (clear_guard_cells would silently erase any other.)
Settled ==
  \A r \in Rank : stage[r] \in {"tidy", "drift", "done"} =>
    \A p \in arr[r] : InDomain(r, pos[p]) /\ cell[p] = LocalCell(r, pos[p])

\* The three passes empty every communication buffer: nothing stays behind
\* to be wiped when the next exchange zeroes buf_nums.
Drained ==
  \A r \in Rank : \A z \in Zone :
    buf[r][z] # {} =>
      \/ stage[r] \in {"send", "recv"}
      \/ stage[r] = "unpack" /\ z = Centre

\* The live particles never outnumber the slots in use, and the slots in use
\* never outgrow the allocation, through holes, appends and sorts.
Fits ==
  \A r \in Rank : Cardinality(arr[r]) <= number[r] /\ number[r] <= MaxPtc

\* The blocking exchanges never wait on each other for ever: every rank
\* completes all its steps.
EveryRankFinishes == <>(\A r \in Rank : At(r, "done"))

\* When every rank is done, each particle sits on the rank whose domain it
\* moved into (what the comments of tests/test_mpi3d.cpp expect of each
\* particle they place), unless that rank's array was full.
ReachesItsRank ==
  (\A r \in Rank : At(r, "done")) =>
    \A p \in Ptc \ dropped : \A r \in Rank :
      InDomain(r, pos[p]) => p \in arr[r]

\* What the whole exchange promises: particles only change hands from a rank
\* to the owner of their position, or leave at an open boundary.
Promise == INSTANCE Migration WITH
  held <- arr,
  moving <- {p \in Ptc : \/ \E r \in Rank, z \in Zone : p \in buf[r][z]
                         \/ \E m \in net, z \in Zone : p \in m.load[z]},
  gone <- dropped \cup exited
ImplementsMigration == Promise!Spec

-----------------------------------------------------------------------------
(* The inductive invariant behind PhasesMatch, Drained and Accounted *)

\* A rank is done exactly when it has taken all its steps.
StepsLeft == \A r \in Rank : At(r, "done") <=> step[r] = MaxStep

\* Rank r has started the MPI_Sendrecv of phase k of step t.
Posted(r, t, k) ==
  \/ t < step[r]
  \/ /\ t = step[r]
     /\ \/ stage[r] = "send" /\ k < phase[r]
        \/ stage[r] = "recv" /\ k <= phase[r]
        \/ stage[r] \in {"unpack", "tidy"}

\* Rank r has returned from it.
Taken(r, t, k) ==
  \/ t < step[r]
  \/ /\ t = step[r]
     /\ \/ stage[r] \in {"send", "recv"} /\ k < phase[r]
        \/ stage[r] \in {"unpack", "tidy"}

\* Every message is one its sender has posted for the neighbour of that
\* phase and its receiver has not taken.
InFlight ==
  \A m \in net :
    /\ m.dst = Dest(m.src, m.phase)
    /\ ~ShortCut(m.src, m.phase)
    /\ Posted(m.src, m.step, m.phase)
    /\ ~Taken(m.dst, m.step, m.phase)

\* A rank is sent one message per step and phase,
NoSecond ==
  \A m, n \in net :
    m.dst = n.dst /\ m.step = n.step /\ m.phase = n.phase => m = n

\* and none is lost: what was posted and not yet taken is in the network.
NoneMissing ==
  \A r \in Rank, t \in 0..(MaxStep - 1), k \in Phases :
    /\ Source(r, k) # PROC_NULL /\ ~ShortCut(r, k)
    /\ Posted(Source(r, k), t, k) /\ ~Taken(r, t, k)
    => \E m \in net : m.dst = r /\ m.step = t /\ m.phase = k

\* Nothing is received before it is sent.
NoneEarly ==
  \A r \in Rank, t \in 0..(MaxStep - 1), k \in Phases :
    Source(r, k) # PROC_NULL /\ Taken(r, t, k) => Posted(Source(r, k), t, k)

\* Zones whose buffers may hold particles before phase k.
Pending(k) ==
  {z \in Zone :
     /\ \A d \in 1..(PhaseAxis(k) - 1) : z[d] = 0
     /\ PhaseDir(k) = 1 => z[PhaseAxis(k)] # -1}

\* Particles wait only in buffers that a later phase will still send.
BufferZones ==
  /\ \A r \in Rank : \A z \in Zone :
       buf[r][z] # {} =>
         \/ stage[r] = "send" /\ z \in Pending(phase[r])
         \/ stage[r] = "recv" /\ z \in Pending(phase[r]) \ Sent(phase[r])
         \/ stage[r] = "unpack" /\ z = Centre
  /\ \A m \in net : \A z \in Zone :
       m.load[z] # {} => z \in Inward(m.phase)

\* Once packed, a particle is at an interior cell of the rank it is meant for;
\* a push takes it no further than the guard cells.
InReach(c) == \A d \in Axis : c[d] >= 0 /\ c[d] < N + 2 * G
Inside ==
  /\ \A r \in Rank : \A p \in arr[r] :
       IF stage[r] = "pack" THEN InReach(cell[p]) ELSE InBound(cell[p])
  /\ \A r \in Rank : \A z \in Zone : \A p \in buf[r][z] : InBound(cell[p])
  /\ \A m \in net : \A z \in Zone : \A p \in m.load[z] : InBound(cell[p])

\* The position of local cell c of the rank in zone z of r.
Global(r, z, c) == Wrap([d \in Axis |-> (r[d] + z[d]) * N + c[d] - G])

\* A cell is always relative to the rank that the particle is meant for: the one
\* in the zone of its buffer.  Only what is outside the domain is sent nowhere.
Located ==
  /\ \A r \in Rank : \A p \in arr[r] : pos[p] = Global(r, Centre, cell[p])
  /\ \A r \in Rank, z \in Zone : \A p \in buf[r][z] :
       pos[p] = Global(r, z, cell[p])
  /\ \A m \in net, z \in Zone : \A p \in m.load[z] :
       pos[p] = Global(m.dst, z, cell[p])
  /\ \A p \in exited : Outside(pos[p])

\* Together with TypeOK, Fits and Accounted, an inductive invariant: the ranks
\* advance in lockstep with their neighbours as far as messages can tell, and
\* every particle stays on its way to the owner of its position.
Lockstep ==
  /\ StepsLeft /\ InFlight /\ NoSecond /\ NoneMissing /\ NoneEarly
  /\ BufferZones /\ Inside /\ Located
=============================================================================
