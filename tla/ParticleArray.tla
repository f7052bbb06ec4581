---------------------------- MODULE ParticleArray ----------------------------
(***************************************************************************)
(* The particle array of one rank (particles_base): a fixed allocation of  *)
(* which the first ptc.number() slots are in use, with holes where         *)
(* particles died or moved to another rank, and the sort of                *)
(* ptc_sort_by_cell that squeezes the holes out: every segment is sorted   *)
(* by cell, then the segments are filled from the tail of the last one.    *)
(***************************************************************************)
EXTENDS Integers, FiniteSets

CONSTANTS
  Size,      \* size(): the allocation
  Segment,   \* sort_segment_size()
  NumCells,  \* cells are 0 .. NumCells - 1
  MaxId      \* particles created in a behaviour (bound of the model)

ASSUME ArrayAssumption ==
  /\ Size \in Nat \ {0} /\ Segment \in Nat \ {0} /\ NumCells \in Nat \ {0}
  /\ MaxId \in Nat

Slots == 0..(Size - 1)
Cells == 0..(NumCells - 1)
empty_cell == NumCells
Empty == [id |-> 0, cell |-> empty_cell]

VARIABLES
  slot,    \* the id and cell of the particle in each slot
  number,  \* number()
  ptc_id,  \* how many particles were created: the next one's identity
  pc,      \* the loop of the sort that is running
  seg,     \* its segment: n in the first loop, m in the second
  last,    \* last_segment
  nums     \* segment_nums()

vars == <<slot, number, ptc_id, pc, seg, last, nums>>

IsLive(s) == s.cell # empty_cell
Min2(a, b) == IF a <= b THEN a ELSE b

Segments == 0..(Size \div Segment)
LastUsed == number \div Segment

Init ==
  /\ slot = [i \in Slots |-> Empty]
  /\ number = 0
  /\ ptc_id = 0
  /\ pc = "idle"
  /\ seg = 0
  /\ last = 0
  /\ nums = [n \in Segments |-> 0]

-----------------------------------------------------------------------------
(* Operations between sorts *)

\* ptc_append; a full array is left as it is.
Append(c) ==
  /\ pc = "idle" /\ ptc_id < MaxId
  /\ number # Size
  /\ slot' = [slot EXCEPT ![number] = [id |-> ptc_id + 1, cell |-> c]]
  /\ ptc_id' = ptc_id + 1
  /\ number' = number + 1
  /\ UNCHANGED <<pc, seg, last, nums>>

\* ptc_copy_from_buffer at number(): n arrivals in one cell, the ones past
\* the allocation left out.
CopyFromBuffer(n, c) ==
  LET fit == Min2(n, Size - number) IN
  /\ pc = "idle" /\ ptc_id + n <= MaxId
  /\ slot' = [i \in Slots |->
                IF i \in number..(number + fit - 1)
                THEN [id |-> ptc_id + 1 + (i - number), cell |-> c] ELSE slot[i]]
  /\ ptc_id' = ptc_id + n
  /\ number' = number + fit
  /\ UNCHANGED <<pc, seg, last, nums>>

\* inject_pairs: cell after cell, an electron and a positron for each of total
\* pairs, cellOf being their cells.  At the limit a pair is counted and not
\* written, and add_num cuts the count.
InjectPairs(total, cellOf) ==
  LET Pair(i) == (i - number) \div 2
      Written(i) == /\ i >= number /\ Pair(i) < total
                    /\ number + 2 * Pair(i) + 1 < Size IN
  /\ pc = "idle" /\ ptc_id + 2 * total <= MaxId
  /\ \A j, k \in 0..(total - 1) : j <= k => cellOf[j] <= cellOf[k]
  /\ slot' = [i \in Slots |->
                IF Written(i)
                THEN [id |-> ptc_id + 1 + (i - number), cell |-> cellOf[Pair(i)]]
                ELSE slot[i]]
  /\ ptc_id' = ptc_id + 2 * total
  /\ number' = Min2(number + 2 * total, Size)
  /\ UNCHANGED <<pc, seg, last, nums>>

\* The push moves a live particle to another cell.
Move(i, c) ==
  /\ pc = "idle" /\ i < number /\ IsLive(slot[i])
  /\ slot' = [slot EXCEPT ![i].cell = c]
  /\ UNCHANGED <<number, ptc_id, pc, seg, last, nums>>

\* A particle is packed for another rank, or absorbed: the slot stays in use.
Remove(i) ==
  /\ pc = "idle" /\ i < number /\ IsLive(slot[i])
  /\ slot' = [slot EXCEPT ![i].cell = empty_cell]
  /\ UNCHANGED <<number, ptc_id, pc, seg, last, nums>>

-----------------------------------------------------------------------------
(* ptc_sort_by_cell *)

StartSort ==
  /\ pc = "idle" /\ number > 0
  /\ pc' = "segments"
  /\ seg' = 0
  /\ UNCHANGED <<slot, number, ptc_id, last, nums>>

\* Sorting an array without slots in use returns at once.
SortNothing == pc = "idle" /\ number = 0 /\ UNCHANGED vars

Part(n) == (n * Segment)..(Min2((n + 1) * Segment, number) - 1)

\* Where the stable counting sort puts slot i of its segment.
Target(n, i) ==
  n * Segment
  + Cardinality({k \in Part(n) : slot[k].cell < slot[i].cell})
  + Cardinality({k \in Part(n) : slot[k].cell = slot[i].cell /\ k < i})

\* Mutant of LiveIn: holes are counted (sort_size instead of m_partition).
LiveInAll(n) == Cardinality(Part(n))

\* segment_nums[n]
LiveIn(n) == Cardinality({k \in Part(n) : IsLive(slot[k])})

\* One turn of the first loop; a segment that starts at number() is empty.
SortSegment ==
  /\ pc = "segments"
  /\ slot' = [i \in Slots |->
                IF i \in Part(seg)
                THEN slot[CHOOSE k \in Part(seg) : Target(seg, k) = i]
                ELSE slot[i]]
  /\ nums' = [nums EXCEPT ![seg] = LiveIn(seg)]
  /\ IF seg = LastUsed
     THEN pc' = "defrag" /\ seg' = 0 /\ last' = LastUsed
     ELSE seg' = seg + 1 /\ UNCHANGED <<pc, last>>
  /\ UNCHANGED <<number, ptc_id>>

\* One turn of the while loop: holes at the end of segment seg are filled
\* with the particles at the end of the last segment, which are erased there.
NumToCopy == Min2(Segment - nums[seg], nums[last])

OffsetFrom == last * Segment + nums[last] - NumToCopy

\* Mutant of OffsetTo: the particles of the segment are not skipped.
OffsetToStart == seg * Segment

OffsetTo == seg * Segment + nums[seg]

\* Mutant of Moved: the source slots are not erased.
MovedNotErased ==
  [i \in Slots |-> IF i \in OffsetTo..(OffsetTo + NumToCopy - 1)
                   THEN slot[i - OffsetTo + OffsetFrom] ELSE slot[i]]

Moved ==
  [i \in Slots |->
     IF i \in OffsetTo..(OffsetTo + NumToCopy - 1)
     THEN slot[i - OffsetTo + OffsetFrom]
     ELSE IF i \in OffsetFrom..(OffsetFrom + NumToCopy - 1)
     THEN [slot[i] EXCEPT !.cell = empty_cell]
     ELSE slot[i]]

\* Mutant of NewLast: an emptied last segment stays the last one.
NewLastSame == last

NewLast == IF nums[last] = NumToCopy THEN last - 1 ELSE last

FillHoles ==
  /\ pc = "defrag" /\ seg < last /\ nums[seg] < Segment
  /\ slot' = Moved
  /\ nums' = [nums EXCEPT ![seg] = @ + NumToCopy, ![last] = @ - NumToCopy]
  /\ last' = NewLast
  /\ UNCHANGED <<number, ptc_id, pc, seg>>

NextSegment ==
  /\ pc = "defrag" /\ seg < last /\ nums[seg] >= Segment
  /\ seg' = seg + 1
  /\ UNCHANGED <<slot, number, ptc_id, pc, last, nums>>

\* Mutant of TotalNum: the partly filled last segment is forgotten.
TotalNumFull == last * Segment

TotalNum == last * Segment + nums[last]

\* set_num(total_num)
SetNum ==
  /\ pc = "defrag" /\ seg >= last
  /\ number' = TotalNum
  /\ pc' = "sorted"
  /\ UNCHANGED <<slot, ptc_id, seg, last, nums>>

Return ==
  /\ pc = "sorted"
  /\ pc' = "idle"
  /\ UNCHANGED <<slot, number, ptc_id, seg, last, nums>>

SortStep ==
  SortSegment \/ FillHoles \/ NextSegment \/ SetNum \/ Return

Next ==
  \/ \E c \in Cells : Append(c)
  \/ \E n \in 1..2, c \in Cells : CopyFromBuffer(n, c)
  \/ \E total \in 0..NumCells :
       \E cellOf \in [0..(total - 1) -> Cells] : InjectPairs(total, cellOf)
  \/ \E i \in Slots, c \in Cells : Move(i, c)
  \/ \E i \in Slots : Remove(i)
  \/ StartSort
  \/ SortNothing
  \/ SortStep

Spec == Init /\ [][Next]_vars /\ WF_vars(SortStep)

-----------------------------------------------------------------------------
(* Properties *)

LiveSlots == {i \in Slots : IsLive(slot[i])}
LiveIds == {slot[i].id : i \in LiveSlots}

\* No live particle is ever in a slot beyond number(): every loop of the code
\* runs to number(), so such a particle would vanish from the simulation and
\* be overwritten by the next append.
NoneBeyondNumber == \A i \in LiveSlots : i < number

\* No two live slots hold the same particle: the defragmentation copies and
\* erases slot ranges without leaving a particle behind twice.
NoTwins == \A i, k \in LiveSlots : slot[i].id = slot[k].id => i = k

\* The sort leaves no hole: number() is the number of live particles.
Compacted == pc = "sorted" => number = Cardinality(LiveSlots)

\* The sort moves particles and never loses, revives or relabels one.
SortKeepsParticles ==
  [][pc # "idle" =>
       {slot'[i] : i \in {i \in Slots : IsLive(slot'[i])}}
         = {slot[i] : i \in LiveSlots}]_vars

\* The while loop of the defragmentation, which moves the bound it runs
\* towards, always comes to an end.
SortReturns == pc = "segments" ~> pc = "idle"
=============================================================================
