-------------------------------- MODULE Combiners --------------------------------
(***************************************************************************)
(* The functions that opt/ defines: 65 ways to combine the elements of a  *)
(* vector, each in up to nine files (combine.c and the older versions for  *)
(* one processor and compiler each, dpb.c to ipb-O1.c).  All but the first *)
(* loops combine several elements in an iteration of a main loop, into one *)
(* or more accumulators, take what is left one by one and combine the      *)
(* accumulators.  An accumulator is the sequence of the indices it has     *)
(* combined: OP is taken to be associative, no more.  A vector is not      *)
(* empty (benchmark.c: ASIZE is 31 or 973).                                *)
(***************************************************************************)
EXTENDS Naturals, Sequences, SequencesExt

CONSTANTS VSIZE,   \* elements of a vec_t
          Spare    \* bound: lengths up to twice the main loop's step plus this

CombinersAssumption == VSIZE \in Nat \ {0} /\ Spare \in Nat

(* What a function is made of: how many elements an iteration takes (step) *)
(* and where the main loop stops (limit); the statements of its body, each *)
(* target = source OP data[i + offset], with the accumulators numbered;    *)
(* the accumulator of the remainder; the order of the final expression;    *)
(* and whether a loop in front combines up to an aligned address.          *)
Statement(target, source, offset) == [target |-> target, source |-> source, offset |-> offset]
Into(a, offset) == Statement(a, a, offset)

(* k elements in turn for m accumulators, all joined in order. *)
Parallel(k, m) == [step |-> k, limit |-> "short", aligns |-> FALSE,
                   body |-> [j \in 1 .. k |-> Into((j - 1) % m, j - 1)],
                   rest |-> 0,
                   order |-> [a \in 1 .. m |-> a - 1]]

(* One accumulator, with the loop unrolled k times or with k elements      *)
(* joined first: acc OP (data[i] OP ...).                                  *)
Unrolled(k) == Parallel(k, 1)

(* The loops that stop at length - length % k. *)
Whole(k) == [Unrolled(k) EXCEPT !.limit = "whole"]

(* One accumulator for each half of the vector. *)
Halves == [Parallel(1, 2) EXCEPT !.limit = "half", !.rest = 1]

Unroll8x4 == [Parallel(8, 4) EXCEPT !.rest = 3, !.order = <<3, 0, 1, 2>>]

(* The older files start with acc3 and, in unroll8x8, take acc5 for acc6.  *)
OldUnroll8x4 == [Unroll8x4 EXCEPT !.body = [j \in 1 .. 8 |-> Into((j + 2) % 4, j - 1)]]
OldUnroll8x8 == [Parallel(8, 8) EXCEPT !.body[6] = Statement(6, 5, 5)]

(* n vec_t an iteration, into m accumulators of VSIZE lanes each; number 0 *)
(* is the scalar, which takes what is in front and behind, and then the    *)
(* lanes, one after the other.                                             *)
Lane(a, l) == 1 + a * VSIZE + l
Vectors(n, m) == [step |-> n * VSIZE, limit |-> "short", aligns |-> TRUE,
                  body |-> [j \in 1 .. n * VSIZE |->
                            Into(Lane(((j - 1) \div VSIZE) % m, (j - 1) % VSIZE), j - 1)],
                  rest |-> 0,
                  order |-> <<0>> \o [j \in 1 .. m * VSIZE |->
                                      Lane((j - 1) % m, (j - 1) \div m)]]

--------------------------------------------------------------------------------
(* The functions of each file, in its order and in tables of a few: those  *)
(* that it registers, and unroll4x2as, which all nine files define and     *)
(* none registers (it is written as unrollx2as).                           *)

combine_Loops ==
    [combine1 |-> Unrolled(1), combine2 |-> Unrolled(1), combine3 |-> Unrolled(1),
     combine3w |-> Unrolled(1), combine4 |-> Unrolled(1), combine4b |-> Unrolled(1),
     combine4p |-> Unrolled(1)]
combine_UnrolledTo4 ==
    [combine5 |-> Unrolled(2), unroll3a |-> Unrolled(3), combine5p |-> Unrolled(2),
     unroll2aw |-> Unrolled(2), unroll4a |-> Unrolled(4)]
combine_Unrolled5To8 ==
    [unroll5a |-> Unrolled(5), unroll6a |-> Unrolled(6), unroll7a |-> Unrolled(7),
     unroll8a |-> Unrolled(8)]
combine_Unrolled9To16 ==
    [unroll9a |-> Unrolled(9), unroll10a |-> Unrolled(10), unroll16a |-> Unrolled(16)]
combine_UnrolledPointers ==
    [unroll2 |-> Whole(2), unroll3 |-> Unrolled(3), unroll4 |-> Unrolled(4),
     unroll8 |-> Whole(8), unroll16 |-> Whole(16)]
combine_Parallel2To4 ==
    [combine6 |-> Parallel(2, 2), unroll4x2a |-> Parallel(4, 2),
     unroll8x2a |-> Parallel(8, 2), unroll3x3a |-> Parallel(3, 3),
     unroll4x4a |-> Parallel(4, 4), unroll8x4a |-> Parallel(8, 4)]
combine_Parallel12To16 ==
    [unroll12x6a |-> Parallel(12, 6), unroll12x12a |-> Parallel(12, 12),
     unroll16x16a |-> Parallel(16, 16)]
combine_Parallel5To20 ==
    [unroll20x20a |-> Parallel(20, 20), unroll5x5a |-> Parallel(5, 5),
     unroll6x6a |-> Parallel(6, 6)]
combine_Parallel7To10 ==
    [unroll7x7a |-> Parallel(7, 7), unroll8x8a |-> Parallel(8, 8),
     unroll9x9a |-> Parallel(9, 9), unroll10x10a |-> Parallel(10, 10)]
combine_SplitOrPointers ==
    [unrollx2as |-> Halves, unroll4x2as |-> Halves, unroll8x2 |-> Parallel(8, 2),
     unroll9x3 |-> Parallel(9, 3)]
combine_PointersAndGroups ==
    [unroll8x4 |-> Unroll8x4, unroll8x8 |-> Parallel(8, 8), combine7 |-> Unrolled(2),
     unroll3aa |-> Unrolled(3), unroll4aa |-> Unrolled(4)]
combine_Groups5To9 ==
    [unroll5aa |-> Unrolled(5), unroll6aa |-> Unrolled(6), unroll7aa |-> Unrolled(7),
     unroll8aa |-> Unrolled(8), unroll9aa |-> Unrolled(9)]
combine_Groups10To12 ==
    [unroll10aa |-> Unrolled(10), unroll12aa |-> Unrolled(12),
     simd_v1 |-> Vectors(1, 1)]
combine_Vectors2To8 ==
    [simd_v2 |-> Vectors(2, 2), simd_v4 |-> Vectors(4, 4), simd_v8 |-> Vectors(8, 8)]
combine_Vectors10To12 ==
    [simd_v10 |-> Vectors(10, 10), simd_v12 |-> Vectors(12, 12)]
combine_VectorGroups ==
    [simd_v2a |-> Vectors(2, 1), simd_v4a |-> Vectors(4, 1),
     simd_v8a |-> Vectors(8, 1)]
combine_Functions ==
    {combine_Loops, combine_UnrolledTo4, combine_Unrolled5To8, combine_Unrolled9To16,
     combine_UnrolledPointers, combine_Parallel2To4, combine_Parallel12To16,
     combine_Parallel5To20, combine_Parallel7To10, combine_SplitOrPointers,
     combine_PointersAndGroups, combine_Groups5To9, combine_Groups10To12,
     combine_Vectors2To8, combine_Vectors10To12, combine_VectorGroups}

dpb_Loops == combine_Loops
dpb_UnrolledTo4 == combine_UnrolledTo4
dpb_Unrolled5To8 == combine_Unrolled5To8
dpb_Unrolled9To16 == combine_Unrolled9To16
dpb_UnrolledPointers == combine_UnrolledPointers
dpb_Parallel2To4 == combine_Parallel2To4
dpb_Parallel12To16 ==
    [unroll12x6a |-> Parallel(12, 6), unroll12x12a |-> Parallel(12, 12)]
dpb_Parallel5To20 == [unroll5x5a |-> Parallel(5, 5), unroll6x6a |-> Parallel(6, 6)]
dpb_Parallel7To10 == combine_Parallel7To10
dpb_SplitOrPointers == combine_SplitOrPointers
dpb_PointersAndGroups ==
    [unroll8x4 |-> OldUnroll8x4, unroll8x8 |-> OldUnroll8x8, combine7 |-> Unrolled(2),
     unroll3aa |-> Unrolled(3), unroll4aa |-> Unrolled(4)]
dpb_Groups5To9 == combine_Groups5To9
dpb_Groups10To12 == combine_Groups10To12
dpb_Vectors2To8 == combine_Vectors2To8
dpb_Vectors10To12 == [simd_v12 |-> Vectors(12, 12)]
dpb_VectorGroups == combine_VectorGroups
dpb_Functions ==
    {dpb_Loops, dpb_UnrolledTo4, dpb_Unrolled5To8, dpb_Unrolled9To16,
     dpb_UnrolledPointers, dpb_Parallel2To4, dpb_Parallel12To16, dpb_Parallel5To20,
     dpb_Parallel7To10, dpb_SplitOrPointers, dpb_PointersAndGroups, dpb_Groups5To9,
     dpb_Groups10To12, dpb_Vectors2To8, dpb_Vectors10To12, dpb_VectorGroups}

dpbO1_Loops == combine_Loops
dpbO1_UnrolledTo4 == combine_UnrolledTo4
dpbO1_Unrolled5To8 == combine_Unrolled5To8
dpbO1_Unrolled9To16 == combine_Unrolled9To16
dpbO1_UnrolledPointers == combine_UnrolledPointers
dpbO1_Parallel2To4 == combine_Parallel2To4
dpbO1_Parallel12To16 == combine_Parallel12To16
dpbO1_Parallel5To20 == combine_Parallel5To20
dpbO1_Parallel7To10 == combine_Parallel7To10
dpbO1_SplitOrPointers == combine_SplitOrPointers
dpbO1_PointersAndGroups == combine_PointersAndGroups
dpbO1_Groups5To9 == combine_Groups5To9
dpbO1_Groups10To12 == combine_Groups10To12
dpbO1_Vectors2To8 == combine_Vectors2To8
dpbO1_Vectors10To12 == combine_Vectors10To12
dpbO1_VectorGroups == combine_VectorGroups
dpbO1_Functions ==
    {dpbO1_Loops, dpbO1_UnrolledTo4, dpbO1_Unrolled5To8, dpbO1_Unrolled9To16,
     dpbO1_UnrolledPointers, dpbO1_Parallel2To4, dpbO1_Parallel12To16,
     dpbO1_Parallel5To20, dpbO1_Parallel7To10, dpbO1_SplitOrPointers,
     dpbO1_PointersAndGroups, dpbO1_Groups5To9, dpbO1_Groups10To12, dpbO1_Vectors2To8,
     dpbO1_Vectors10To12, dpbO1_VectorGroups}

dpbO2_Loops == combine_Loops
dpbO2_UnrolledTo4 == combine_UnrolledTo4
dpbO2_Unrolled5To8 == combine_Unrolled5To8
dpbO2_Unrolled9To16 == combine_Unrolled9To16
dpbO2_UnrolledPointers == combine_UnrolledPointers
dpbO2_Parallel2To4 == combine_Parallel2To4
dpbO2_Parallel12To16 == combine_Parallel12To16
dpbO2_Parallel5To20 == combine_Parallel5To20
dpbO2_Parallel7To10 == combine_Parallel7To10
dpbO2_SplitOrPointers == combine_SplitOrPointers
dpbO2_PointersAndGroups == combine_PointersAndGroups
dpbO2_Groups5To9 == combine_Groups5To9
dpbO2_Groups10To12 == combine_Groups10To12
dpbO2_Vectors2To8 == combine_Vectors2To8
dpbO2_Vectors10To12 == combine_Vectors10To12
dpbO2_VectorGroups == combine_VectorGroups
dpbO2_Functions ==
    {dpbO2_Loops, dpbO2_UnrolledTo4, dpbO2_Unrolled5To8, dpbO2_Unrolled9To16,
     dpbO2_UnrolledPointers, dpbO2_Parallel2To4, dpbO2_Parallel12To16,
     dpbO2_Parallel5To20, dpbO2_Parallel7To10, dpbO2_SplitOrPointers,
     dpbO2_PointersAndGroups, dpbO2_Groups5To9, dpbO2_Groups10To12, dpbO2_Vectors2To8,
     dpbO2_Vectors10To12, dpbO2_VectorGroups}

fpbO1_Loops == combine_Loops
fpbO1_UnrolledTo4 == combine_UnrolledTo4
fpbO1_Unrolled5To8 == combine_Unrolled5To8
fpbO1_Unrolled9To16 == combine_Unrolled9To16
fpbO1_UnrolledPointers == combine_UnrolledPointers
fpbO1_Parallel2To4 == combine_Parallel2To4
fpbO1_Parallel12To16 == combine_Parallel12To16
fpbO1_Parallel5To20 == combine_Parallel5To20
fpbO1_Parallel7To10 == combine_Parallel7To10
fpbO1_SplitOrPointers == combine_SplitOrPointers
fpbO1_PointersAndGroups == dpb_PointersAndGroups
fpbO1_Groups5To9 == combine_Groups5To9
fpbO1_Groups10To12 == combine_Groups10To12
fpbO1_Vectors2To8 == combine_Vectors2To8
fpbO1_Vectors10To12 == combine_Vectors10To12
fpbO1_VectorGroups == combine_VectorGroups
fpbO1_Functions ==
    {fpbO1_Loops, fpbO1_UnrolledTo4, fpbO1_Unrolled5To8, fpbO1_Unrolled9To16,
     fpbO1_UnrolledPointers, fpbO1_Parallel2To4, fpbO1_Parallel12To16,
     fpbO1_Parallel5To20, fpbO1_Parallel7To10, fpbO1_SplitOrPointers,
     fpbO1_PointersAndGroups, fpbO1_Groups5To9, fpbO1_Groups10To12, fpbO1_Vectors2To8,
     fpbO1_Vectors10To12, fpbO1_VectorGroups}

fpbO2_Loops == combine_Loops
fpbO2_UnrolledTo4 == combine_UnrolledTo4
fpbO2_Unrolled5To8 == combine_Unrolled5To8
fpbO2_Unrolled9To16 == combine_Unrolled9To16
fpbO2_UnrolledPointers == combine_UnrolledPointers
fpbO2_Parallel2To4 == combine_Parallel2To4
fpbO2_Parallel12To16 == combine_Parallel12To16
fpbO2_Parallel5To20 == combine_Parallel5To20
fpbO2_Parallel7To10 == combine_Parallel7To10
fpbO2_SplitOrPointers == combine_SplitOrPointers
fpbO2_PointersAndGroups == dpb_PointersAndGroups
fpbO2_Groups5To9 == combine_Groups5To9
fpbO2_Groups10To12 == combine_Groups10To12
fpbO2_Vectors2To8 == combine_Vectors2To8
fpbO2_Vectors10To12 == combine_Vectors10To12
fpbO2_VectorGroups == combine_VectorGroups
fpbO2_Functions ==
    {fpbO2_Loops, fpbO2_UnrolledTo4, fpbO2_Unrolled5To8, fpbO2_Unrolled9To16,
     fpbO2_UnrolledPointers, fpbO2_Parallel2To4, fpbO2_Parallel12To16,
     fpbO2_Parallel5To20, fpbO2_Parallel7To10, fpbO2_SplitOrPointers,
     fpbO2_PointersAndGroups, fpbO2_Groups5To9, fpbO2_Groups10To12, fpbO2_Vectors2To8,
     fpbO2_Vectors10To12, fpbO2_VectorGroups}

lsbO1_Loops == combine_Loops
lsbO1_UnrolledTo4 == combine_UnrolledTo4
lsbO1_Unrolled5To8 == combine_Unrolled5To8
lsbO1_Unrolled9To16 == combine_Unrolled9To16
lsbO1_UnrolledPointers == combine_UnrolledPointers
lsbO1_Parallel2To4 == combine_Parallel2To4
lsbO1_Parallel12To16 == combine_Parallel12To16
lsbO1_Parallel5To20 == dpb_Parallel5To20
lsbO1_Parallel7To10 == combine_Parallel7To10
lsbO1_SplitOrPointers == combine_SplitOrPointers
lsbO1_PointersAndGroups == dpb_PointersAndGroups
lsbO1_Groups5To9 == combine_Groups5To9
lsbO1_Groups10To12 == combine_Groups10To12
lsbO1_Vectors2To8 == combine_Vectors2To8
lsbO1_Vectors10To12 == combine_Vectors10To12
lsbO1_VectorGroups == combine_VectorGroups
lsbO1_Functions ==
    {lsbO1_Loops, lsbO1_UnrolledTo4, lsbO1_Unrolled5To8, lsbO1_Unrolled9To16,
     lsbO1_UnrolledPointers, lsbO1_Parallel2To4, lsbO1_Parallel12To16,
     lsbO1_Parallel5To20, lsbO1_Parallel7To10, lsbO1_SplitOrPointers,
     lsbO1_PointersAndGroups, lsbO1_Groups5To9, lsbO1_Groups10To12, lsbO1_Vectors2To8,
     lsbO1_Vectors10To12, lsbO1_VectorGroups}

lpbO1_Loops == combine_Loops
lpbO1_UnrolledTo4 == combine_UnrolledTo4
lpbO1_Unrolled5To8 == combine_Unrolled5To8
lpbO1_Unrolled9To16 == combine_Unrolled9To16
lpbO1_UnrolledPointers == combine_UnrolledPointers
lpbO1_Parallel2To4 == combine_Parallel2To4
lpbO1_Parallel12To16 == dpb_Parallel12To16
lpbO1_Parallel5To20 == dpb_Parallel5To20
lpbO1_Parallel7To10 == combine_Parallel7To10
lpbO1_SplitOrPointers == combine_SplitOrPointers
lpbO1_PointersAndGroups == dpb_PointersAndGroups
lpbO1_Groups5To9 == combine_Groups5To9
lpbO1_Groups10To12 == combine_Groups10To12
lpbO1_Vectors2To8 == combine_Vectors2To8
lpbO1_Vectors10To12 == dpb_Vectors10To12
lpbO1_VectorGroups == combine_VectorGroups
lpbO1_Functions ==
    {lpbO1_Loops, lpbO1_UnrolledTo4, lpbO1_Unrolled5To8, lpbO1_Unrolled9To16,
     lpbO1_UnrolledPointers, lpbO1_Parallel2To4, lpbO1_Parallel12To16,
     lpbO1_Parallel5To20, lpbO1_Parallel7To10, lpbO1_SplitOrPointers,
     lpbO1_PointersAndGroups, lpbO1_Groups5To9, lpbO1_Groups10To12, lpbO1_Vectors2To8,
     lpbO1_Vectors10To12, lpbO1_VectorGroups}

ipbO1_Loops == combine_Loops
ipbO1_UnrolledTo4 == combine_UnrolledTo4
ipbO1_Unrolled5To8 == combine_Unrolled5To8
ipbO1_Unrolled9To16 == combine_Unrolled9To16
ipbO1_UnrolledPointers == combine_UnrolledPointers
ipbO1_Parallel2To4 == combine_Parallel2To4
ipbO1_Parallel12To16 == dpb_Parallel12To16
ipbO1_Parallel5To20 == dpb_Parallel5To20
ipbO1_Parallel7To10 == combine_Parallel7To10
ipbO1_SplitOrPointers == combine_SplitOrPointers
ipbO1_PointersAndGroups == dpb_PointersAndGroups
ipbO1_Groups5To9 == combine_Groups5To9
ipbO1_Groups10To12 == combine_Groups10To12
ipbO1_Vectors2To8 == combine_Vectors2To8
ipbO1_Vectors10To12 == dpb_Vectors10To12
ipbO1_VectorGroups == combine_VectorGroups
ipbO1_Functions ==
    {ipbO1_Loops, ipbO1_UnrolledTo4, ipbO1_Unrolled5To8, ipbO1_Unrolled9To16,
     ipbO1_UnrolledPointers, ipbO1_Parallel2To4, ipbO1_Parallel12To16,
     ipbO1_Parallel5To20, ipbO1_Parallel7To10, ipbO1_SplitOrPointers,
     ipbO1_PointersAndGroups, ipbO1_Groups5To9, ipbO1_Groups10To12, ipbO1_Vectors2To8,
     ipbO1_Vectors10To12, ipbO1_VectorGroups}

Tables == combine_Functions \cup dpb_Functions \cup dpbO1_Functions \cup dpbO2_Functions
          \cup fpbO1_Functions \cup fpbO2_Functions \cup lsbO1_Functions
          \cup lpbO1_Functions \cup ipbO1_Functions
Functions == UNION {{t[name] : name \in DOMAIN t} : t \in Tables}

--------------------------------------------------------------------------------
VARIABLES combiner,   \* the function that is called
          length,     \* vec_length(v)
          ahead,      \* elements in front of the first aligned one
          phase,      \* the loop it is in, or "done"
          index,      \* i, or how far data has moved
          acc,        \* the accumulators
          dest        \* *dest

combineVars == <<combiner, length, ahead, phase, index, acc, dest>>

Init == /\ combiner \in Functions
        /\ length \in 1 .. 2 * combiner.step + Spare
        /\ ahead \in IF combiner.aligns THEN 0 .. VSIZE - 1 ELSE {0}
        /\ phase = "align" /\ index = 0
        /\ acc = [a \in ToSet(combiner.order) |-> << >>]
        /\ dest = << >>

Combine(accs, statement, i) ==
    [accs EXCEPT ![statement.target] = Append(accs[statement.source], i + statement.offset)]

(* The loop in front of the SIMD versions. *)
Align == /\ phase = "align"
         /\ IF combiner.aligns /\ index /= ahead /\ index < length
            THEN /\ acc' = Combine(acc, Into(0, 0), index)
                 /\ index' = index + 1 /\ UNCHANGED phase
            ELSE phase' = "main" /\ UNCHANGED <<acc, index>>
         /\ UNCHANGED <<combiner, length, ahead, dest>>

(* Mutant: limit = length - (k - 2), one iteration too many. *)
LateLimit == CASE combiner.limit = "short" -> length + 2 - combiner.step
               [] combiner.limit = "whole" -> length - (length % combiner.step)
               [] combiner.limit = "half" -> length \div 2

Limit == CASE combiner.limit = "short" -> length + 1 - combiner.step
           [] combiner.limit = "whole" -> length - (length % combiner.step)
           [] combiner.limit = "half" -> length \div 2

Body == IF combiner.limit = "half" THEN <<Into(0, 0), Into(1, Limit)>> ELSE combiner.body

MainLoop == /\ phase = "main" /\ index < Limit
            /\ acc' = FoldLeft(LAMBDA accs, s : Combine(accs, s, index), acc, Body)
            /\ index' = index + combiner.step
            /\ UNCHANGED <<combiner, length, ahead, phase, dest>>

MainEnds == /\ phase = "main" /\ index >= Limit
            /\ phase' = "rest"
            /\ index' = IF combiner.limit = "half" THEN 2 * Limit ELSE index
            /\ UNCHANGED <<combiner, length, ahead, acc, dest>>

Rest == /\ phase = "rest" /\ index < length
        /\ acc' = Combine(acc, Into(combiner.rest, 0), index)
        /\ index' = index + 1
        /\ UNCHANGED <<combiner, length, ahead, phase, dest>>

Return == /\ phase = "rest" /\ index >= length
          /\ dest' = FlattenSeq([k \in DOMAIN combiner.order |-> acc[combiner.order[k]]])
          /\ phase' = "done"
          /\ UNCHANGED <<combiner, length, ahead, index, acc>>

Next == Align \/ MainLoop \/ MainEnds \/ Rest \/ Return

Spec == Init /\ [][Next]_combineVars

--------------------------------------------------------------------------------
(* Properties *)

(* combine1, the function the others are checked against: every element    *)
(* once, and in order where there is one accumulator.                      *)
InOrder == [k \in 1 .. length |-> k - 1]
SameAsCombine1 ==
    phase = "done" => /\ Len(dest) = length
                      /\ ToSet(dest) = ToSet(InOrder)
                      /\ Len(combiner.order) = 1 => dest = InOrder

(* So do all of them but one, whatever the length and the alignment.  In   *)
(* the older files unroll8x8 loses elements from the second iteration on.  *)
CombinersAgree == combiner /= OldUnroll8x8 => SameAsCombine1

================================================================================
