--------------------------------- MODULE Malloc ---------------------------------
(***************************************************************************)
(* The allocator of vm/malloc/mm.c on the simulated memory of memlib.c, as *)
(* functions from memory to memory.  A memory m is a record: heap, the     *)
(* words between mem_heap and mem_max_addr, by byte address; brk, the      *)
(* mem_brk of memlib.c; listp and rover, the static pointers of mm.c;      *)
(* nextFit, whether NEXT_FIT was defined when mm.c was compiled.           *)
(*                                                                         *)
(* Addresses, sizes and the layout of a block are those of the code, word  *)
(* by word: WSIZE is 4, DSIZE is 8, a header or footer packs a size with   *)
(* the allocated bit.  The widths of int and size_t are scaled down.       *)
(***************************************************************************)
EXTENDS Integers

CONSTANTS MaxHeap,     \* MAX_HEAP, in bytes
          CHUNKSIZE,   \* the least extension of the heap, in bytes
          Builds,      \* the builds: TRUE is one with NEXT_FIT defined
          UintMod,     \* 2^32: one more than the largest unsigned int
          SizeMod      \* 2^64: one more than the largest size_t

WSIZE == 4
DSIZE == 8
NULL == 0
Failed == -1           \* (void *)-1
MemHeap == 16          \* mem_heap, from Malloc: aligned for any type
Words == {MemHeap + WSIZE * k : k \in 0 .. MaxHeap \div WSIZE - 1}

ASSUME HeapAssumption == /\ MaxHeap \in Nat /\ MaxHeap % DSIZE = 0
                         /\ CHUNKSIZE \in Nat /\ CHUNKSIZE % DSIZE = 0
                         /\ CHUNKSIZE >= 2 * DSIZE /\ CHUNKSIZE < UintMod \div 2
                         /\ Builds \subseteq BOOLEAN
                         /\ UintMod \in Nat /\ UintMod % (2 * DSIZE) = 0
                         /\ MaxHeap < UintMod \div 2
                         /\ SizeMod \in Nat \ {0} /\ SizeMod % UintMod = 0

(* What a function leaves in memory and what it returns. *)
Result(m, ret) == [m |-> m, ret |-> ret]

--------------------------------------------------------------------------------
(* The macros.  A word outside the heap is read as 0 and never written: no *)
(* such access happens as long as the heap is consistent.                  *)

Get(m, p) == IF p \in Words THEN m.heap[p] ELSE 0
Put(m, p, val) == IF p \in Words THEN [m EXCEPT !.heap[p] = val % UintMod] ELSE m

Pack(size, alloc) == size + alloc
GetSize(m, p) == Get(m, p) - (Get(m, p) % DSIZE)
GetAlloc(m, p) == Get(m, p) % 2

Hdrp(bp) == bp - WSIZE
Ftrp(m, bp) == bp + GetSize(m, Hdrp(bp)) - DSIZE
NextBlkp(m, bp) == bp + GetSize(m, bp - WSIZE)
PrevBlkp(m, bp) == bp - GetSize(m, bp - DSIZE)

(* PUT(FTRP(bp), tag), and the same after PUT(HDRP(bp), tag): the footer   *)
(* is found by the header just written.                                    *)
PutFooter(m, bp, tag) == Put(m, Ftrp(m, bp), tag)
PutTags(m, bp, tag) == PutFooter(Put(m, Hdrp(bp), tag), bp, tag)

--------------------------------------------------------------------------------
(* memlib.c *)

MemInit(nextFit) == [heap |-> [p \in Words |-> 0], brk |-> MemHeap,
                     listp |-> NULL, rover |-> NULL, nextFit |-> nextFit]

MemResetBrk(m) == [m EXCEPT !.brk = MemHeap]

(* The conversion of a size_t argument to mem_sbrk's int parameter. *)
ToInt(size) == IF size % UintMod < UintMod \div 2
               THEN size % UintMod ELSE (size % UintMod) - UintMod

MemSbrk(m, incr) == IF incr < 0 \/ m.brk + incr > MemHeap + MaxHeap
                    THEN Result(m, Failed)
                    ELSE Result([m EXCEPT !.brk = @ + incr], m.brk)

--------------------------------------------------------------------------------
(* coalesce: bp is a block just marked free, prev and next its neighbours. *)

MergeNext(m, bp, next) ==
    Result(PutTags(m, bp, Pack(GetSize(m, Hdrp(bp)) + GetSize(m, Hdrp(next)), 0)), bp)

MergePrev(m, bp, prev, size) ==
    Result(Put(PutFooter(m, bp, Pack(size, 0)), Hdrp(prev), Pack(size, 0)), prev)

MergeBoth(m, prev, next, size) ==
    Result(PutFooter(Put(m, Hdrp(prev), Pack(size, 0)), next, Pack(size, 0)), prev)

(* Mutant: the rover stays inside the block that swallowed its block. *)
FixRoverNever(r) == r

FixRover(r) ==
    IF r.m.nextFit /\ r.m.rover > r.ret /\ r.m.rover < NextBlkp(r.m, r.ret)
    THEN [r EXCEPT !.m.rover = r.ret] ELSE r

(* Mutant: the block before is never looked at. *)
CoalesceForward(m, bp, prev, next) ==
    IF GetAlloc(m, Hdrp(next)) = 1 THEN Result(m, bp) ELSE FixRover(MergeNext(m, bp, next))

CoalesceWith(m, bp, prev, next) ==
    LET prevAlloc == GetAlloc(m, Ftrp(m, prev)) = 1
        nextAlloc == GetAlloc(m, Hdrp(next)) = 1
        size == GetSize(m, Hdrp(bp)) + GetSize(m, Hdrp(prev))
    IN  IF prevAlloc /\ nextAlloc THEN Result(m, bp)
        ELSE FixRover(IF prevAlloc THEN MergeNext(m, bp, next)
                      ELSE IF nextAlloc THEN MergePrev(m, bp, prev, size)
                      ELSE MergeBoth(m, prev, next, size + GetSize(m, Ftrp(m, next))))

Coalesce(m, bp) == CoalesceWith(m, bp, PrevBlkp(m, bp), NextBlkp(m, bp))

(* extend_heap: got is the answer of mem_sbrk. *)
PutEpilogue(m, bp) == Put(m, Hdrp(NextBlkp(m, bp)), Pack(0, 1))

FormatArea(got, size) ==
    IF got.ret = Failed THEN Result(got.m, NULL)
    ELSE Coalesce(PutEpilogue(PutTags(got.m, got.ret, Pack(size, 0)), got.ret), got.ret)

ExtendHeap(m, words) ==
    LET size == ((words + (words % 2)) * WSIZE) % SizeMod
    IN  FormatArea(MemSbrk(m, ToInt(size)), size)

PutRest(m, bp, size) == PutTags(m, NextBlkp(m, bp), Pack(size, 0))

(* Mutant: the block is split whatever is left of it. *)
PlaceSplitAlways(m, bp, asize, csize) ==
    PutRest(PutTags(m, bp, Pack(asize, 1)), bp, csize - asize)

PlaceIn(m, bp, asize, csize) ==
    IF (csize - asize) % SizeMod >= 2 * DSIZE
    THEN PutRest(PutTags(m, bp, Pack(asize, 1)), bp, csize - asize)
    ELSE PutTags(m, bp, Pack(csize, 1))

Place(m, bp, asize) == PlaceIn(m, bp, asize, GetSize(m, Hdrp(bp)))

--------------------------------------------------------------------------------
(* find_fit *)

Fits(m, asize, bp) == GetAlloc(m, Hdrp(bp)) = 0 /\ asize <= GetSize(m, Hdrp(bp))

(* The first block from start on that fits, or the one where the search    *)
(* ends: the epilogue, or the first that is not before stop.               *)
Search(m, asize, start, stop) ==
    LET scan[bp \in MemHeap .. MemHeap + MaxHeap] ==
            IF bp >= stop \/ GetSize(m, Hdrp(bp)) = 0 \/ Fits(m, asize, bp)
            THEN bp
            ELSE IF NextBlkp(m, bp) \in DOMAIN scan THEN scan[NextBlkp(m, bp)] ELSE stop
    IN  scan[start]

Found(m, asize, bp) == GetSize(m, Hdrp(bp)) > 0 /\ Fits(m, asize, bp)

FirstFitAt(m, asize, bp) == Result(m, IF Found(m, asize, bp) THEN bp ELSE NULL)

FirstFit(m, asize) == FirstFitAt(m, asize, Search(m, asize, m.listp, m.brk))

(* Mutant: the blocks before the rover are not searched. *)
NextFitForwardOnly(m, asize, after, before) ==
    IF Found(m, asize, after) THEN Result([m EXCEPT !.rover = after], after)
    ELSE Result(m, NULL)

(* The searches from the rover to the end, and from the start to the old   *)
(* rover; the rover is left where the search stops.                        *)
NextFitAt(m, asize, after, before) ==
    IF Found(m, asize, after) THEN Result([m EXCEPT !.rover = after], after)
    ELSE Result([m EXCEPT !.rover = before],
                IF before < m.rover /\ Found(m, asize, before) THEN before ELSE NULL)

NextFitSearch(m, asize) == NextFitAt(m, asize, Search(m, asize, m.rover, m.brk),
                                               Search(m, asize, m.listp, m.rover))

FindFit(m, asize) == IF m.nextFit THEN NextFitSearch(m, asize) ELSE FirstFit(m, asize)

--------------------------------------------------------------------------------
(* The interface *)

PutPrologue(m, p) == Put(Put(Put(Put(m, p, 0), p + WSIZE, Pack(DSIZE, 1)),
                             p + 2 * WSIZE, Pack(DSIZE, 1)), p + 3 * WSIZE, Pack(0, 1))

InitStatus(r) == Result(r.m, IF r.ret = NULL THEN -1 ELSE 0)

InitHeap(m, p) ==
    IF p = Failed THEN Result([m EXCEPT !.listp = Failed], -1)
    ELSE InitStatus(ExtendHeap([PutPrologue(m, p) EXCEPT
                                   !.listp = p + 2 * WSIZE,
                                   !.rover = IF m.nextFit THEN p + 2 * WSIZE ELSE @],
                               CHUNKSIZE \div WSIZE))

MmInit(m) == InitHeap(MemSbrk(m, 4 * WSIZE).m, MemSbrk(m, 4 * WSIZE).ret)

Initialized(m) == IF m.listp = NULL THEN MmInit(m).m ELSE m

(* Mutant: no room for header and footer. *)
AdjustNoOverhead(size) ==
    IF size <= DSIZE THEN 2 * DSIZE ELSE DSIZE * ((size + DSIZE - 1) \div DSIZE)

Adjust(size) ==
    IF size <= DSIZE THEN 2 * DSIZE
    ELSE DSIZE * (((size + DSIZE + (DSIZE - 1)) % SizeMod) \div DSIZE)

PlaceFound(r, asize) == IF r.ret = NULL THEN r
                        ELSE Result(Place(r.m, r.ret, asize), r.ret)

FitOrExtend(fit, asize) ==
    IF fit.ret /= NULL THEN PlaceFound(fit, asize)
    ELSE PlaceFound(ExtendHeap(fit.m, (IF asize > CHUNKSIZE THEN asize ELSE CHUNKSIZE)
                                      \div WSIZE), asize)

MallocSized(m, asize) == FitOrExtend(FindFit(m, asize), asize)

MmMalloc(m, size) ==
    IF size = 0 THEN Result(Initialized(m), NULL)
    ELSE MallocSized(Initialized(m), Adjust(size))

FreeSized(m, bp, size) ==
    Coalesce(PutFooter(Put(m, Hdrp(bp), Pack(size, 0)), bp, Pack(size, 0)), bp).m

MmFree(m, bp) == IF bp = NULL THEN m
                 ELSE FreeSized(Initialized(m), bp, GetSize(m, Hdrp(bp)))

(* memcpy of the words that hold the first n bytes. *)
Memcpy(m, to, from, n) ==
    [m EXCEPT !.heap = [p \in Words |-> IF p >= to /\ p < to + n
                                        THEN Get(m, from + (p - to)) ELSE m.heap[p]]]

CopyBlock(m, to, from, size, oldsize) ==
    Memcpy(m, to, from, IF size < oldsize THEN size ELSE oldsize)

(* Mutants: the old block is not freed; its data is not copied. *)
MoveBlockLeaks(got, ptr, size) ==
    IF got.ret = NULL THEN got
    ELSE Result(CopyBlock(got.m, got.ret, ptr, size, GetSize(got.m, Hdrp(ptr))), got.ret)

MoveBlockNoCopy(got, ptr, size) ==
    IF got.ret = NULL THEN got ELSE Result(MmFree(got.m, ptr), got.ret)

MoveBlock(got, ptr, size) ==
    IF got.ret = NULL THEN got
    ELSE Result(MmFree(CopyBlock(got.m, got.ret, ptr, size, GetSize(got.m, Hdrp(ptr))), ptr),
                got.ret)

MmRealloc(m, ptr, size) ==
    IF size = 0 THEN Result(MmFree(m, ptr), NULL)
    ELSE IF ptr = NULL THEN MmMalloc(m, size)
    ELSE MoveBlock(MmMalloc(m, size), ptr, size)

--------------------------------------------------------------------------------
(* What checkheap looks at, and what it does not. *)

(* The block pointers, from the prologue to the epilogue. *)
Chain(m) ==
    LET walk[bp \in MemHeap .. MemHeap + MaxHeap + DSIZE] ==
            IF GetSize(m, Hdrp(bp)) = 0 \/ NextBlkp(m, bp) \notin DOMAIN walk
            THEN {bp} ELSE {bp} \cup walk[NextBlkp(m, bp)]
    IN  walk[m.listp]

Epilogue(m) == m.brk                   \* the epilogue header is the last word
Blocks(m) == Chain(m) \ {Epilogue(m)}

================================================================================
