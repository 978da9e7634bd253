------------------------------ MODULE MallocDriver ------------------------------
(***************************************************************************)
(* vm/malloc/mdriver.c's eval_mm_valid running a trace of requests against *)
(* the allocator of Malloc.  The trace is any well-formed one: an id is    *)
(* allocated, reallocated any number of times (size 0 included, as in      *)
(* corners.rep) and freed, and may then be allocated again.                *)
(*                                                                         *)
(* The random bytes of randomize_block are a datum per id and word, so     *)
(* that a word of another block, or of another place in the block, shows.  *)
(*                                                                         *)
(* eval_mm_util makes the same calls from the same start, so that its sums *)
(* are kept along with the evaluation.                                     *)
(***************************************************************************)
EXTENDS Malloc, FiniteSets, FiniteSetsExt

CONSTANTS Ids,         \* the indices of the trace (trace->num_ids)
          Sizes,       \* the request sizes
          MaxOps       \* bound: the length of the trace (trace->num_ops)

(* The sizes of a trace are read into an int; mm_init finds room.          *)
ASSUME DriverAssumption == /\ Ids \subseteq Nat /\ Sizes \subseteq 1 .. UintMod \div 2 - 1
                           /\ 4 * WSIZE + CHUNKSIZE <= MaxHeap
                           /\ MaxOps \in Nat

VARIABLES mem,         \* the memory of mm.c and memlib.c
          blocks,      \* trace->blocks
          sizes,       \* trace->block_sizes
          live,        \* the ids the trace has allocated and not freed
          ranges,      \* the range list, as a set of [lo, hi, index]
          verdict,     \* "running", or why the evaluation returned 0
          garbled,     \* check_index has found changed data
          ops,         \* requests done
          total, hwm   \* total_size and max_total_size of eval_mm_util

vars == <<mem, blocks, sizes, live, ranges, verdict, garbled, ops, total, hwm>>

ALIGNMENT == 8

--------------------------------------------------------------------------------
(* The range list *)

Hi(lo, size) == lo + size - 1

OutsideHeap(m, lo, size) ==
    \E p \in {lo, Hi(lo, size)} : p < MemHeap \/ p > m.brk - 1

Overlaps(rs, lo, size) ==
    \E r \in rs : \/ lo >= r.lo /\ lo <= r.hi
                  \/ Hi(lo, size) >= r.lo /\ Hi(lo, size) <= r.hi

(* The verdict of add_range on a new block. *)
Judge(m, rs, lo, size) ==
    IF lo % ALIGNMENT /= 0 THEN "misaligned"
    ELSE IF OutsideHeap(m, lo, size) THEN "outside heap"
    ELSE IF Overlaps(rs, lo, size) THEN "overlap"
    ELSE "running"

NewRange(lo, size, index) == [lo |-> lo, hi |-> Hi(lo, size), index |-> index]

RemoveRange(rs, lo) == {r \in rs : r.lo /= lo}

--------------------------------------------------------------------------------
(* The data of a block *)

Datum(index, k) == UintMod + index * MaxHeap + k

BlockWords(lo, size) == {p \in Words : p >= lo /\ p < lo + size}

RandomizeBlock(m, lo, size, index) ==
    [m EXCEPT !.heap = [p \in Words |-> IF p >= lo /\ p < lo + size
                                        THEN Datum(index, p - lo) ELSE m.heap[p]]]

Garbled(m, lo, size, index) ==
    \E p \in BlockWords(lo, size) : Get(m, p) /= Datum(index, p - lo)

--------------------------------------------------------------------------------
(* The loop of eval_mm_valid *)

Init == \E started \in {MmInit(MemResetBrk(MemInit(build))) : build \in Builds} :
            /\ mem = started.m
            /\ verdict = IF started.ret < 0 THEN "mm_init failed" ELSE "running"
            /\ blocks = [d \in Ids |-> NULL]
            /\ sizes = [d \in Ids |-> 0]
            /\ live = {}
            /\ ranges = {}
            /\ garbled = FALSE
            /\ ops = 0 /\ total = 0 /\ hwm = 0

Request == verdict = "running" /\ ops < MaxOps /\ ops' = ops + 1

(* The bytes requested, and their high-water mark; a call that fails ends  *)
(* eval_mm_util.                                                           *)

(* Mutant: the old size of a block is not subtracted. *)
TallyGross(more, less) == /\ total' = total + more
                          /\ hwm' = IF total' > hwm THEN total' ELSE hwm

Tally(more, less) == /\ total' = total + more - less
                     /\ hwm' = IF total' > hwm THEN total' ELSE hwm

(* A new block that add_range accepts is recorded and filled. *)
Accept(m, rs, p, size, index) ==
    /\ ranges' = IF size = 0 THEN rs ELSE rs \cup {NewRange(p, size, index)}
    /\ blocks' = [blocks EXCEPT ![index] = p]
    /\ sizes' = [sizes EXCEPT ![index] = size]
    /\ mem' = RandomizeBlock(m, p, size, index)

(* One that it refuses ends the evaluation. *)
Refuse(m, rs) == mem' = m /\ ranges' = rs /\ UNCHANGED <<blocks, sizes>>

Alloc(index, size) ==
    \E got \in {MmMalloc(mem, size)} :
        /\ Request
        /\ index \notin live
        /\ verdict' = IF got.ret = NULL THEN "mm_malloc failed"
                      ELSE Judge(got.m, ranges, got.ret, size)
        /\ live' = IF verdict' = "running" THEN live \cup {index} ELSE live
        /\ IF verdict' = "running" THEN Accept(got.m, ranges, got.ret, size, index)
                                   ELSE Refuse(got.m, ranges)
        /\ IF got.ret = NULL THEN UNCHANGED <<total, hwm>> ELSE Tally(size, 0)
        /\ UNCHANGED garbled

(* check_index runs before the call, and after it on the smaller size. *)
Realloc(index, size) ==
    \E got \in {MmRealloc(mem, blocks[index], size)} :
    LET old == blocks[index]
        failed == IF got.ret = NULL /\ size /= 0 THEN "mm_realloc failed"
                  ELSE IF got.ret /= NULL /\ size = 0 THEN "mm_realloc of 0 returned a block"
                  ELSE "running"
        kept == IF failed = "running" THEN RemoveRange(ranges, old) ELSE ranges
        common == IF size < sizes[index] THEN size ELSE sizes[index]
    IN  /\ Request
        /\ index \in live
        /\ verdict' = IF failed /= "running" \/ size = 0 THEN failed
                      ELSE Judge(got.m, kept, got.ret, size)
        /\ IF verdict' = "running" THEN Accept(got.m, kept, got.ret, size, index)
                                   ELSE Refuse(got.m, kept)
        /\ garbled' = \/ garbled
                      \/ Garbled(mem, old, sizes[index], index)
                      \/ verdict' = "running" /\ Garbled(got.m, got.ret, common, index)
        /\ IF failed = "mm_realloc failed" THEN UNCHANGED <<total, hwm>>
           ELSE Tally(size, sizes[index])
        /\ UNCHANGED live

(* A free of an id; the trace's "f -1" is FreeNull. *)
Free(index) == /\ Request
               /\ index \in live
               /\ live' = live \ {index}
               /\ garbled' = (garbled \/ Garbled(mem, blocks[index], sizes[index], index))
               /\ ranges' = RemoveRange(ranges, blocks[index])
               /\ mem' = MmFree(mem, blocks[index])
               /\ Tally(0, sizes[index])
               /\ UNCHANGED <<blocks, sizes, verdict>>

FreeNull == /\ Request
            /\ mem' = MmFree(mem, NULL)
            /\ Tally(0, 0)
            /\ UNCHANGED <<blocks, sizes, live, ranges, verdict, garbled>>

Next == \/ \E index \in Ids, size \in Sizes : Alloc(index, size)
        \/ \E index \in Ids, size \in Sizes \cup {0} : Realloc(index, size)
        \/ \E index \in Ids : Free(index)
        \/ FreeNull

Spec == Init /\ [][Next]_vars

--------------------------------------------------------------------------------
(* Properties *)

(* The driver finds nothing wrong with mm.c: an evaluation ends early only *)
(* because the heap is full (mdriver.c:845, 872).                          *)
DriverAccepts == /\ verdict \in {"running", "mm_malloc failed", "mm_realloc failed"}
                 /\ ~garbled

(* What checkheap (mm.c:366) checks, and that the walk it does covers the  *)
(* heap: the blocks, each at least two double words except the prologue,   *)
(* follow one another up to the epilogue, the last word below mem_brk.  No *)
(* two free blocks are neighbours, since coalescing is immediate, and the  *)
(* rover never points into the middle of a block (mm.c:190).               *)
IsFree(bp) == GetAlloc(mem, Hdrp(bp)) = 0
HeapConsistent ==
    /\ mem.brk <= MemHeap + MaxHeap
    /\ Epilogue(mem) \in Chain(mem)
    /\ Get(mem, Hdrp(Epilogue(mem))) = Pack(0, 1)
    /\ Get(mem, Hdrp(mem.listp)) = Pack(DSIZE, 1)
    /\ \A bp \in Blocks(mem) :
          /\ bp % DSIZE = 0
          /\ Get(mem, Hdrp(bp)) = Get(mem, Ftrp(mem, bp))
          /\ bp /= mem.listp => GetSize(mem, Hdrp(bp)) >= 2 * DSIZE
          /\ IsFree(bp) => \/ NextBlkp(mem, bp) = Epilogue(mem)
                           \/ ~IsFree(NextBlkp(mem, bp))
    /\ mem.nextFit => mem.rover \in Blocks(mem)

(* No block is lost and none is handed out twice: the allocated blocks of  *)
(* the heap are those the client holds, also after a call that failed.     *)
Held == {blocks[d] : d \in live} \ {NULL}
HolderOf(p) == {d \in live : blocks[d] = p}

AllocatedAreHeld ==
    /\ verdict = "running" =>
          {bp \in Blocks(mem) \ {mem.listp} : GetAlloc(mem, Hdrp(bp)) = 1} = Held
    /\ \A p \in Held : Cardinality(HolderOf(p)) = 1

(* mm.c:91, "at least size bytes of payload"; mdriver.c:542, "must not     *)
(* overlap any other payloads", for every way two ranges can overlap.      *)
PayloadsDisjoint ==
    /\ \A r, s \in ranges : r /= s => r.hi < s.lo \/ s.hi < r.lo
    /\ \A d \in live : blocks[d] /= NULL =>
          sizes[d] <= GetSize(mem, Hdrp(blocks[d])) - DSIZE

(* mm.c:221 and the whole point of an allocator: between requests, the     *)
(* bytes of a live block are those its owner wrote, whatever was done for  *)
(* other blocks, and also after an mm_realloc that failed.                 *)
DataIntact == \A d \in live : blocks[d] /= NULL =>
                  ~Garbled(mem, blocks[d], sizes[d], d)

(* Utilization (mdriver.c:938, "1 is optimal"): the ratio of the most     *)
(* bytes that were in use to the size of the heap does not pass 1, and the *)
(* running total is what the live blocks add up to.                        *)
HeapSize == mem.brk - MemHeap

UtilizationAtMostOne ==
    /\ hwm <= HeapSize
    /\ verdict = "running" => total = MapThenSumSet(LAMBDA d : sizes[d], live)

(* The heap grows only for a request that no free block fits: the next-fit *)
(* search, too, looks at every block (mm.c:312, 317).                      *)
FreeFits(size) == \E bp \in Blocks(mem) :
    GetAlloc(mem, Hdrp(bp)) = 0 /\ Adjust(size) <= GetSize(mem, Hdrp(bp))

GrowsOnlyWithoutFit ==
    [][mem'.brk /= mem.brk =>
          \A d \in Ids : blocks'[d] /= blocks[d] => ~FreeFits(sizes'[d])]_vars

================================================================================
