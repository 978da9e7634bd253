------------------------------- MODULE MallocHuge -------------------------------
(***************************************************************************)
(* mm_malloc called with any size_t.  mem_sbrk takes an int, headers hold  *)
(* an unsigned int: requests near 2^32 meet both conversions.              *)
(***************************************************************************)
EXTENDS Malloc

CONSTANT Requests      \* the sizes asked for

VARIABLES mem, ptr, asked

vars == <<mem, ptr, asked>>

Init == /\ \E build \in Builds : mem = MmInit(MemInit(build)).m
        /\ ptr = NULL /\ asked = 0

Malloc(size) == LET got == MmMalloc(mem, size)
                IN  /\ asked = 0
                    /\ asked' = size /\ ptr' = got.ret /\ mem' = got.m

Next == \E size \in Requests : Malloc(size)

Spec == Init /\ [][Next]_vars

(* mm.c:91, "Allocate a block with at least size bytes of payload": a      *)
(* pointer returned has that many bytes of the heap behind it.             *)
AtLeastSizeBytes == ptr /= NULL => ptr + asked <= mem.brk

================================================================================
