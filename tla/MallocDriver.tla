---------------------------- MODULE MallocDriver ----------------------------
(***************************************************************************)
(* The allocator under the validity check of lab9/mdriver.c                 *)
(* (eval_mm_valid): a trace of requests, in any order and of any length,    *)
(* each of which is passed to the allocator, checked with add_range(), and  *)
(* followed by a write to the whole payload.  The first request that fails  *)
(* a check ends the evaluation.                                             *)
(*                                                                          *)
(* A trace never frees or resizes a block it has not allocated, except that *)
(* a request may resize a block that does not exist yet, which stands for a *)
(* call of mm_realloc() with a null pointer.                                *)
(***************************************************************************)
EXTENDS Malloc

CONSTANTS Indices,   \* the block numbers of the trace
          Sizes      \* the sizes that requests ask for, multiples of WSIZE

ASSUME SizeAssumption == \A n \in Sizes : n \in Nat /\ n % WSIZE = 0

VARIABLES heap,      \* the allocator's memory and its break
          blocks,    \* blocks[i] = <<address, size>> of the payload, or NoBlock
          ranges,    \* the payload ranges add_range() knows
          verdict    \* "valid" until a check fails

vars == <<heap, blocks, ranges, verdict>>

NoBlock == <<NULL, 0>>

Init ==
  /\ heap = [mem |-> MmInit.mem, brk |-> MmInit.brk]
  /\ blocks = [i \in Indices |-> NoBlock]
  /\ ranges = {}
  /\ verdict = IF MmInit.ptr = NULL THEN "mm_init failed" ELSE "valid"

-----------------------------------------------------------------------------
(* add_range()                                                              *)

Aligned(lo) == lo % 8 = 0

\* mem_heap_lo() is 0 and mem_heap_hi() is brk - 1.
InsideHeap(lo, size, brk) == lo + size <= brk

\* One end of the new range lies within the old one.
EndsIn(lo, hi, r) == lo \in r[1] .. r[2] \/ hi \in r[1] .. r[2]

RangeOk(lo, size, brk, known) ==
  /\ Aligned(lo)
  /\ InsideHeap(lo, size, brk)
  /\ \A r \in known : ~EndsIn(lo, lo + size - 1, r)

RangeOf(b) == <<b[1], b[1] + b[2] - 1>>

\* memset(p, index & 0xFF, size): every word of the payload becomes the block
\* number, which is no number that the allocator writes.
Filled(m, lo, size, i) ==
  [a \in Words |-> IF a \in lo .. lo + size - 1 THEN i ELSE m[a]]

\* What a successful request leaves behind.
Remember(i, r, size, known) ==
  /\ heap' = [mem |-> Filled(r.mem, r.ptr, size, i), brk |-> r.brk]
  /\ blocks' = [blocks EXCEPT ![i] = <<r.ptr, size>>]
  /\ ranges' = known \cup {RangeOf(<<r.ptr, size>>)}
  /\ UNCHANGED verdict

Fail(r, why) ==
  /\ heap' = [mem |-> r.mem, brk |-> r.brk]
  /\ verdict' = why
  /\ UNCHANGED <<blocks, ranges>>

-----------------------------------------------------------------------------
(* The requests.                                                            *)

Alloc(i, size) ==
  /\ verdict = "valid"
  /\ blocks[i] = NoBlock
  /\ \E r \in {MmMalloc(heap, size)} :
       IF r.ptr = NULL THEN Fail(r, "mm_malloc failed")
       ELSE IF ~RangeOk(r.ptr, size, r.brk, ranges) THEN Fail(r, "bad range")
       ELSE Remember(i, r, size, ranges)

\* The data of the old block that must be in the new one.
Preserved(m, lo, size, i) == \A a \in Words : a \in lo .. lo + size - 1 => m[a] = i

Realloc(i, size) ==
  LET known == ranges \ {RangeOf(blocks[i])}
      kept == IF size < blocks[i][2] THEN size ELSE blocks[i][2]
  IN  /\ verdict = "valid"
      /\ blocks[i] = NoBlock => size > 0
      /\ \E r \in {MmRealloc(heap, blocks[i][1], size)} :
           IF r.ptr = NULL THEN Fail(r, "mm_realloc failed")
           ELSE IF ~RangeOk(r.ptr, size, r.brk, known) THEN Fail(r, "bad range")
           ELSE IF ~Preserved(r.mem, r.ptr, kept, i) THEN Fail(r, "data lost")
           ELSE Remember(i, r, size, known)

Free(i) ==
  /\ verdict = "valid"
  /\ blocks[i] # NoBlock
  /\ heap' = MmFree(heap, blocks[i][1])
  /\ blocks' = [blocks EXCEPT ![i] = NoBlock]
  /\ ranges' = ranges \ {RangeOf(blocks[i])}
  /\ UNCHANGED verdict

Next ==
  \E i \in Indices :
    \/ \E size \in Sizes : Alloc(i, size) \/ Realloc(i, size)
    \/ Free(i)

Spec == Init /\ [][Next]_vars

\* A request that shrinks a block that a free block follows.  Shrink() is not
\* right then (it leaves the free block on its list); what holds of the rest of
\* the allocator holds of the traces without such requests.
ShrinksIntoFree(i, size) ==
  LET bp == blocks[i][1]
  IN  /\ blocks[i] # NoBlock /\ size > 0
      /\ ALIGN(size + DSIZE) < Size(heap.mem, bp)
      /\ ~Allocated(heap.mem, NextBlk(heap.mem, bp))

SteadyNext ==
  \E i \in Indices :
    \/ \E size \in Sizes : \/ Alloc(i, size)
                           \/ ~ShrinksIntoFree(i, size) /\ Realloc(i, size)
    \/ Free(i)

SteadySpec == Init /\ [][SteadyNext]_vars

-----------------------------------------------------------------------------
(* The heap as a walk over its headers and its lists see it.                *)

\* The blocks from the prologue up to the epilogue, by way of their headers.
Walk(h) ==
  LET ends(bp) == bp > h.brk \/ Size(h.mem, bp) = 0
      block[n \in 0 .. MAX_HEAP \div (2 * DSIZE)] ==
        LET last == block[n - 1]
        IN  IF n = 0 THEN HeapList
            ELSE IF ends(last) THEN last ELSE NextBlk(h.mem, last)
  IN  {bp \in {block[n] : n \in DOMAIN block} : ~ends(bp)}

Prologue == HeapList
BlocksOf(h) == Walk(h) \ {Prologue}
FreeBlocks(h) == {bp \in BlocksOf(h) : ~Allocated(h.mem, bp)}

\* List i, node by node, up to the null pointer, to a block that is not free, or
\* as far as the heap could possibly hold blocks.
Chain(m, i) ==
  LET node[n \in 0 .. MAX_HEAP \div (2 * DSIZE)] ==
        LET bp == node[n - 1]
        IN  IF n = 0 THEN FirstFree(m, i)
            ELSE IF bp # NULL /\ ~Allocated(m, bp) THEN NextFree(m, bp) ELSE NULL
  IN  node

OnList(m, i) == {Chain(m, i)[n] : n \in DOMAIN Chain(m, i)} \ {NULL}

FitsNowhere(h, asize) == \A bp \in FreeBlocks(h) : Size(h.mem, bp) < asize

Live == {i \in Indices : blocks[i] # NoBlock}

Demand(size) == ALIGN(MaxOf(ALIGN(size) + DSIZE, CHUNKSIZE))

Promised == INSTANCE Allocator WITH
              live <- blocks, top <- heap.brk, refused <- verdict # "valid",
              LIMIT <- MAX_HEAP

-----------------------------------------------------------------------------
(* Properties                                                               *)

TypeOK ==
  /\ DOMAIN heap.mem = Words
  /\ heap.brk \in {8 * n : n \in 0 .. MAX_HEAP \div 8}
  /\ blocks \in [Indices -> {NoBlock} \cup ((Words \ {NULL}) \X (Sizes \ {0}))]
  /\ ranges \subseteq Words \X Nat
  /\ verdict \in {"valid", "mm_init failed", "mm_malloc failed",
                  "mm_realloc failed", "bad range", "data lost"}

\* The blocks tile the heap: going from header to header one comes to the
\* epilogue just below the break, and every block has the same tag in its
\* header and its footer, so that coalesce() finds both neighbours.
BlocksTileHeap ==
  LET m == heap.mem
  IN  /\ \A bp \in BlocksOf(heap) :
           /\ Size(m, bp) >= 2 * DSIZE
           /\ bp % 8 = 0
           /\ NextBlk(m, bp) \in Walk(heap) \cup {heap.brk}
           /\ m[bp - WSIZE] = m[bp + Size(m, bp) - DSIZE]
      /\ NextBlk(m, Prologue) \in Walk(heap) \cup {heap.brk}
      /\ m[heap.brk - WSIZE] = PACK(0, 1)

\* mm_check(): every pointer in a free list leads to a free block, which is on
\* the list for its size.
ListsHoldFreeBlocks ==
  \A i \in Lists : \A bp \in OnList(heap.mem, i) :
    bp \in FreeBlocks(heap) /\ ListIndex(Size(heap.mem, bp)) = i

\* mm_check(): every free block is on a free list, and the backward links of
\* the lists mirror the forward links, so that any block can be unlinked.
FreeBlocksListed ==
  LET m == heap.mem
  IN  /\ FreeBlocks(heap) \subseteq UNION {OnList(m, i) : i \in Lists}
      /\ \A i \in Lists : LET chain == Chain(m, i) IN
           \A n \in DOMAIN chain : chain[n] # NULL =>
             Address(m[chain[n]]) = IF n = 0 THEN NULL ELSE chain[n - 1]

\* What the client does not hold can be used again, in pieces as large as there
\* are: the allocated blocks are those the client holds, each large enough for
\* its payload, so that nothing leaks and nothing is handed out twice, and (as
\* mm_check() asks) no two free blocks are adjacent, as coalesce() missed none.
NothingWasted ==
  /\ verdict = "valid" =>
       /\ {blocks[i][1] : i \in Live} = BlocksOf(heap) \ FreeBlocks(heap)
       /\ \A i \in Live : Size(heap.mem, blocks[i][1]) >= ALIGN(blocks[i][2]) + DSIZE
  /\ \A bp \in FreeBlocks(heap) : Allocated(heap.mem, NextBlk(heap.mem, bp))

\* No header, footer, link or other block is ever written over a payload.
PayloadsIntact ==
  verdict = "valid" =>
    \A i \in Live : Preserved(heap.mem, blocks[i][1], blocks[i][2], i)

\* The heap grows, and a request is refused, only if no free block anywhere
\* has room: first fit over the lists from ListIndex(asize) up misses none.
GrowsOnlyWhenFull ==
  [][\A i \in Indices, size \in Sizes \ {0} :
       Alloc(i, size) /\ (heap'.brk > heap.brk \/ verdict' # "valid")
         => FitsNowhere(heap, ALIGN(size) + DSIZE)]_vars

\* The allocator keeps its promise to the client.
IsAllocator == Promised!Spec
=============================================================================
