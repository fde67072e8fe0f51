------------------------------- MODULE Malloc -------------------------------
(***************************************************************************)
(* The dynamic storage allocator lab9/mm.c on the heap of lab9/memlib.c.    *)
(*                                                                          *)
(* The heap is memory: m[a] is the 4-byte word at offset a from the start.  *)
(* It begins with the heads of the segregated free lists; then come the     *)
(* prologue, the blocks, and the epilogue header just below the break.  A   *)
(* block is named by the address bp of its payload.  Its header (at bp - 4) *)
(* and footer hold its size and an allocated bit; a free block keeps the    *)
(* offsets of its neighbours on its free list in its first two words.       *)
(*                                                                          *)
(* The routines are operators on memory (m), or on a heap h with fields mem *)
(* and brk; one that returns a pointer too returns a record with field ptr. *)
(***************************************************************************)
EXTENDS Integers, FiniteSets

CONSTANTS
  LISTLENGTH, LINEARLENGTH, LINEARMAX,            \* the free lists
  INITCHUNKSIZE, CHUNKSIZE, REALLOCCHUNKSIZE,     \* by how much the heap grows
  BIGSIZE,                                        \* larger blocks go right
  MAX_HEAP                                        \* bytes that mem_sbrk can give

ASSUME ListAssumption ==
  /\ LISTLENGTH \in Nat /\ LINEARMAX \in Nat /\ LINEARLENGTH \in Nat
  /\ LINEARMAX < LISTLENGTH

ASSUME ChunkAssumption ==
  /\ INITCHUNKSIZE \in Nat /\ CHUNKSIZE \in Nat /\ REALLOCCHUNKSIZE \in Nat
  /\ BIGSIZE \in Nat

WSIZE == 4
DSIZE == 8
NULL == 0      \* no block starts at address 0, which holds the first list head

ALIGN(size) == ((size + 7) \div 8) * 8

Words == {WSIZE * i : i \in 0 .. MAX_HEAP \div WSIZE - 1}

\* heap_listp: the payload address of the prologue block.
HeapList == ALIGN(LISTLENGTH * WSIZE) + 2 * WSIZE

\* There is room for mm_init()'s words, and what the heap grows by is a block.
ASSUME HeapAssumption ==
  /\ MAX_HEAP \in Nat /\ HeapList + DSIZE <= MAX_HEAP
  /\ INITCHUNKSIZE > DSIZE /\ REALLOCCHUNKSIZE > DSIZE

PACK(size, alloc) == size + alloc
SizeIn(w) == (w \div 8) * 8

Size(m, bp) == SizeIn(m[bp - WSIZE])
Allocated(m, bp) == m[bp - WSIZE] % 2 = 1

NextBlk(m, bp) == bp + Size(m, bp)
PrevBlk(m, bp) == bp - SizeIn(m[bp - DSIZE])

\* PUT(HDRP(bp), ...) and then PUT(FTRP(bp), ...).
Tagged(m, bp, size, alloc) ==
  [m EXCEPT ![bp - WSIZE] = PACK(size, alloc),
            ![bp + size - DSIZE] = PACK(size, alloc)]

-----------------------------------------------------------------------------
(* Free lists.                                                              *)

Address(offset) == IF offset = 0 THEN NULL ELSE HeapList + offset

FirstFree(m, i) == Address(m[i * WSIZE])
NextFree(m, bp) == Address(m[bp + WSIZE])

Lists == 0 .. LISTLENGTH - 1

\* x >> k
Shifted(x, k) ==
  LET half[n \in 0 .. k] == IF n = 0 THEN x ELSE half[n - 1] \div 2 IN half[k]

\* The list for blocks of a size: one list per size up to LINEARMAX, then one
\* per power of two, then one for all the larger ones.
ListIndex(size) ==
  LET linear == size \div DSIZE - 2
      shorter == {i \in LINEARMAX .. LISTLENGTH - 2 :
                    Shifted(size - 1, LINEARLENGTH + i - LINEARMAX) = 0}
  IN  IF linear \in 0 .. LINEARMAX - 1 THEN linear
      ELSE IF shorter = {} THEN LISTLENGTH - 1
      ELSE CHOOSE i \in shorter : \A j \in shorter : i <= j

\* Faulty variant: the old first block gets no link back to the new one.
InsertFree_OneWay(m, bp) ==
  LET head == ListIndex(Size(m, bp)) * WSIZE
  IN  [m EXCEPT ![bp] = 0, ![bp + WSIZE] = m[head], ![head] = bp - HeapList]

InsertFree(m, bp) ==
  LET head == ListIndex(Size(m, bp)) * WSIZE
      linked == IF m[head] = 0 THEN m
                ELSE [m EXCEPT ![Address(m[head])] = bp - HeapList]
  IN  [linked EXCEPT ![bp] = 0, ![bp + WSIZE] = m[head], ![head] = bp - HeapList]

\* Faulty variant: the block after bp keeps its link back to bp.
RemoveFree_OneWay(m, bp) ==
  LET head == ListIndex(Size(m, bp)) * WSIZE
      succ == m[bp + WSIZE]
  IN  IF m[bp] = 0 THEN [m EXCEPT ![head] = succ]
      ELSE [m EXCEPT ![Address(m[bp]) + WSIZE] = succ]

RemoveFree(m, bp) ==
  LET head == ListIndex(Size(m, bp)) * WSIZE
      prev == m[bp]
      succ == m[bp + WSIZE]
      ahead == IF prev = 0 THEN [m EXCEPT ![head] = succ]
               ELSE [m EXCEPT ![Address(prev) + WSIZE] = succ]
  IN  IF succ = 0 THEN ahead ELSE [ahead EXCEPT ![Address(succ)] = prev]

\* The first block of list i that has room for asize bytes: at[n] is where the
\* search is after n steps, and there is no room for more blocks than steps.
FirstFit(m, i, asize) ==
  LET at[n \in 0 .. MAX_HEAP \div (2 * DSIZE)] ==
        LET bp == at[n - 1]
        IN  IF n = 0 THEN FirstFree(m, i)
            ELSE IF bp = NULL \/ Size(m, bp) >= asize THEN bp ELSE NextFree(m, bp)
  IN  at[MAX_HEAP \div (2 * DSIZE)]

\* Faulty variant: the search ends with the list for the size itself.
FindFit_OneList(m, asize) == FirstFit(m, ListIndex(asize), asize)

FindFit(m, asize) ==
  LET lists == {i \in ListIndex(asize) .. LISTLENGTH - 1 : FirstFit(m, i, asize) # NULL}
  IN  IF lists = {} THEN NULL
      ELSE FirstFit(m, CHOOSE i \in lists : \A j \in lists : i <= j, asize)

-----------------------------------------------------------------------------
(* Splitting and merging blocks.                                            *)

\* Faulty variant: the next block is merged but stays on its free list.
Coalesce_KeepsNext(m, bp) ==
  LET prev == PrevBlk(m, bp)
      next == NextBlk(m, bp)
      start == IF Allocated(m, prev) THEN bp ELSE prev
      size == Size(m, bp) + (IF Allocated(m, prev) THEN 0 ELSE Size(m, prev))
                          + (IF Allocated(m, next) THEN 0 ELSE Size(m, next))
      m1 == IF Allocated(m, prev) THEN m ELSE RemoveFree(m, prev)
  IN  [mem |-> InsertFree(Tagged(m1, start, size, 0), start), ptr |-> start]

Coalesce(m, bp) ==
  LET prev == PrevBlk(m, bp)
      next == NextBlk(m, bp)
      start == IF Allocated(m, prev) THEN bp ELSE prev
      size == Size(m, bp) + (IF Allocated(m, prev) THEN 0 ELSE Size(m, prev))
                          + (IF Allocated(m, next) THEN 0 ELSE Size(m, next))
      m1 == IF Allocated(m, next) THEN m ELSE RemoveFree(m, next)
      m2 == IF Allocated(m, prev) THEN m1 ELSE RemoveFree(m1, prev)
  IN  [mem |-> InsertFree(Tagged(m2, start, size, 0), start), ptr |-> start]

\* Faulty variant: the break moves but no new epilogue is written.
ExtendHeap_NoEpilogue(h, size) ==
  IF h.brk + ALIGN(size) > MAX_HEAP
  THEN [mem |-> h.mem, brk |-> h.brk, ptr |-> NULL]
  ELSE LET c == Coalesce(Tagged(h.mem, h.brk, ALIGN(size), 0), h.brk)
       IN  [mem |-> c.mem, brk |-> h.brk + ALIGN(size), ptr |-> c.ptr]

\* extend_heap() and mem_sbrk(), which fails rather than pass MAX_HEAP.
ExtendHeap(h, size) ==
  LET top == h.brk + ALIGN(size)
  IN  IF top > MAX_HEAP
      THEN [mem |-> h.mem, brk |-> h.brk, ptr |-> NULL]
      ELSE LET m1 == Tagged(h.mem, h.brk, ALIGN(size), 0)
               c == Coalesce([m1 EXCEPT ![top - WSIZE] = PACK(0, 1)], h.brk)
           IN  [mem |-> c.mem, brk |-> top, ptr |-> c.ptr]

Place(m, bp, asize) ==
  LET csize == Size(m, bp)
      remain == csize - asize
      m1 == RemoveFree(m, bp)
  IN  IF remain < 2 * DSIZE
      THEN [mem |-> Tagged(m1, bp, csize, 1), ptr |-> bp]
      ELSE IF asize > BIGSIZE
      THEN LET m2 == Tagged(Tagged(m1, bp, remain, 0), bp + remain, asize, 1)
           IN  [mem |-> InsertFree(m2, bp), ptr |-> bp + remain]
      ELSE LET m2 == Tagged(Tagged(m1, bp, asize, 1), bp + asize, remain, 0)
           IN  [mem |-> InsertFree(m2, bp + asize), ptr |-> bp]

-----------------------------------------------------------------------------
(* The interface.                                                           *)

MaxOf(x, y) == IF x > y THEN x ELSE y

\* mm_init() on the memory that mem_reset_brk() leaves; the memory of a fresh
\* heap is never read before it is written, so zero stands for what it holds.
MmInit ==
  LET m == [a \in Words |->
              IF a \in {HeapList - WSIZE, HeapList} THEN PACK(DSIZE, 1)
              ELSE IF a = HeapList + WSIZE THEN PACK(0, 1)
              ELSE 0]
  IN  ExtendHeap([mem |-> m, brk |-> HeapList + DSIZE], INITCHUNKSIZE)

\* Block bp of the heap is used for asize bytes.
PlacedAt(h, bp, asize) ==
  LET p == Place(h.mem, bp, asize)
  IN  [mem |-> p.mem, brk |-> h.brk, ptr |-> p.ptr]

\* The same in what extend_heap() has returned, if it could extend the heap.
PlacedInGrown(grown, asize) ==
  IF grown.ptr = NULL THEN grown ELSE PlacedAt(grown, grown.ptr, asize)

MmMalloc(h, size) ==
  LET asize == ALIGN(size) + DSIZE
      fit == FindFit(h.mem, asize)
  IN  IF size <= 0 THEN [mem |-> h.mem, brk |-> h.brk, ptr |-> NULL]
      ELSE IF fit # NULL THEN PlacedAt(h, fit, asize)
      ELSE PlacedInGrown(ExtendHeap(h, MaxOf(asize, CHUNKSIZE)), asize)

\* Faulty variant: the block is put on a list as it is.
MmFree_NeverMerges(h, ptr) ==
  [mem |-> InsertFree(Tagged(h.mem, ptr, Size(h.mem, ptr), 0), ptr), brk |-> h.brk]

MmFree(h, ptr) ==
  [mem |-> Coalesce(Tagged(h.mem, ptr, Size(h.mem, ptr), 0), ptr).mem,
   brk |-> h.brk]

\* memcpy(to, from, n)
Copied(m, to, from, n) ==
  [a \in Words |-> IF a \in to .. to + n - 1 THEN m[from + (a - to)] ELSE m[a]]

\* The bytes by which the free block after ptr, if there is one, exceeds what
\* ptr is short of for a block of newSize bytes.
Spare(m, ptr, newSize) ==
  Size(m, ptr) - newSize
    + (IF Allocated(m, NextBlk(m, ptr)) THEN 0 ELSE Size(m, NextBlk(m, ptr)))

\* The last block of the heap, or the last but for one free block.
AtTop(m, ptr) ==
  LET next == NextBlk(m, ptr)
  IN  \/ Size(m, next) = 0
      \/ ~Allocated(m, next) /\ Size(m, NextBlk(m, next)) = 0

\* A smaller block: what is cut off, together with the free block after it,
\* becomes a block and is freed.
Shrink(h, ptr, newSize) ==
  LET spare == Spare(h.mem, ptr, newSize)
      rest == ptr + newSize
      cut == Tagged(Tagged(h.mem, ptr, newSize, 1), rest, spare, 0)
  IN  [mem |-> IF spare >= 2 * DSIZE THEN Coalesce(cut, rest).mem ELSE h.mem,
       brk |-> h.brk, ptr |-> ptr]

\* A larger block in place: the free block after ptr is used up or cut.
GrowInPlace(h, ptr, newSize) ==
  LET spare == Spare(h.mem, ptr, newSize)
      m1 == RemoveFree(h.mem, NextBlk(h.mem, ptr))
      rest == ptr + newSize
  IN  [mem |-> IF spare < 2 * DSIZE
               THEN Tagged(m1, ptr, newSize + spare, 1)
               ELSE InsertFree(Tagged(Tagged(m1, ptr, newSize, 1), rest, spare, 0), rest),
       brk |-> h.brk, ptr |-> ptr]

\* The data of ptr, n bytes, are copied to the block that mm_malloc() returned,
\* and ptr is freed.
MovedTo(new, ptr, n) ==
  LET copy == Copied(new.mem, new.ptr, ptr, n)
  IN  IF new.ptr = NULL THEN new
      ELSE [mem |-> MmFree([mem |-> copy, brk |-> new.brk], ptr).mem,
            brk |-> new.brk, ptr |-> new.ptr]

\* Faulty variant: memcpy() copies only one word of the payload.
Move_CopiesOneWord(h, ptr, size) == MovedTo(MmMalloc(h, size), ptr, WSIZE)


\* A larger block elsewhere.
Move(h, ptr, size) == MovedTo(MmMalloc(h, size), ptr, Size(h.mem, ptr) - DSIZE)

\* A larger block: in place, or elsewhere.
Grow(h, ptr, size, newSize) ==
  IF Spare(h.mem, ptr, newSize) >= 0 THEN GrowInPlace(h, ptr, newSize)
  ELSE Move(h, ptr, size)

MmRealloc(h, ptr, size) ==
  LET newSize == ALIGN(size + DSIZE)
      oldSize == Size(h.mem, ptr)
      spare == Spare(h.mem, ptr, newSize)
      h1 == IF spare < 0 /\ AtTop(h.mem, ptr)
            THEN ExtendHeap(h, MaxOf(-spare, REALLOCCHUNKSIZE)) ELSE h
  IN  IF size <= 0
      THEN [mem |-> MmFree(h, ptr).mem, brk |-> h.brk, ptr |-> NULL]
      ELSE IF ptr = NULL THEN MmMalloc(h, size)
      ELSE IF oldSize = newSize THEN [mem |-> h.mem, brk |-> h.brk, ptr |-> ptr]
      ELSE IF oldSize > newSize THEN Shrink(h, ptr, newSize)
      ELSE Grow(h1, ptr, size, newSize)
=============================================================================
