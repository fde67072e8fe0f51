------------------------------ MODULE MCMalloc ------------------------------
(***************************************************************************)
(* Instances of MallocDriver for TLC.                                       *)
(***************************************************************************)
EXTENDS MallocDriver, TLC

\* Block numbers are only compared, and written to payloads.
Symmetry == Permutations(Indices)

\* What the future of a consistent heap depends on: its blocks, its lists in
\* order, and what the driver knows.  The words left out are the interiors of
\* free blocks and the unused ends of allocated ones, which are written before
\* they are read again.
View ==
  <<[bp \in Walk(heap) |-> heap.mem[bp - WSIZE]],
    [i \in Lists |-> Chain(heap.mem, i)], heap.brk, blocks, ranges, verdict>>
=============================================================================
