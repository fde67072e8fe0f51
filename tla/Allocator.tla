----------------------------- MODULE Allocator -----------------------------
(***************************************************************************)
(* What a storage allocator promises its client (mm_malloc, mm_free and     *)
(* mm_realloc of lab9/mm.h, as lab9/mdriver.c checks them): every block is  *)
(* aligned, lies inside the heap and shares no byte with another block, and *)
(* a request is refused only if it asks for nothing or the heap is used up. *)
(* Where a block is placed is the allocator's choice.                       *)
(***************************************************************************)
EXTENDS Integers

CONSTANTS Indices, Sizes,
          LIMIT,         \* the heap never gets larger
          Demand(_)      \* how far the heap must be able to grow for a size

VARIABLES live,          \* live[i]: address and size of block i, size 0 if none
          top,           \* size of the heap
          refused        \* a request was refused; the client gives up

allocatorVars == <<live, top, refused>>

Init ==
  /\ \A i \in Indices : live[i][2] = 0
  /\ top \in 0 .. LIMIT
  /\ refused = FALSE

Disjoint(b, c) == b[1] + b[2] <= c[1] \/ c[1] + c[2] <= b[1]

\* Block i, new or not, gets size bytes somewhere.
Grant(i, size) ==
  /\ size > 0
  /\ ~refused
  /\ top' \in top .. LIMIT
  /\ \E lo \in 0 .. LIMIT - size :
       /\ lo % 8 = 0
       /\ lo + size <= top'
       /\ \A j \in Indices \ {i} : live[j][2] > 0 => Disjoint(<<lo, size>>, live[j])
       /\ live' = [live EXCEPT ![i] = <<lo, size>>]
  /\ UNCHANGED refused

Release(i) ==
  /\ ~refused
  /\ live[i][2] > 0
  /\ live'[i][2] = 0
  /\ \A j \in Indices \ {i} : live'[j] = live[j]
  /\ UNCHANGED <<top, refused>>

Refuse(size) ==
  /\ ~refused
  /\ size = 0 \/ top + Demand(size) > LIMIT
  /\ refused' = TRUE
  /\ UNCHANGED <<live, top>>

Next ==
  \/ \E i \in Indices, size \in Sizes : Grant(i, size)
  \/ \E i \in Indices : Release(i)
  \/ \E size \in Sizes : Refuse(size)

Spec == Init /\ [][Next]_allocatorVars
=============================================================================
