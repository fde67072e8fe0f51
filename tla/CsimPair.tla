------------------------------ MODULE CsimPair ------------------------------
(***************************************************************************)
(* Two copies of the simulator of module Csim that read the same trace: one *)
(* with E lines per set and one with More lines per set.                    *)
(***************************************************************************)
EXTENDS Csim

CONSTANT More    \* lines per set of the second cache

ASSUME MoreAssumption == More \in Nat /\ More >= E

VARIABLES lines2, useLog2, hit2, miss2, eviction2

vars2 == <<lines2, useLog2, hit2, miss2, eviction2>>

Large == INSTANCE Csim WITH E <- More, lines <- lines2, useLog <- useLog2,
           hit <- hit2, miss <- miss2, eviction <- eviction2

PairInit == Init /\ Large!Init

PairNext ==
  \/ \E a \in Addresses : LoadOrStore(a) /\ Large!LoadOrStore(a)
  \/ \E a \in Addresses : ModifyLoad(a) /\ Large!ModifyLoad(a)
  \/ ModifyStore /\ Large!ModifyStore

PairSpec == PairInit /\ [][PairNext]_<<vars, vars2>>

\* Least recently used replacement is a stack algorithm: with more lines per
\* set csim.c holds at every moment everything it holds with fewer, so adding
\* lines never costs a hit on any trace.
Inclusion ==
  /\ \A k \in SetIndices : Resident[k] \subseteq Large!Resident[k]
  /\ hit <= hit2
=============================================================================
