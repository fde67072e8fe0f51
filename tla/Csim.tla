-------------------------------- MODULE Csim --------------------------------
(***************************************************************************)
(* The cache simulator lab8/csim.c.  It reads a trace of memory accesses    *)
(* and counts hits, misses and evictions of a cache with S sets of E lines. *)
(* Every line carries a valid bit, a tag and a time stamp taken from one    *)
(* global counter, useLog; the least stamp of a full set is replaced.       *)
(*                                                                          *)
(* The number of sets and of bytes in a block are given directly (S and B)  *)
(* instead of by their logarithms: shifting and masking an address by s and *)
(* b bits is division and remainder by 2^s and 2^b.  The trace may hold any *)
(* accesses in any order and may end anywhere; a line for an instruction    *)
(* fetch, or of a kind the program does not know, changes nothing.          *)
(***************************************************************************)
EXTENDS Integers, FiniteSets

CONSTANTS S,          \* number of sets, 1 << s
          E,          \* lines per set
          B,          \* bytes per block, 1 << b
          Addresses,  \* the addresses a trace may hold
          INT_MAX     \* the largest int: useLog++ is undefined beyond it

ASSUME GeometryAssumption == S \in Nat \ {0} /\ E \in Nat \ {0} /\ B \in Nat \ {0}
ASSUME AddressAssumption == Addresses \subseteq Nat
ASSUME IntMaxAssumption == INT_MAX \in Nat

VARIABLES lines,                  \* lines[k][i]: line i of set k
          useLog,
          hit, miss, eviction,
          pending                 \* the store half of an 'M' line still to do

vars == <<lines, useLog, hit, miss, eviction, pending>>

NoAddress == -1

SetIndices == 0 .. S - 1
LineIndices == 0 .. E - 1

SetIndex(a) == (a \div B) % S
Tag(a) == a \div (S * B)

Tags == {Tag(a) : a \in Addresses}

Line == [valid : BOOLEAN, tag : Nat, lastUsed : Nat]

EmptyLine == [valid |-> FALSE, tag |-> 0, lastUsed |-> 0]

Init ==
  /\ lines = [k \in SetIndices |-> [i \in LineIndices |-> EmptyLine]]
  /\ useLog = 0
  /\ hit = 0 /\ miss = 0 /\ eviction = 0
  /\ pending = NoAddress

-----------------------------------------------------------------------------
(* load(): three scans of the set.                                          *)

First(I) == CHOOSE i \in I : \A j \in I : i <= j

\* The lines of set k that the first scan stops at, for the block tagged t.
\* Faulty variant: the valid bit is not looked at.
Matching_StaleLines(k, t) == {i \in LineIndices : lines[k][i].tag = t}
\* Faulty variant: the scan starts at line 1.
Matching_SkipsFirst(k, t) ==
  {i \in LineIndices \ {0} : lines[k][i].valid /\ lines[k][i].tag = t}

Matching(k, t) == {i \in LineIndices : lines[k][i].valid /\ lines[k][i].tag = t}

Invalid(k) == {i \in LineIndices : ~lines[k][i].valid}

\* Faulty variant: the scan keeps the line with the greatest stamp.
LeastUsed_Newest(k) ==
  {i \in LineIndices : \A j \in LineIndices : lines[k][j].lastUsed <= lines[k][i].lastUsed}

\* The lines with the least stamp; the scan keeps the first of them.
LeastUsed(k) ==
  {i \in LineIndices : \A j \in LineIndices : lines[k][i].lastUsed <= lines[k][j].lastUsed}

\* Line i of set k takes the block tagged t and the next time stamp.
Stamp(k, i, t) ==
  /\ lines' = [lines EXCEPT ![k][i] = [valid |-> TRUE, tag |-> t, lastUsed |-> useLog]]
  /\ useLog' = useLog + 1

\* Faulty variant: first in, first out; a hit does not refresh the stamp.
Hit_KeepsStamp(k, t) ==
  /\ Matching(k, t) # {}
  /\ useLog' = useLog + 1
  /\ hit' = hit + 1
  /\ UNCHANGED <<lines, miss, eviction>>

Hit(k, t) ==
  /\ Matching(k, t) # {}
  /\ Stamp(k, First(Matching(k, t)), t)
  /\ hit' = hit + 1
  /\ UNCHANGED <<miss, eviction>>

Fill(k, t) ==
  /\ Matching(k, t) = {}
  /\ Invalid(k) # {}
  /\ Stamp(k, First(Invalid(k)), t)
  /\ miss' = miss + 1
  /\ UNCHANGED <<hit, eviction>>

Evict(k, t) ==
  /\ Matching(k, t) = {}
  /\ Invalid(k) = {}
  /\ Stamp(k, First(LeastUsed(k)), t)
  /\ miss' = miss + 1
  /\ eviction' = eviction + 1
  /\ UNCHANGED hit

Load(a) ==
  /\ useLog < INT_MAX
  /\ \/ Hit(SetIndex(a), Tag(a))
     \/ Fill(SetIndex(a), Tag(a))
     \/ Evict(SetIndex(a), Tag(a))

-----------------------------------------------------------------------------
(* The loop of main() over the lines of the trace.                          *)

\* ' L' and ' S' lines: store() calls load().
LoadOrStore(a) ==
  /\ pending = NoAddress
  /\ Load(a)
  /\ UNCHANGED pending

\* ' M' lines: a load, then a store to the same address.
ModifyLoad(a) ==
  /\ pending = NoAddress
  /\ Load(a)
  /\ pending' = a

ModifyStore ==
  /\ pending # NoAddress
  /\ Load(pending)
  /\ pending' = NoAddress

Next ==
  \/ \E a \in Addresses : LoadOrStore(a) \/ ModifyLoad(a)
  \/ ModifyStore

Spec == Init /\ [][Next]_vars

-----------------------------------------------------------------------------
(* The cache as its user sees it: which blocks are in, in what order used.  *)

Valid(k) == {i \in LineIndices : lines[k][i].valid}

ValidLines == {p \in SetIndices \X LineIndices : lines[p[1]][p[2]].valid}

Resident == [k \in SetIndices |-> {lines[k][i].tag : i \in Valid(k)}]

UsedBefore ==
  [k \in SetIndices |->
     {p \in Resident[k] \X Resident[k] :
        \E i, j \in Valid(k) : /\ p = <<lines[k][i].tag, lines[k][j].tag>>
                              /\ lines[k][i].lastUsed < lines[k][j].lastUsed}]

Lru == INSTANCE LruSets WITH Sets <- SetIndices, Ways <- E,
         resident <- Resident, older <- UsedBefore,
         hits <- hit, misses <- miss, evictions <- eviction

-----------------------------------------------------------------------------
(* Properties                                                               *)

TypeOK ==
  /\ lines \in [SetIndices -> [LineIndices -> Line]]
  /\ useLog \in 0 .. INT_MAX
  /\ hit \in Nat /\ miss \in Nat /\ eviction \in Nat
  /\ pending \in Addresses \cup {NoAddress}

\* A block is in at most one line of its set: the first scan of load() may
\* stop at the first match, and no hit is missed or counted twice.
OneLinePerBlock ==
  \A k \in SetIndices : \A i, j \in Valid(k) :
    lines[k][i].tag = lines[k][j].tag => i = j

\* The counters printed at the end account for every access and for every
\* block that is in the cache: an access is a hit or a miss, and every miss
\* that evicted nothing left one more valid line behind.
CountersAgree ==
  /\ hit + miss = useLog
  /\ miss - eviction = Cardinality(ValidLines)

\* The store half of an 'M' line always hits, whatever the associativity:
\* the block its load half brought in is still there.
StoreAfterLoadHits ==
  [][pending # NoAddress /\ pending' = NoAddress => hit' = hit + 1]_vars

\* csim.c is a cache with least recently used replacement: time stamps, valid
\* bits and the order of the lines implement the recency order of LruSets.
IsLru == Lru!Spec
=============================================================================
