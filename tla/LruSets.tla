------------------------------ MODULE LruSets ------------------------------
(***************************************************************************)
(* What lab8/csim.c promises: a set-associative cache with least recently   *)
(* used replacement, and three counters.  A set of the cache is known by    *)
(* the blocks that are resident in it and by the order in which they were   *)
(* last used; there are no lines, valid bits or time stamps here.           *)
(***************************************************************************)
EXTENDS Integers, FiniteSets

CONSTANTS Sets,   \* set indices
          Tags,   \* the blocks that compete for a set
          Ways    \* how many of them a set can hold

VARIABLES resident,                    \* resident[k]: the blocks in set k
          older,                       \* <<u, v>> \in older[k]: u was used before v
          hits, misses, evictions

abstractVars == <<resident, older, hits, misses, evictions>>

Init ==
  /\ resident = [k \in Sets |-> {}]
  /\ older = [k \in Sets |-> {}]
  /\ hits = 0 /\ misses = 0 /\ evictions = 0

\* The order of set k once the blocks in Kept stay and t has become the newest.
UsedLast(k, Kept, t) ==
  {p \in older[k] : p[1] \in Kept \ {t} /\ p[2] \in Kept \ {t}}
    \cup ((Kept \ {t}) \X {t})

\* The resident blocks that every other one was used after: at most one.
LeastRecent(k) ==
  {u \in resident[k] : \A v \in resident[k] \ {u} : <<u, v>> \in older[k]}

Keep(k, Kept, t) ==
  /\ resident' = [resident EXCEPT ![k] = Kept \cup {t}]
  /\ older' = [older EXCEPT ![k] = UsedLast(k, Kept, t)]

Hit(k, t) ==
  /\ t \in resident[k]
  /\ Keep(k, resident[k], t)
  /\ hits' = hits + 1
  /\ UNCHANGED <<misses, evictions>>

Fill(k, t) ==
  /\ t \notin resident[k]
  /\ Cardinality(resident[k]) < Ways
  /\ Keep(k, resident[k], t)
  /\ misses' = misses + 1
  /\ UNCHANGED <<hits, evictions>>

Replace(k, t) ==
  /\ t \notin resident[k]
  /\ Cardinality(resident[k]) = Ways
  /\ \E u \in LeastRecent(k) : Keep(k, resident[k] \ {u}, t)
  /\ misses' = misses + 1
  /\ evictions' = evictions + 1
  /\ UNCHANGED hits

Access(k, t) == Hit(k, t) \/ Fill(k, t) \/ Replace(k, t)

Next == \E k \in Sets, t \in Tags : Access(k, t)

Spec == Init /\ [][Next]_abstractVars
=============================================================================
