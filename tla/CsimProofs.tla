----------------------------- MODULE CsimProofs -----------------------------
(***************************************************************************)
(* The cache simulator is a least-recently-used cache, for every geometry,  *)
(* every set of addresses and every trace (about module Csim); and more     *)
(* lines per set never cost a hit (about module CsimPair).                  *)
(***************************************************************************)
EXTENDS CsimPair, TLAPS, FiniteSetTheorems, WellFoundedInduction

\* Every nonempty set of natural numbers has a least element.
LEMMA NatLeast ==
  ASSUME NEW T, T \subseteq Nat, T # {}
  PROVE  \E x \in T : \A y \in T : x <= y
<1> DEFINE Below == {p \in Nat \X Nat : p[1] < p[2]}
<1>1. IsWellFoundedOn(Below, Nat)
  BY NatLessThanWellFounded DEF OpToRel
<1>2. PICK x \in T : \A y \in T : <<y, x>> \notin Below
  BY <1>1, WFMin
<1>3. ASSUME NEW y \in T
      PROVE  x <= y
  <2>1. x \in Nat /\ y \in Nat
    OBVIOUS
  <2>2. <<y, x>> \notin Below
    BY <1>2
  <2> QED BY <2>1, <2>2
<1> QED BY <1>3

\* Stamps of the valid lines of a set are past values of the counter, no two
\* alike: the least one singles out the line that was used least recently.
FreshStamps ==
  \A k \in SetIndices : \A i \in Valid(k) :
    /\ lines[k][i].lastUsed < useLog
    /\ \A j \in Valid(k) : lines[k][i].lastUsed = lines[k][j].lastUsed => i = j

\* Between the two halves of an 'M' line the block is in its set.
PendingIsResident ==
  pending # NoAddress => Tag(pending) \in Resident[SetIndex(pending)]

IInv ==
  /\ TypeOK
  /\ OneLinePerBlock
  /\ FreshStamps
  /\ CountersAgree
  /\ PendingIsResident

LEMMA FirstIsIn ==
  ASSUME NEW I \in SUBSET LineIndices, I # {}
  PROVE  First(I) \in I
<1>1. I \subseteq Nat
  BY GeometryAssumption DEF LineIndices
<1>2. \E i \in I : \A j \in I : i <= j
  BY <1>1, NatLeast
<1> QED BY <1>2 DEF First

LEMMA AddressParts ==
  ASSUME NEW a \in Addresses
  PROVE  SetIndex(a) \in SetIndices /\ Tag(a) \in Nat /\ Tag(a) \in Tags
<1>1. a \in Nat
  BY AddressAssumption
<1>2. a \div B \in Nat
  BY <1>1, GeometryAssumption
<1>3. SetIndex(a) \in SetIndices
  <2> DEFINE q == a \div B
  <2>1. q \in Nat
    BY <1>2
  <2> HIDE DEF q
  <2>2. q % S \in 0 .. S - 1
    BY <2>1, GeometryAssumption
  <2> QED BY <2>2 DEF SetIndex, SetIndices, q
<1>4. S * B \in Nat \ {0}
  BY GeometryAssumption
<1>5. Tag(a) \in Nat
  <2> DEFINE m == S * B
  <2>1. m \in Nat \ {0}
    BY <1>4
  <2> HIDE DEF m
  <2>2. a \div m \in Nat
    BY <2>1, <1>1
  <2> QED BY <2>2 DEF Tag, m
<1> QED BY <1>3, <1>5 DEF Tags

-----------------------------------------------------------------------------
(* What one stamp does to the lines.                                        *)

Stamped(k, i, t) ==
  /\ lines' \in [SetIndices -> [LineIndices -> Line]]
  /\ lines'[k][i] = [valid |-> TRUE, tag |-> t, lastUsed |-> useLog]
  /\ \A j \in LineIndices \ {i} : lines'[k][j] = lines[k][j]
  /\ \A m \in SetIndices \ {k} : lines'[m] = lines[m]
  /\ useLog' = useLog + 1
  /\ Valid(k)' = Valid(k) \cup {i}
  /\ \A m \in SetIndices \ {k} : Valid(m)' = Valid(m)

LEMMA StampEffect ==
  ASSUME TypeOK, NEW k \in SetIndices, NEW i \in LineIndices, NEW t \in Nat,
         Stamp(k, i, t)
  PROVE  Stamped(k, i, t)
<1> DEFINE new == [valid |-> TRUE, tag |-> t, lastUsed |-> useLog]
<1>1. new \in Line
  BY DEF Line, TypeOK
<1>2. lines' = [lines EXCEPT ![k][i] = new] /\ useLog' = useLog + 1
  BY DEF Stamp
<1> HIDE DEF new
<1>3. lines \in [SetIndices -> [LineIndices -> Line]]
  BY DEF TypeOK
<1>4. /\ lines' \in [SetIndices -> [LineIndices -> Line]]
      /\ lines'[k][i] = new
      /\ \A j \in LineIndices \ {i} : lines'[k][j] = lines[k][j]
      /\ \A m \in SetIndices \ {k} : lines'[m] = lines[m]
  BY <1>1, <1>2, <1>3
<1>5. /\ Valid(k)' = Valid(k) \cup {i}
      /\ \A m \in SetIndices \ {k} : Valid(m)' = Valid(m)
  <2>1. new.valid
    BY DEF new
  <2> QED BY <2>1, <1>4 DEF Valid
<1> QED BY <1>2, <1>4, <1>5 DEF new, Stamped

\* The parts of the invariant that a stamp preserves, provided the block is
\* not in another line of the set.
LEMMA StampInvariant ==
  ASSUME TypeOK, OneLinePerBlock, FreshStamps, useLog < INT_MAX,
         NEW k \in SetIndices, NEW i \in LineIndices, NEW t \in Nat,
         Stamp(k, i, t),
         \A j \in Valid(k) \ {i} : lines[k][j].tag # t
  PROVE  OneLinePerBlock' /\ FreshStamps' /\ useLog' \in 0 .. INT_MAX
<1>0. Stamped(k, i, t)
  BY StampEffect
<1>1. useLog' \in 0 .. INT_MAX
  BY <1>0, IntMaxAssumption DEF TypeOK, Stamped
<1>2. \A j \in Valid(k)' : j # i => j \in Valid(k) /\ lines'[k][j] = lines[k][j]
  BY <1>0 DEF Stamped, Valid
<1>3. lines'[k][i].tag = t /\ lines'[k][i].lastUsed = useLog
  BY <1>0 DEF Stamped
<1>4. \A m \in SetIndices \ {k} : Valid(m)' = Valid(m) /\ lines'[m] = lines[m]
  BY <1>0 DEF Stamped
<1>5. OneLinePerBlock'
  <2> SUFFICES ASSUME NEW m \in SetIndices, NEW x \in Valid(m)', NEW y \in Valid(m)',
                      lines'[m][x].tag = lines'[m][y].tag
               PROVE  x = y
    BY DEF OneLinePerBlock
  <2>1. CASE m # k
    BY <1>4, <2>1 DEF OneLinePerBlock
  <2>2. CASE m = k
    BY <1>2, <1>3, <2>2 DEF OneLinePerBlock
  <2> QED BY <2>1, <2>2
<1>6. FreshStamps'
  <2> SUFFICES ASSUME NEW m \in SetIndices, NEW x \in Valid(m)'
               PROVE  /\ lines'[m][x].lastUsed < useLog'
                      /\ \A y \in Valid(m)' :
                           lines'[m][x].lastUsed = lines'[m][y].lastUsed => x = y
    BY DEF FreshStamps
  <2>1. useLog \in Nat /\ useLog' = useLog + 1
    BY <1>0 DEF TypeOK, Stamped
  <2>2. \A n \in SetIndices : \A j \in Valid(n) : lines[n][j].lastUsed \in Nat
    BY DEF TypeOK, Line, Valid
  <2>3. CASE m # k
    BY <1>4, <2>1, <2>2, <2>3 DEF FreshStamps
  <2>4. CASE m = k
    BY <1>2, <1>3, <2>1, <2>2, <2>4 DEF FreshStamps
  <2> QED BY <2>3, <2>4
<1> QED BY <1>1, <1>5, <1>6

-----------------------------------------------------------------------------
(* The lines as a recency order.                                            *)

\* LruSets counts with its own copy of the standard module.
LEMMA SameCardinality == ASSUME NEW X PROVE Lru!Cardinality(X) = Cardinality(X)
BY DEF Lru!Cardinality, Cardinality

\* A set with no line free holds E blocks, a set with a free line fewer.
LEMMA ResidentCount ==
  ASSUME TypeOK, OneLinePerBlock, NEW k \in SetIndices
  PROVE  /\ Cardinality(Resident[k]) \in Nat
         /\ Invalid(k) = {} => Cardinality(Resident[k]) = E
         /\ Invalid(k) # {} => Cardinality(Resident[k]) < E
<1>1. IsFiniteSet(LineIndices) /\ Cardinality(LineIndices) = E
  <2>1. 0 \in Int /\ E - 1 \in Int /\ ~(0 > E - 1) /\ E - 1 - 0 + 1 = E
    BY GeometryAssumption
  <2> QED BY <2>1, FS_Interval DEF LineIndices
<1>2. Valid(k) \in SUBSET LineIndices
  BY DEF Valid
<1>3. /\ IsFiniteSet(Valid(k))
      /\ Cardinality(Valid(k)) <= E
      /\ Cardinality(Valid(k)) = E => Valid(k) = LineIndices
  BY <1>1, <1>2, FS_Subset
<1>4. Cardinality(Valid(k)) \in Nat /\ E \in Nat
  BY <1>3, FS_CardinalityType, GeometryAssumption
<1>5. Cardinality(Resident[k]) = Cardinality(Valid(k))
  <2> DEFINE f == [i \in Valid(k) |-> lines[k][i].tag]
  <2>1. Resident[k] = {lines[k][i].tag : i \in Valid(k)}
    BY DEF Resident
  <2>2. f \in Bijection(Valid(k), Resident[k])
    BY <2>1 DEF OneLinePerBlock, Bijection, Injection, IsInjective, Surjection
  <2>3. ExistsBijection(Valid(k), Resident[k])
    BY <2>2 DEF ExistsBijection
  <2> QED BY <2>3, <1>3, FS_Bijection
<1>6. Invalid(k) = {} <=> Valid(k) = LineIndices
  BY DEF Valid, Invalid
<1> QED BY <1>1, <1>3, <1>4, <1>5, <1>6

\* A stamp makes the block the newest of those that stay.
LEMMA StampKeeps ==
  ASSUME TypeOK, OneLinePerBlock, FreshStamps,
         NEW k \in SetIndices, NEW i \in LineIndices, NEW t \in Nat,
         Stamp(k, i, t), NEW Kept,
         \A j \in Valid(k) \ {i} : lines[k][j].tag # t,
         Kept \ {t} = {lines[k][j].tag : j \in Valid(k) \ {i}}
  PROVE  Lru!Keep(k, Kept, t)
<1>0. Stamped(k, i, t)
  BY StampEffect
<1> DEFINE tag(j) == lines[k][j].tag
           at(j) == lines[k][j].lastUsed
<1>1. /\ Valid(k)' = (Valid(k) \ {i}) \cup {i}
      /\ \A j \in Valid(k) \ {i} : lines'[k][j] = lines[k][j]
      /\ lines'[k][i].tag = t
      /\ lines'[k][i].lastUsed = useLog
  BY <1>0 DEF Stamped, Valid
<1>2. \A m \in SetIndices \ {k} : Valid(m)' = Valid(m) /\ lines'[m] = lines[m]
  BY <1>0 DEF Stamped
<1>3. /\ Resident' = [m \in SetIndices |-> Resident'[m]]
      /\ \A m \in SetIndices : Resident'[m] = {lines'[m][j].tag : j \in Valid(m)'}
      /\ \A m \in SetIndices : Resident[m] = {lines[m][j].tag : j \in Valid(m)}
  BY DEF Resident
<1>4. Resident'[k] = Kept \cup {t}
  <2>1. {lines'[k][j].tag : j \in Valid(k)'} = {tag(j) : j \in Valid(k) \ {i}} \cup {t}
    BY <1>1
  <2> QED BY <2>1, <1>3
<1>5. \A m \in SetIndices \ {k} : Resident'[m] = Resident[m]
  <2> SUFFICES ASSUME NEW m \in SetIndices \ {k} PROVE Resident'[m] = Resident[m]
    OBVIOUS
  <2>1. Valid(m)' = Valid(m) /\ lines'[m] = lines[m]
    BY <1>2
  <2>2. Resident'[m] = {lines'[m][j].tag : j \in Valid(m)'}
    BY <1>3
  <2>3. Resident[m] = {lines[m][j].tag : j \in Valid(m)}
    BY <1>3
  <2> QED BY <2>1, <2>2, <2>3
<1>6. Resident' = [Resident EXCEPT ![k] = Kept \cup {t}]
  BY <1>3, <1>4, <1>5 DEF Resident
<1>7. \A j \in Valid(k) \ {i} : at(j) < useLog /\ at(j) \in Nat /\ useLog \in Nat
  BY DEF FreshStamps, TypeOK, Valid, Line
<1>8. UsedBefore'[k] = Lru!UsedLast(k, Kept, t)
  <2>1. UsedBefore'[k] =
          {p \in Resident'[k] \X Resident'[k] :
             \E x, y \in Valid(k)' : /\ p = <<lines'[k][x].tag, lines'[k][y].tag>>
                                     /\ lines'[k][x].lastUsed < lines'[k][y].lastUsed}
    BY DEF UsedBefore
  <2>2. UsedBefore[k] =
          {p \in Resident[k] \X Resident[k] :
             \E x, y \in Valid(k) : p = <<tag(x), tag(y)>> /\ at(x) < at(y)}
    BY DEF UsedBefore
  <2>3. ASSUME NEW p \in UsedBefore'[k] PROVE p \in Lru!UsedLast(k, Kept, t)
    <3>1. PICK x, y \in Valid(k)' :
            /\ p = <<lines'[k][x].tag, lines'[k][y].tag>>
            /\ lines'[k][x].lastUsed < lines'[k][y].lastUsed
      BY <2>1
    <3>2. x # i
      <4>1. SUFFICES ASSUME x = i PROVE FALSE
        OBVIOUS
      <4>2. useLog < lines'[k][y].lastUsed
        BY <3>1, <4>1, <1>1
      <4>3. CASE y = i
        BY <4>2, <4>3, <1>1 DEF TypeOK
      <4>4. CASE y # i
        BY <4>2, <4>4, <1>1, <1>7
      <4> QED BY <4>3, <4>4
    <3>3. x \in Valid(k) \ {i} /\ lines'[k][x] = lines[k][x] /\ tag(x) \in Kept \ {t}
      BY <3>2, <1>1
    <3>4. CASE y = i
      <4>1. p \in (Kept \ {t}) \X {t}
        BY <3>1, <3>3, <3>4, <1>1
      <4> QED BY <4>1 DEF Lru!UsedLast
    <3>5. CASE y # i
      <4>1. y \in Valid(k) \ {i} /\ lines'[k][y] = lines[k][y] /\ tag(y) \in Kept \ {t}
        BY <3>5, <1>1
      <4>2. p = <<tag(x), tag(y)>> /\ at(x) < at(y)
        BY <3>1, <3>3, <4>1
      <4>3. tag(x) \in Resident[k] /\ tag(y) \in Resident[k]
        BY <3>3, <4>1, <1>3
      <4>4. p \in UsedBefore[k]
        BY <2>2, <3>3, <4>1, <4>2, <4>3
      <4> QED BY <4>4, <4>2, <4>1, <3>3 DEF Lru!UsedLast
    <3> QED BY <3>4, <3>5
  <2>4. ASSUME NEW p \in Lru!UsedLast(k, Kept, t) PROVE p \in UsedBefore'[k]
    <3>1. CASE p \in (Kept \ {t}) \X {t}
      <4>1. PICK x \in Valid(k) \ {i} : p = <<tag(x), t>>
        BY <3>1
      <4>2. /\ x \in Valid(k)' /\ i \in Valid(k)'
            /\ p = <<lines'[k][x].tag, lines'[k][i].tag>>
            /\ lines'[k][x].lastUsed < lines'[k][i].lastUsed
        BY <4>1, <1>1, <1>7
      <4>3. tag(x) \in Resident'[k] /\ t \in Resident'[k]
        BY <4>1, <1>4
      <4> QED BY <2>1, <4>1, <4>2, <4>3
    <3>2. CASE p \in UsedBefore[k] /\ p[1] \in Kept \ {t} /\ p[2] \in Kept \ {t}
      <4>1. PICK x, y \in Valid(k) : p = <<tag(x), tag(y)>> /\ at(x) < at(y)
        BY <3>2, <2>2
      <4>2. tag(x) \in Kept \ {t} /\ tag(y) \in Kept \ {t}
        BY <3>2, <4>1
      <4>3. x # i /\ y # i
        <5>1. PICK j \in Valid(k) \ {i} : tag(x) = tag(j)
          BY <4>2
        <5>2. PICK l \in Valid(k) \ {i} : tag(y) = tag(l)
          BY <4>2
        <5> QED BY <5>1, <5>2, <4>1 DEF OneLinePerBlock
      <4>4. /\ x \in Valid(k)' /\ y \in Valid(k)'
            /\ p = <<lines'[k][x].tag, lines'[k][y].tag>>
            /\ lines'[k][x].lastUsed < lines'[k][y].lastUsed
        BY <4>1, <4>3, <1>1
      <4>5. p \in Resident'[k] \X Resident'[k]
        BY <4>1, <4>2, <1>4
      <4> QED BY <2>1, <4>4, <4>5
    <3> QED BY <3>1, <3>2 DEF Lru!UsedLast
  <2> QED BY <2>3, <2>4
<1>9. \A m \in SetIndices \ {k} : UsedBefore'[m] = UsedBefore[m]
  BY <1>2, <1>5 DEF UsedBefore
<1>10. UsedBefore' = [UsedBefore EXCEPT ![k] = Lru!UsedLast(k, Kept, t)]
  <2> DEFINE new == Lru!UsedLast(k, Kept, t)
  <2>1. UsedBefore' = [m \in SetIndices |-> UsedBefore'[m]]
    BY DEF UsedBefore
  <2>2. UsedBefore = [m \in SetIndices |-> UsedBefore[m]]
    BY DEF UsedBefore
  <2>3. UsedBefore'[k] = new
    BY <1>8
  <2> HIDE DEF new
  <2>4. UsedBefore' = [UsedBefore EXCEPT ![k] = new]
    BY <2>1, <2>2, <2>3, <1>9
  <2> QED BY <2>4 DEF new
<1> QED BY <1>6, <1>10 DEF Lru!Keep

-----------------------------------------------------------------------------
(* The counters.                                                            *)

LEMMA ValidLinesFinite == ASSUME TypeOK PROVE IsFiniteSet(ValidLines)
<1>1. IsFiniteSet(SetIndices) /\ IsFiniteSet(LineIndices)
  BY FS_Interval, GeometryAssumption DEF SetIndices, LineIndices
<1>2. IsFiniteSet(SetIndices \X LineIndices)
  BY <1>1, FS_Product
<1> QED BY <1>2, FS_Subset DEF ValidLines

LEMMA StampCount ==
  ASSUME TypeOK, NEW k \in SetIndices, NEW i \in LineIndices, NEW t \in Nat,
         Stamp(k, i, t)
  PROVE  /\ Cardinality(ValidLines) \in Nat
         /\ i \in Valid(k) => Cardinality(ValidLines)' = Cardinality(ValidLines)
         /\ i \in Invalid(k) => Cardinality(ValidLines)' = Cardinality(ValidLines) + 1
<1>1. Stamped(k, i, t)
  BY StampEffect
<1>2. ValidLines' = ValidLines \cup {<<k, i>>}
  <2>1. \A m \in SetIndices, j \in LineIndices :
          lines'[m][j].valid <=> (<<m, j>> = <<k, i>> \/ lines[m][j].valid)
    BY <1>1 DEF Stamped
  <2>2. ValidLines' \subseteq ValidLines \cup {<<k, i>>}
    BY <2>1 DEF ValidLines
  <2>3. ValidLines \subseteq ValidLines'
    BY <2>1 DEF ValidLines
  <2>4. <<k, i>> \in ValidLines'
    BY <2>1 DEF ValidLines
  <2> QED BY <2>2, <2>3, <2>4
<1>3. i \in Valid(k) <=> <<k, i>> \in ValidLines
  BY DEF Valid, ValidLines
<1>4. i \in Invalid(k) => i \notin Valid(k)
  BY DEF Valid, Invalid
<1>5. IsFiniteSet(ValidLines)
  BY ValidLinesFinite
<1>6. Cardinality(ValidLines)' = Cardinality(ValidLines')
  OBVIOUS
<1> QED BY <1>2, <1>3, <1>4, <1>5, <1>6, FS_AddElement, FS_CardinalityType

-----------------------------------------------------------------------------
(* Every access preserves the invariant and is an access of the abstract    *)
(* cache.                                                                   *)

LEMMA HitStep ==
  ASSUME IInv, useLog < INT_MAX, NEW k \in SetIndices, NEW t \in Nat, Hit(k, t)
  PROVE  /\ Lru!Hit(k, t)
         /\ OneLinePerBlock' /\ FreshStamps' /\ CountersAgree'
         /\ lines' \in [SetIndices -> [LineIndices -> Line]]
         /\ useLog' \in 0 .. INT_MAX
<1> DEFINE i == First(Matching(k, t))
<1>1. Matching(k, t) \in SUBSET LineIndices /\ Matching(k, t) # {}
  BY DEF Matching, Hit
<1>2. i \in Matching(k, t)
  BY <1>1, FirstIsIn
<1>3. i \in LineIndices /\ i \in Valid(k) /\ lines[k][i].tag = t
  BY <1>2 DEF Matching, Valid
<1>4. Stamp(k, i, t) /\ hit' = hit + 1 /\ UNCHANGED <<miss, eviction>>
  BY DEF Hit
<1> HIDE DEF i
<1>5. \A j \in Valid(k) \ {i} : lines[k][j].tag # t
  BY <1>3 DEF IInv, OneLinePerBlock
<1>6. Resident[k] \ {t} = {lines[k][j].tag : j \in Valid(k) \ {i}}
  <2>1. Resident[k] = {lines[k][j].tag : j \in Valid(k)}
    BY DEF Resident
  <2> QED BY <1>3, <1>5, <2>1
<1>7. t \in Resident[k]
  BY <1>3 DEF Resident
<1>8. Lru!Keep(k, Resident[k], t)
  BY <1>3, <1>4, <1>5, <1>6, StampKeeps DEF IInv
<1>9. OneLinePerBlock' /\ FreshStamps' /\ useLog' \in 0 .. INT_MAX
  BY <1>3, <1>4, <1>5, StampInvariant DEF IInv
<1>10. Stamped(k, i, t)
  BY <1>3, <1>4, StampEffect DEF IInv
<1>11. Cardinality(ValidLines)' = Cardinality(ValidLines)
  BY <1>3, <1>4, StampCount DEF IInv
<1>12. CountersAgree'
  BY <1>4, <1>10, <1>11 DEF IInv, CountersAgree, Stamped, TypeOK
<1> QED BY <1>4, <1>7, <1>8, <1>9, <1>10, <1>12 DEF Lru!Hit, Stamped

LEMMA FillStep ==
  ASSUME IInv, useLog < INT_MAX, NEW k \in SetIndices, NEW t \in Nat, Fill(k, t)
  PROVE  /\ Lru!Fill(k, t)
         /\ OneLinePerBlock' /\ FreshStamps' /\ CountersAgree'
         /\ lines' \in [SetIndices -> [LineIndices -> Line]]
         /\ useLog' \in 0 .. INT_MAX
<1> DEFINE i == First(Invalid(k))
<1>1. Invalid(k) \in SUBSET LineIndices /\ Invalid(k) # {}
  BY DEF Invalid, Fill
<1>2. i \in Invalid(k)
  BY <1>1, FirstIsIn
<1>3. i \in LineIndices /\ i \notin Valid(k)
  BY <1>2 DEF Invalid, Valid
<1>4. Stamp(k, i, t) /\ miss' = miss + 1 /\ UNCHANGED <<hit, eviction>>
  BY DEF Fill
<1> HIDE DEF i
<1>5. \A j \in Valid(k) : lines[k][j].tag # t
  BY DEF Fill, Matching, Valid
<1>6. Resident[k] = {lines[k][j].tag : j \in Valid(k)}
  BY DEF Resident
<1>7. t \notin Resident[k]
  BY <1>5, <1>6
<1>8. Resident[k] \ {t} = {lines[k][j].tag : j \in Valid(k) \ {i}}
  BY <1>3, <1>6, <1>7
<1>9. Lru!Keep(k, Resident[k], t)
  BY <1>3, <1>4, <1>5, <1>8, StampKeeps DEF IInv
<1>10. OneLinePerBlock' /\ FreshStamps' /\ useLog' \in 0 .. INT_MAX
  BY <1>3, <1>4, <1>5, StampInvariant DEF IInv
<1>11. Stamped(k, i, t)
  BY <1>3, <1>4, StampEffect DEF IInv
<1>12. /\ Cardinality(ValidLines) \in Nat
       /\ Cardinality(ValidLines)' = Cardinality(ValidLines) + 1
  BY <1>2, <1>3, <1>4, StampCount DEF IInv
<1>13. CountersAgree'
  BY <1>4, <1>11, <1>12 DEF IInv, CountersAgree, Stamped, TypeOK
<1>14. Lru!Cardinality(Resident[k]) < E
  BY <1>1, ResidentCount, SameCardinality DEF IInv
<1>15. Lru!Fill(k, t)
  BY <1>4, <1>7, <1>9, <1>14 DEF Lru!Fill
<1> QED BY <1>10, <1>11, <1>13, <1>15 DEF Stamped

LEMMA EvictStep ==
  ASSUME IInv, useLog < INT_MAX, NEW k \in SetIndices, NEW t \in Nat, Evict(k, t)
  PROVE  /\ Lru!Replace(k, t)
         /\ OneLinePerBlock' /\ FreshStamps' /\ CountersAgree'
         /\ lines' \in [SetIndices -> [LineIndices -> Line]]
         /\ useLog' \in 0 .. INT_MAX
<1> DEFINE i == First(LeastUsed(k))
           u == lines[k][i].tag
<1>1. Valid(k) = LineIndices /\ Invalid(k) = {}
  BY DEF Evict, Invalid, Valid
<1>2. LeastUsed(k) # {}
  <2> DEFINE T == {lines[k][j].lastUsed : j \in LineIndices}
  <2>1. T \subseteq Nat
    BY DEF IInv, TypeOK, Line
  <2>2. 0 \in LineIndices
    BY GeometryAssumption DEF LineIndices
  <2>3. T # {}
    BY <2>2
  <2> HIDE DEF T
  <2>4. PICK x \in T : \A y \in T : x <= y
    BY <2>1, <2>3, NatLeast
  <2> QED BY <2>4 DEF T, LeastUsed
<1>3. i \in LineIndices /\ \A j \in LineIndices : lines[k][i].lastUsed <= lines[k][j].lastUsed
  <2>1. LeastUsed(k) \in SUBSET LineIndices
    BY DEF LeastUsed
  <2>2. i \in LeastUsed(k)
    BY <1>2, <2>1, FirstIsIn
  <2> QED BY <2>2 DEF LeastUsed
<1>4. /\ Stamp(k, i, t) /\ hit' = hit
      /\ miss' = miss + 1 /\ eviction' = eviction + 1
  BY DEF Evict
<1> HIDE DEF i
<1>5. \A j \in Valid(k) : lines[k][j].tag # t
  BY DEF Evict, Matching, Valid
<1>6. Resident[k] = {lines[k][j].tag : j \in Valid(k)}
  BY DEF Resident
<1>7. t \notin Resident[k] /\ u \in Resident[k]
  BY <1>1, <1>3, <1>5, <1>6
<1>8. (Resident[k] \ {u}) \ {t} = {lines[k][j].tag : j \in Valid(k) \ {i}}
  <2>1. \A j \in Valid(k) \ {i} : lines[k][j].tag # u
    BY <1>1, <1>3 DEF IInv, OneLinePerBlock
  <2> QED BY <1>6, <1>7, <2>1
<1>9. Lru!Keep(k, Resident[k] \ {u}, t)
  BY <1>3, <1>4, <1>5, <1>8, StampKeeps DEF IInv
<1>10. u \in Lru!LeastRecent(k)
  <2> SUFFICES ASSUME NEW v \in Resident[k] \ {u} PROVE <<u, v>> \in UsedBefore[k]
    BY <1>7 DEF Lru!LeastRecent
  <2>1. PICK j \in Valid(k) : v = lines[k][j].tag
    BY <1>6
  <2>2. j # i /\ i \in Valid(k) /\ j \in LineIndices
    BY <1>1, <1>3, <2>1
  <2>3. lines[k][i].lastUsed # lines[k][j].lastUsed
    BY <2>2 DEF IInv, FreshStamps
  <2>4. lines[k][i].lastUsed \in Nat /\ lines[k][j].lastUsed \in Nat
    BY <2>2, <1>3 DEF IInv, TypeOK, Line
  <2>5. lines[k][i].lastUsed < lines[k][j].lastUsed
    BY <2>2, <2>3, <2>4, <1>3
  <2>6. <<u, v>> \in Resident[k] \X Resident[k]
    BY <1>7
  <2> QED BY <2>1, <2>2, <2>5, <2>6 DEF UsedBefore
<1>11. OneLinePerBlock' /\ FreshStamps' /\ useLog' \in 0 .. INT_MAX
  BY <1>3, <1>4, <1>5, StampInvariant DEF IInv
<1>12. Stamped(k, i, t)
  BY <1>3, <1>4, StampEffect DEF IInv
<1>13. /\ Cardinality(ValidLines) \in Nat
       /\ Cardinality(ValidLines)' = Cardinality(ValidLines)
  BY <1>1, <1>3, <1>4, StampCount DEF IInv
<1>14. CountersAgree'
  BY <1>4, <1>12, <1>13 DEF IInv, CountersAgree, Stamped, TypeOK
<1>15. Lru!Cardinality(Resident[k]) = E
  BY <1>1, ResidentCount, SameCardinality DEF IInv
<1>16. Lru!Replace(k, t)
  <2> HIDE DEF u
  <2> QED BY <1>4, <1>7, <1>9, <1>10, <1>15 DEF Lru!Replace
<1> QED BY <1>11, <1>12, <1>14, <1>16 DEF Stamped

\* load() as a whole.
LEMMA LoadStep ==
  ASSUME IInv, NEW a \in Addresses, Load(a)
  PROVE  /\ Lru!Access(SetIndex(a), Tag(a))
         /\ OneLinePerBlock' /\ FreshStamps' /\ CountersAgree'
         /\ lines' \in [SetIndices -> [LineIndices -> Line]]
         /\ useLog' \in 0 .. INT_MAX
         /\ hit' \in Nat /\ miss' \in Nat /\ eviction' \in Nat
         /\ Tag(a) \in Resident'[SetIndex(a)]
<1>1. SetIndex(a) \in SetIndices /\ Tag(a) \in Nat /\ useLog < INT_MAX
  BY AddressParts DEF Load
<1>2. hit \in Nat /\ miss \in Nat /\ eviction \in Nat
  BY DEF IInv, TypeOK
<1>3. /\ Lru!Access(SetIndex(a), Tag(a))
      /\ OneLinePerBlock' /\ FreshStamps' /\ CountersAgree'
      /\ lines' \in [SetIndices -> [LineIndices -> Line]]
      /\ useLog' \in 0 .. INT_MAX
      /\ hit' \in Nat /\ miss' \in Nat /\ eviction' \in Nat
  <2>1. CASE Hit(SetIndex(a), Tag(a))
    <3>1. hit' \in Nat /\ miss' \in Nat /\ eviction' \in Nat
      BY <1>2, <2>1 DEF Hit
    <3> QED BY <1>1, <2>1, <3>1, HitStep DEF Lru!Access
  <2>2. CASE Fill(SetIndex(a), Tag(a))
    <3>1. hit' \in Nat /\ miss' \in Nat /\ eviction' \in Nat
      BY <1>2, <2>2 DEF Fill
    <3> QED BY <1>1, <2>2, <3>1, FillStep DEF Lru!Access
  <2>3. CASE Evict(SetIndex(a), Tag(a))
    <3>1. hit' \in Nat /\ miss' \in Nat /\ eviction' \in Nat
      BY <1>2, <2>3 DEF Evict
    <3> QED BY <1>1, <2>3, <3>1, EvictStep DEF Lru!Access
  <2> QED BY <2>1, <2>2, <2>3 DEF Load
<1>4. Lru!Access(SetIndex(a), Tag(a)) => Tag(a) \in Resident'[SetIndex(a)]
  <2> DEFINE k == SetIndex(a)
             t == Tag(a)
  <2>1. Resident = [m \in SetIndices |-> Resident[m]]
    BY DEF Resident
  <2>2. ASSUME NEW Kept, Lru!Keep(k, Kept, t) PROVE t \in Resident'[k]
    <3>1. Resident' = [Resident EXCEPT ![k] = Kept \cup {t}]
      BY <2>2 DEF Lru!Keep
    <3> QED BY <1>1, <2>1, <3>1
  <2> HIDE DEF k, t
  <2>3. Lru!Access(k, t) => \E Kept : Lru!Keep(k, Kept, t)
    BY DEF Lru!Access, Lru!Hit, Lru!Fill, Lru!Replace
  <2>4. Lru!Access(k, t) => t \in Resident'[k]
    BY <2>2, <2>3
  <2> QED BY <2>4 DEF k, t
<1> QED BY <1>3, <1>4

LEMMA InitIInv == Init => IInv
<1> SUFFICES ASSUME Init PROVE IInv
  OBVIOUS
<1>1. TypeOK
  <2>1. EmptyLine \in Line
    BY DEF EmptyLine, Line
  <2> QED BY <2>1, IntMaxAssumption DEF Init, TypeOK
<1>2. \A k \in SetIndices, i \in LineIndices : ~lines[k][i].valid
  BY DEF Init, EmptyLine
<1>3. \A k \in SetIndices : Valid(k) = {}
  BY <1>2 DEF Valid
<1>4. ValidLines = {}
  BY <1>2 DEF ValidLines
<1>5. CountersAgree
  BY <1>4, FS_EmptySet DEF Init, CountersAgree
<1>6. PendingIsResident
  BY DEF Init, PendingIsResident
<1> QED BY <1>1, <1>3, <1>5, <1>6 DEF IInv, OneLinePerBlock, FreshStamps

\* Every step of the simulator is an access of the abstract cache, or leaves
\* the cache alone.
LEMMA NextStep ==
  ASSUME IInv, [Next]_vars
  PROVE  IInv' /\ [Lru!Next]_(Lru!abstractVars)
<1>1. ASSUME NEW a \in Addresses, Load(a), pending' \in {a, NoAddress}
      PROVE  IInv' /\ Lru!Next
  <2>1. TypeOK'
    BY <1>1, LoadStep DEF TypeOK
  <2>2. PendingIsResident'
    <3>1. Tag(a) \in Resident'[SetIndex(a)]
      BY <1>1, LoadStep
    <3>2. CASE pending' = NoAddress
      BY <3>2 DEF PendingIsResident
    <3>3. CASE pending' = a
      <4>1. Tag(pending)' = Tag(a) /\ SetIndex(pending)' = SetIndex(a)
        BY <3>3 DEF Tag, SetIndex
      <4> QED BY <3>1, <4>1 DEF PendingIsResident
    <3> QED BY <1>1, <3>2, <3>3
  <2>3. IInv'
    BY <1>1, <2>1, <2>2, LoadStep DEF IInv
  <2>4. Lru!Next
    BY <1>1, LoadStep, AddressParts DEF Lru!Next
  <2> QED BY <2>3, <2>4
<1>2. ASSUME NEW a \in Addresses, LoadOrStore(a) PROVE IInv' /\ Lru!Next
  BY <1>1, <1>2 DEF LoadOrStore
<1>3. ASSUME NEW a \in Addresses, ModifyLoad(a) PROVE IInv' /\ Lru!Next
  BY <1>1, <1>3 DEF ModifyLoad
<1>4. CASE ModifyStore
  <2>1. pending \in Addresses
    BY <1>4 DEF ModifyStore, IInv, TypeOK
  <2> QED BY <1>1, <1>4, <2>1 DEF ModifyStore
<1>5. CASE UNCHANGED vars
  <2>1. UNCHANGED <<lines, useLog, hit, miss, eviction, pending>>
    BY <1>5 DEF vars
  <2>2. \A k \in SetIndices : Valid(k)' = Valid(k)
    BY <2>1 DEF Valid
  <2>3. ValidLines' = ValidLines
    BY <2>1 DEF ValidLines
  <2>5. Resident' = Resident
    BY <2>1, <2>2 DEF Resident
  <2>4. IInv'
    <3>1. TypeOK' /\ OneLinePerBlock' /\ FreshStamps' /\ CountersAgree'
      BY <2>1, <2>2, <2>3 DEF IInv, TypeOK, OneLinePerBlock, FreshStamps, CountersAgree
    <3>2. PendingIsResident'
      BY <2>1, <2>5 DEF IInv, PendingIsResident, Tag, SetIndex
    <3> QED BY <3>1, <3>2 DEF IInv
  <2>6. UsedBefore' = UsedBefore
    BY <2>1, <2>2, <2>5 DEF UsedBefore
  <2> QED BY <2>1, <2>4, <2>5, <2>6 DEF Lru!abstractVars
<1> QED BY <1>2, <1>3, <1>4, <1>5 DEF Next

-----------------------------------------------------------------------------
\* The strengthening is an invariant.
THEOREM Invariance == Spec => []IInv
<1>1. IInv /\ [Next]_vars => IInv'
  BY NextStep
<1> QED BY InitIInv, <1>1, PTL DEF Spec

\* A block is never in two lines of its set (load() returns at the first match).
THEOREM BlocksAreUnique == Spec => []OneLinePerBlock
<1>1. IInv => OneLinePerBlock
  BY DEF IInv
<1> QED BY Invariance, <1>1, PTL

\* hits + misses is the number of accesses, misses - evictions the number of
\* valid lines, whatever the trace (what printSummary() prints adds up).
THEOREM CountersAddUp == Spec => []CountersAgree
<1>1. IInv => CountersAgree
  BY DEF IInv
<1> QED BY Invariance, <1>1, PTL

\* The store half of an 'M' line hits (main() calls load(), then store(), on
\* one address, and load() leaves the block in its set).
THEOREM StoreHits == Spec => StoreAfterLoadHits
<1>1. ASSUME IInv, [Next]_vars, pending # NoAddress, pending' = NoAddress
      PROVE  hit' = hit + 1
  <2>1. ModifyStore
    BY <1>1 DEF Next, LoadOrStore, ModifyLoad, vars
  <2>2. pending \in Addresses /\ Load(pending)
    BY <1>1, <2>1 DEF ModifyStore, IInv, TypeOK
  <2> DEFINE k == SetIndex(pending)
             t == Tag(pending)
  <2>3. k \in SetIndices /\ t \in Resident[k]
    BY <1>1, <2>2, AddressParts DEF IInv, PendingIsResident
  <2>4. Matching(k, t) # {}
    BY <2>3 DEF Resident, Matching, Valid
  <2> QED BY <2>2, <2>4 DEF Load, Hit, Fill, Evict
<1>2. IInv /\ [Next]_vars =>
        [pending # NoAddress /\ pending' = NoAddress => hit' = hit + 1]_vars
  BY <1>1
<1> QED BY Invariance, <1>2, PTL DEF Spec, StoreAfterLoadHits

\* csim.c implements least recently used replacement: time stamps, valid bits
\* and the order of the lines are a recency order of the resident blocks.
THEOREM ImplementsLru == Spec => IsLru
<1>1. Init => Lru!Init
  <2> SUFFICES ASSUME Init PROVE Lru!Init
    OBVIOUS
  <2>1. \A k \in SetIndices : Valid(k) = {}
    BY DEF Init, EmptyLine, Valid
  <2>2. Resident = [k \in SetIndices |-> {}]
    BY <2>1 DEF Resident
  <2>3. UsedBefore = [k \in SetIndices |-> {}]
    BY <2>1 DEF UsedBefore
  <2> QED BY <2>2, <2>3 DEF Init, Lru!Init
<1>2. IInv /\ [Next]_vars => [Lru!Next]_(Lru!abstractVars)
  BY NextStep
<1> QED BY Invariance, <1>1, <1>2, PTL DEF Spec, IsLru, Lru!Spec

-----------------------------------------------------------------------------
(* One set of two caches, as arrays L and M of lines indexed by I and J.    *)

\* What load() leaves when it stamps line i of L with u for the block tagged t.
Written(L, i, t, u) ==
  [L EXCEPT ![i] = [valid |-> TRUE, tag |-> t, lastUsed |-> u]]

Holds(L, I, t) == \E i \in I : L[i].valid /\ L[i].tag = t

\* Line i is one that load() stamps for the block tagged t.
Chosen(L, I, t, i) ==
  \/ L[i].valid /\ L[i].tag = t
  \/ /\ ~Holds(L, I, t)
     /\ \/ ~L[i].valid
        \/ \A j \in I : L[j].valid /\ L[i].lastUsed <= L[j].lastUsed

\* The valid lines hold different blocks with different stamps, all before u.
Ordered(L, I, u) ==
  /\ L \in [I -> Line]
  /\ \A i \in I : L[i].valid =>
       /\ L[i].lastUsed < u
       /\ \A j \in I :
            L[j].valid /\ (L[i].tag = L[j].tag \/ L[i].lastUsed = L[j].lastUsed) => i = j

\* M holds every block of L, with the same stamp.
Covers(L, I, M, J) ==
  \A i \in I : L[i].valid =>
    \E j \in J : M[j].valid /\ M[j].tag = L[i].tag /\ M[j].lastUsed = L[i].lastUsed

\* L is full, and used after y, for every block y that only M holds.
OlderBeyond(L, I, M, J) ==
  \A j \in J : M[j].valid /\ ~Holds(L, I, M[j].tag) =>
    \A i \in I : L[i].valid /\ M[j].lastUsed < L[i].lastUsed

Paired(L, I, M, J, u) ==
  Ordered(L, I, u) /\ Ordered(M, J, u) /\ Covers(L, I, M, J) /\ OlderBeyond(L, I, M, J)

\* Only line i is written.
LEMMA WrittenLines ==
  ASSUME NEW I, NEW L \in [I -> Line], NEW i \in I, NEW t \in Nat, NEW u \in Nat
  PROVE  /\ Written(L, i, t, u) \in [I -> Line]
         /\ Written(L, i, t, u)[i] = [valid |-> TRUE, tag |-> t, lastUsed |-> u]
         /\ \A x \in I \ {i} : Written(L, i, t, u)[x] = L[x]
<1> DEFINE new == [valid |-> TRUE, tag |-> t, lastUsed |-> u]
<1>1. new \in Line
  BY DEF Line
<1>2. Written(L, i, t, u) = [L EXCEPT ![i] = new]
  BY DEF Written
<1> HIDE DEF new
<1>3. /\ [L EXCEPT ![i] = new] \in [I -> Line]
      /\ [L EXCEPT ![i] = new][i] = new
      /\ \A x \in I \ {i} : [L EXCEPT ![i] = new][x] = L[x]
  BY <1>1
<1> QED BY <1>2, <1>3 DEF new

\* The other valid lines hold other blocks than the one just accessed.
LEMMA OthersDiffer ==
  ASSUME NEW I, NEW L, NEW i \in I, NEW t, NEW u, Ordered(L, I, u), Chosen(L, I, t, i),
         NEW x \in I, x # i, L[x].valid
  PROVE  L[x].tag # t
BY DEF Ordered, Chosen, Holds

\* A stamp keeps the valid lines of a set apart.
LEMMA WrittenOrdered ==
  ASSUME NEW I, NEW L, NEW i \in I, NEW t \in Nat, NEW u \in Nat,
         Ordered(L, I, u), Chosen(L, I, t, i)
  PROVE  Ordered(Written(L, i, t, u), I, u + 1)
<1> DEFINE K == Written(L, i, t, u)
<1>1. L \in [I -> Line]
  BY DEF Ordered
<1>2. /\ K \in [I -> Line]
      /\ K[i] = [valid |-> TRUE, tag |-> t, lastUsed |-> u]
      /\ \A x \in I \ {i} : K[x] = L[x]
  BY <1>1, WrittenLines
<1> HIDE DEF K
<1>3. \A x \in I : K[x].lastUsed \in Nat
  BY <1>2 DEF Line
<1>4. \A z \in I \ {i} : K[z].valid => K[z].tag # t /\ K[z].lastUsed < u
  <2> SUFFICES ASSUME NEW z \in I \ {i}, K[z].valid
               PROVE  K[z].tag # t /\ K[z].lastUsed < u
    OBVIOUS
  <2>1. K[z] = L[z] /\ L[z].valid
    BY <1>2
  <2>2. L[z].tag # t
    BY <2>1, OthersDiffer
  <2> QED BY <2>1, <2>2 DEF Ordered
<1>5. \A x \in I : K[x].valid => K[x].lastUsed < u + 1
  <2> SUFFICES ASSUME NEW x \in I, K[x].valid PROVE K[x].lastUsed < u + 1
    OBVIOUS
  <2>1. K[x].lastUsed = u \/ K[x].lastUsed < u
    BY <1>2, <1>4
  <2> QED BY <1>3, <2>1
<1>6. ASSUME NEW x \in I, K[x].valid, NEW y \in I, K[y].valid,
             K[x].tag = K[y].tag \/ K[x].lastUsed = K[y].lastUsed
      PROVE  x = y
  <2>1. \A z \in I \ {i} : K[z].valid => K[z].tag # K[i].tag /\ K[z].lastUsed # K[i].lastUsed
    BY <1>2, <1>3, <1>4
  <2>2. CASE x = i \/ y = i
    BY <1>6, <2>1, <2>2
  <2>3. CASE x # i /\ y # i
    <3>1. K[x] = L[x] /\ K[y] = L[y]
      BY <1>2, <2>3
    <3> QED BY <1>6, <3>1 DEF Ordered
  <2> QED BY <2>2, <2>3
<1>7. Ordered(K, I, u + 1)
  BY <1>2, <1>5, <1>6 DEF Ordered
<1> QED BY <1>7 DEF K

\* While a set is not full it leaves a larger set room for a block it lacks.
LEMMA LargerHasRoom ==
  ASSUME NEW I, NEW J, IsFiniteSet(I), IsFiniteSet(J), Cardinality(I) <= Cardinality(J),
         NEW L, NEW M, NEW u, Paired(L, I, M, J, u),
         NEW i \in I, ~L[i].valid
  PROVE  \E j \in J : ~M[j].valid
<1> SUFFICES ASSUME \A j \in J : M[j].valid PROVE FALSE
  OBVIOUS
<1>1. \A j \in J : Holds(L, I, M[j].tag)
  BY DEF Paired, OlderBeyond
<1> DEFINE f == [j \in J |-> CHOOSE x \in I : L[x].valid /\ L[x].tag = M[j].tag]
<1>2. \A j \in J : f[j] \in I /\ L[f[j]].valid /\ L[f[j]].tag = M[j].tag
  BY <1>1 DEF Holds
<1>3. f \in [J -> I \ {i}]
  BY <1>2
<1>4. \A x, y \in J : f[x] = f[y] => x = y
  <2> SUFFICES ASSUME NEW x \in J, NEW y \in J, f[x] = f[y] PROVE x = y
    OBVIOUS
  <2>1. M[x].tag = M[y].tag
    BY <1>2
  <2> QED BY <2>1 DEF Paired, Ordered
<1> HIDE DEF f
<1>5. f \in Injection(J, I \ {i})
  BY <1>3, <1>4 DEF Injection, IsInjective
<1>6. IsFiniteSet(I \ {i}) /\ Cardinality(I \ {i}) = Cardinality(I) - 1
  BY FS_RemoveElement
<1>7. Cardinality(J) <= Cardinality(I \ {i})
  BY <1>5, <1>6, FS_Injection
<1>8. Cardinality(I) \in Nat /\ Cardinality(J) \in Nat
  BY FS_CardinalityType
<1> QED BY <1>6, <1>7, <1>8

\* One access to both sets.
LEMMA PairedStep ==
  ASSUME NEW I, NEW J, IsFiniteSet(I), IsFiniteSet(J), Cardinality(I) <= Cardinality(J),
         NEW L, NEW M, NEW u \in Nat, NEW t \in Nat, NEW i \in I, NEW j \in J,
         Paired(L, I, M, J, u), Chosen(L, I, t, i), Chosen(M, J, t, j)
  PROVE  /\ Paired(Written(L, i, t, u), I, Written(M, j, t, u), J, u + 1)
         /\ Holds(L, I, t) => Holds(M, J, t)
<1> DEFINE K == Written(L, i, t, u)
           N == Written(M, j, t, u)
<1>1. L \in [I -> Line] /\ M \in [J -> Line]
  BY DEF Paired, Ordered
<1>2. /\ K[i] = [valid |-> TRUE, tag |-> t, lastUsed |-> u]
      /\ \A x \in I \ {i} : K[x] = L[x]
  BY <1>1, WrittenLines
<1>3. /\ N[j] = [valid |-> TRUE, tag |-> t, lastUsed |-> u]
      /\ \A y \in J \ {j} : N[y] = M[y]
  BY <1>1, WrittenLines
<1>4. Ordered(K, I, u + 1) /\ Ordered(N, J, u + 1)
  BY WrittenOrdered DEF Paired
<1> HIDE DEF K, N
<1>5. /\ \A x \in I : L[x].lastUsed \in Nat
      /\ \A y \in J : M[y].lastUsed \in Nat
  BY <1>1 DEF Line
<1>6. Holds(L, I, t) => Holds(M, J, t)
  BY DEF Holds, Paired, Covers
<1>7. ASSUME NEW x \in I \ {i}, L[x].valid,
             NEW y \in J, M[y].valid, M[y].tag = L[x].tag, M[y].lastUsed = L[x].lastUsed
      PROVE  y # j
  <2> SUFFICES ASSUME y = j PROVE FALSE
    OBVIOUS
  <2>1. L[x].tag # t
    BY <1>7, OthersDiffer DEF Paired
  <2>2. /\ ~Holds(M, J, t)
        /\ \A z \in J : M[z].valid /\ M[j].lastUsed <= M[z].lastUsed
    BY <1>7, <2>1 DEF Chosen
  <2>3. L[i].valid
    BY <2>2, LargerHasRoom
  <2>4. \A z \in I : L[i].lastUsed <= L[z].lastUsed
    <3>1. ~Holds(L, I, t)
      BY <1>6, <2>2
    <3> QED BY <2>3, <3>1 DEF Chosen, Holds
  <2>5. PICK w \in J : M[w].valid /\ M[w].tag = L[i].tag /\ M[w].lastUsed = L[i].lastUsed
    BY <2>3 DEF Paired, Covers
  <2>6. L[x].lastUsed <= L[i].lastUsed /\ L[i].lastUsed <= L[x].lastUsed
    BY <1>7, <2>2, <2>4, <2>5
  <2>7. L[x].lastUsed = L[i].lastUsed
    BY <1>5, <2>6
  <2> QED BY <1>7, <2>3, <2>7 DEF Paired, Ordered
<1>8. Covers(K, I, N, J)
  <2> SUFFICES ASSUME NEW x \in I, K[x].valid
               PROVE  \E y \in J : /\ N[y].valid /\ N[y].tag = K[x].tag
                                  /\ N[y].lastUsed = K[x].lastUsed
    BY DEF Covers
  <2>1. CASE x = i
    BY <1>2, <1>3, <2>1
  <2>2. CASE x # i
    <3>1. K[x] = L[x] /\ L[x].valid
      BY <1>2, <2>2
    <3>2. PICK y \in J : M[y].valid /\ M[y].tag = L[x].tag /\ M[y].lastUsed = L[x].lastUsed
      BY <3>1 DEF Paired, Covers
    <3>3. y # j
      BY <1>7, <2>2, <3>1, <3>2
    <3> QED BY <1>3, <3>1, <3>2, <3>3
  <2> QED BY <2>1, <2>2
<1>9. OlderBeyond(K, I, N, J)
  <2> SUFFICES ASSUME NEW y \in J, N[y].valid, ~Holds(K, I, N[y].tag)
               PROVE  \A x \in I : K[x].valid /\ N[y].lastUsed < K[x].lastUsed
    BY DEF OlderBeyond
  <2>1. y # j
    BY <1>2, <1>3 DEF Holds
  <2>2. N[y] = M[y] /\ M[y].valid
    BY <1>3, <2>1
  <2>3. M[y].lastUsed < u
    BY <2>2 DEF Paired, Ordered
  <2>4. ASSUME \A x \in I \ {i} : L[x].valid /\ M[y].lastUsed < L[x].lastUsed
        PROVE  \A x \in I : K[x].valid /\ N[y].lastUsed < K[x].lastUsed
    BY <1>2, <2>2, <2>3, <2>4
  <2>5. CASE Holds(L, I, M[y].tag)
    <3>1. L[i].valid /\ L[i].tag = M[y].tag
      BY <1>2, <2>2, <2>5 DEF Holds
    <3>2. M[y].tag # t
      BY <2>1, <2>2, OthersDiffer DEF Paired
    <3>3. \A x \in I : L[x].valid /\ L[i].lastUsed <= L[x].lastUsed
      BY <3>1, <3>2 DEF Chosen
    <3>4. PICK w \in J : M[w].valid /\ M[w].tag = L[i].tag /\ M[w].lastUsed = L[i].lastUsed
      BY <3>1 DEF Paired, Covers
    <3>5. w = y
      BY <2>2, <3>1, <3>4 DEF Paired, Ordered
    <3>6. \A x \in I \ {i} : L[x].lastUsed # L[i].lastUsed
      BY <3>1, <3>3 DEF Paired, Ordered
    <3>7. \A x \in I \ {i} : L[x].valid /\ M[y].lastUsed < L[x].lastUsed
      BY <1>5, <3>3, <3>4, <3>5, <3>6
    <3> QED BY <2>4, <3>7
  <2>6. CASE ~Holds(L, I, M[y].tag)
    BY <2>2, <2>4, <2>6 DEF Paired, OlderBeyond
  <2> QED BY <2>5, <2>6
<1> QED BY <1>4, <1>6, <1>8, <1>9 DEF Paired, K, N

-----------------------------------------------------------------------------
(* What load() does to the two caches.                                      *)

\* Some line has the least stamp, so a full set has a victim.
LEMMA LeastStamp ==
  ASSUME NEW I, I # {}, NEW L \in [I -> Line]
  PROVE  \E i \in I : \A j \in I : L[i].lastUsed <= L[j].lastUsed
<1> DEFINE T == {L[j].lastUsed : j \in I}
<1>1. T \subseteq Nat /\ T # {}
  BY DEF Line
<1> HIDE DEF T
<1>2. PICK x \in T : \A y \in T : x <= y
  BY <1>1, NatLeast
<1> QED BY <1>2 DEF T

LEMMA LeastIsIn ==
  ASSUME NEW T, T \subseteq Nat, T # {}
  PROVE  (CHOOSE i \in T : \A j \in T : i <= j) \in T
BY NatLeast

\* Whether it hits, fills or evicts, load() stamps one line that may be stamped,
\* and counts a hit exactly if the set holds the block.
LEMMA SmallLoad ==
  ASSUME lines \in [SetIndices -> [LineIndices -> Line]],
         NEW a \in Addresses, Load(a), NEW k, k = SetIndex(a), NEW t, t = Tag(a)
  PROVE  \E i \in LineIndices :
           /\ Chosen(lines[k], LineIndices, t, i)
           /\ lines' = [lines EXCEPT ![k] = Written(lines[k], i, t, useLog)]
           /\ useLog' = useLog + 1
           /\ hit' = IF Holds(lines[k], LineIndices, t) THEN hit + 1 ELSE hit
<1>1. k \in SetIndices
  BY AddressParts
<1>2. lines[k] \in [LineIndices -> Line]
  BY <1>1
<1>3. LineIndices \subseteq Nat /\ 0 \in LineIndices
  BY GeometryAssumption DEF LineIndices
<1>4. \A i : Stamp(k, i, t) =>
        /\ lines' = [lines EXCEPT ![k] = Written(lines[k], i, t, useLog)]
        /\ useLog' = useLog + 1
  BY <1>1 DEF Stamp, Written
<1>5. Holds(lines[k], LineIndices, t) <=> Matching(k, t) # {}
  BY DEF Holds, Matching
<1>6. CASE Hit(k, t)
  <2>1. First(Matching(k, t)) \in Matching(k, t)
    BY <1>3, <1>6, LeastIsIn DEF First, Hit, Matching
  <2> QED BY <1>4, <1>5, <1>6, <2>1 DEF Hit, Matching, Chosen
<1>7. CASE Fill(k, t)
  <2>1. First(Invalid(k)) \in Invalid(k)
    BY <1>3, <1>7, LeastIsIn DEF First, Fill, Invalid
  <2> QED BY <1>4, <1>5, <1>7, <2>1 DEF Fill, Invalid, Chosen
<1>8. CASE Evict(k, t)
  <2>1. LeastUsed(k) # {}
    <3>1. \E i \in LineIndices : \A j \in LineIndices :
            lines[k][i].lastUsed <= lines[k][j].lastUsed
      BY <1>2, <1>3, LeastStamp
    <3> QED BY <3>1 DEF LeastUsed
  <2>2. First(LeastUsed(k)) \in LeastUsed(k)
    BY <1>3, <2>1, LeastIsIn DEF First, LeastUsed
  <2>3. \A i \in LineIndices : lines[k][i].valid
    BY <1>8 DEF Evict, Invalid
  <2> QED BY <1>4, <1>5, <1>8, <2>2, <2>3 DEF Evict, LeastUsed, Chosen
<1> QED BY <1>6, <1>7, <1>8 DEF Load

LEMMA LargeLoad ==
  ASSUME lines2 \in [SetIndices -> [Large!LineIndices -> Line]],
         NEW a \in Addresses, Large!Load(a), NEW k, k = SetIndex(a), NEW t, t = Tag(a)
  PROVE  \E i \in Large!LineIndices :
           /\ Chosen(lines2[k], Large!LineIndices, t, i)
           /\ lines2' = [lines2 EXCEPT ![k] = Written(lines2[k], i, t, useLog2)]
           /\ useLog2' = useLog2 + 1
           /\ hit2' = IF Holds(lines2[k], Large!LineIndices, t) THEN hit2 + 1 ELSE hit2
<1>1. k \in SetIndices
  BY AddressParts
<1>2. lines2[k] \in [Large!LineIndices -> Line]
  BY <1>1
<1>3. Large!LineIndices \subseteq Nat /\ 0 \in Large!LineIndices
  BY GeometryAssumption, MoreAssumption DEF Large!LineIndices
<1>4. \A i : Large!Stamp(k, i, t) =>
        /\ lines2' = [lines2 EXCEPT ![k] = Written(lines2[k], i, t, useLog2)]
        /\ useLog2' = useLog2 + 1
  BY <1>1 DEF Large!Stamp, Written
<1>5. Holds(lines2[k], Large!LineIndices, t) <=> Large!Matching(k, t) # {}
  BY DEF Holds, Large!Matching
<1>6. CASE Large!Hit(k, t)
  <2>1. Large!First(Large!Matching(k, t)) \in Large!Matching(k, t)
    BY <1>3, <1>6, LeastIsIn DEF Large!First, Large!Hit, Large!Matching
  <2> QED BY <1>4, <1>5, <1>6, <2>1 DEF Large!Hit, Large!Matching, Chosen
<1>7. CASE Large!Fill(k, t)
  <2>1. Large!First(Large!Invalid(k)) \in Large!Invalid(k)
    BY <1>3, <1>7, LeastIsIn DEF Large!First, Large!Fill, Large!Invalid
  <2> QED BY <1>4, <1>5, <1>7, <2>1 DEF Large!Fill, Large!Invalid, Chosen
<1>8. CASE Large!Evict(k, t)
  <2>1. Large!LeastUsed(k) # {}
    <3>1. \E i \in Large!LineIndices : \A j \in Large!LineIndices :
            lines2[k][i].lastUsed <= lines2[k][j].lastUsed
      BY <1>2, <1>3, LeastStamp
    <3> QED BY <3>1 DEF Large!LeastUsed
  <2>2. Large!First(Large!LeastUsed(k)) \in Large!LeastUsed(k)
    BY <1>3, <2>1, LeastIsIn DEF Large!First, Large!LeastUsed
  <2>3. \A i \in Large!LineIndices : lines2[k][i].valid
    BY <1>8 DEF Large!Evict, Large!Invalid
  <2> QED BY <1>4, <1>5, <1>8, <2>2, <2>3 DEF Large!Evict, Large!LeastUsed, Chosen
<1> QED BY <1>6, <1>7, <1>8 DEF Large!Load, Large!SetIndex, Large!Tag, SetIndex, Tag

-----------------------------------------------------------------------------
\* The larger cache has seen the same accesses and holds, set by set, what the
\* smaller one holds with the same stamps; what it holds besides is older.
PairInv ==
  /\ useLog \in Nat /\ useLog2 = useLog
  /\ hit \in Nat /\ hit2 \in Nat /\ hit <= hit2
  /\ pending \in Addresses \cup {NoAddress}
  /\ lines \in [SetIndices -> [LineIndices -> Line]]
  /\ lines2 \in [SetIndices -> [Large!LineIndices -> Line]]
  /\ \A k \in SetIndices :
       Paired(lines[k], LineIndices, lines2[k], Large!LineIndices, useLog)

\* Stamps of the past stay in the past.
LEMMA PairedLater ==
  ASSUME NEW I, NEW J, NEW L, NEW M, NEW u \in Nat, Paired(L, I, M, J, u)
  PROVE  Paired(L, I, M, J, u + 1)
<1>1. \A i \in I : L[i].lastUsed \in Nat
  BY DEF Paired, Ordered, Line
<1>2. \A j \in J : M[j].lastUsed \in Nat
  BY DEF Paired, Ordered, Line
<1>3. Ordered(L, I, u + 1)
  BY <1>1 DEF Paired, Ordered
<1>4. Ordered(M, J, u + 1)
  BY <1>2 DEF Paired, Ordered
<1> QED BY <1>3, <1>4 DEF Paired

\* A set of the larger cache has at least as many lines.
LEMMA SetSizes ==
  /\ IsFiniteSet(LineIndices) /\ IsFiniteSet(Large!LineIndices)
  /\ Cardinality(LineIndices) <= Cardinality(Large!LineIndices)
<1>1. E \in Nat \ {0} /\ More \in Nat \ {0} /\ E <= More
  BY GeometryAssumption, MoreAssumption
<1>2. \A n \in Nat \ {0} : IsFiniteSet(0 .. n - 1) /\ Cardinality(0 .. n - 1) = n
  <2> SUFFICES ASSUME NEW n \in Nat \ {0}
               PROVE  IsFiniteSet(0 .. n - 1) /\ Cardinality(0 .. n - 1) = n
    OBVIOUS
  <2>1. 0 \in Int /\ n - 1 \in Int /\ ~(0 > n - 1) /\ n - 1 - 0 + 1 = n
    OBVIOUS
  <2> QED BY <2>1, FS_Interval
<1> QED BY <1>1, <1>2 DEF LineIndices, Large!LineIndices

LEMMA InitPairInv == PairInit => PairInv
<1> SUFFICES ASSUME PairInit PROVE PairInv
  OBVIOUS
<1>1. EmptyLine \in Line /\ ~EmptyLine.valid
  BY DEF EmptyLine, Line
<1>2. /\ lines = [k \in SetIndices |-> [i \in LineIndices |-> EmptyLine]]
      /\ lines2 = [k \in SetIndices |-> [i \in Large!LineIndices |-> EmptyLine]]
  BY DEF PairInit, Init, Large!Init, SetIndices, Large!SetIndices, EmptyLine, Large!EmptyLine
<1>3. /\ lines \in [SetIndices -> [LineIndices -> Line]]
      /\ lines2 \in [SetIndices -> [Large!LineIndices -> Line]]
  BY <1>1, <1>2
<1>4. /\ useLog = 0 /\ useLog2 = 0 /\ hit = 0 /\ hit2 = 0 /\ pending = NoAddress
  BY DEF PairInit, Init, Large!Init
<1>5. ASSUME NEW k \in SetIndices
      PROVE  Paired(lines[k], LineIndices, lines2[k], Large!LineIndices, useLog)
  <2>1. /\ \A i \in LineIndices : ~lines[k][i].valid
        /\ \A j \in Large!LineIndices : ~lines2[k][j].valid
    BY <1>1, <1>2
  <2>2. /\ lines[k] \in [LineIndices -> Line]
        /\ lines2[k] \in [Large!LineIndices -> Line]
    BY <1>3
  <2> QED BY <2>1, <2>2 DEF Paired, Ordered, Covers, OlderBeyond
<1> QED BY <1>3, <1>4, <1>5 DEF PairInv

\* load() of one address in both caches.
LEMMA PairLoad ==
  ASSUME PairInv, NEW a \in Addresses, Load(a), Large!Load(a),
         pending' \in Addresses \cup {NoAddress}
  PROVE  PairInv'
<1> DEFINE k == SetIndex(a)
           t == Tag(a)
<1>1. k \in SetIndices /\ t \in Nat
  BY AddressParts
<1>2. PICK i \in LineIndices :
        /\ Chosen(lines[k], LineIndices, t, i)
        /\ lines' = [lines EXCEPT ![k] = Written(lines[k], i, t, useLog)]
        /\ useLog' = useLog + 1
        /\ hit' = IF Holds(lines[k], LineIndices, t) THEN hit + 1 ELSE hit
  BY SmallLoad DEF PairInv
<1>3. PICK j \in Large!LineIndices :
        /\ Chosen(lines2[k], Large!LineIndices, t, j)
        /\ lines2' = [lines2 EXCEPT ![k] = Written(lines2[k], j, t, useLog2)]
        /\ useLog2' = useLog2 + 1
        /\ hit2' = IF Holds(lines2[k], Large!LineIndices, t) THEN hit2 + 1 ELSE hit2
  BY LargeLoad DEF PairInv
<1> HIDE DEF k, t
<1>4. /\ useLog \in Nat /\ useLog2 = useLog /\ hit \in Nat /\ hit2 \in Nat /\ hit <= hit2
      /\ lines \in [SetIndices -> [LineIndices -> Line]]
      /\ lines2 \in [SetIndices -> [Large!LineIndices -> Line]]
  BY DEF PairInv
<1>5. \A m \in SetIndices :
        Paired(lines[m], LineIndices, lines2[m], Large!LineIndices, useLog)
  BY DEF PairInv
<1>6. /\ Paired(Written(lines[k], i, t, useLog), LineIndices,
                Written(lines2[k], j, t, useLog), Large!LineIndices, useLog + 1)
      /\ Holds(lines[k], LineIndices, t) => Holds(lines2[k], Large!LineIndices, t)
  BY <1>1, <1>2, <1>3, <1>4, <1>5, SetSizes, PairedStep
<1>7. /\ Written(lines[k], i, t, useLog) \in [LineIndices -> Line]
      /\ Written(lines2[k], j, t, useLog) \in [Large!LineIndices -> Line]
  BY <1>6 DEF Paired, Ordered
<1>8. /\ lines' \in [SetIndices -> [LineIndices -> Line]]
      /\ lines2' \in [SetIndices -> [Large!LineIndices -> Line]]
  BY <1>1, <1>2, <1>3, <1>4, <1>7
<1>9. ASSUME NEW m \in SetIndices
      PROVE  Paired(lines'[m], LineIndices, lines2'[m], Large!LineIndices, useLog')
  <2>1. CASE m = k
    <3>1. /\ lines'[m] = Written(lines[k], i, t, useLog)
          /\ lines2'[m] = Written(lines2[k], j, t, useLog)
      BY <1>1, <1>2, <1>3, <1>4, <2>1
    <3> QED BY <1>2, <1>6, <3>1
  <2>2. CASE m # k
    <3>1. lines'[m] = lines[m] /\ lines2'[m] = lines2[m]
      BY <1>2, <1>3, <1>4, <2>2
    <3>2. Paired(lines[m], LineIndices, lines2[m], Large!LineIndices, useLog + 1)
      BY <1>4, <1>5, PairedLater
    <3> QED BY <1>2, <3>1, <3>2
  <2> QED BY <2>1, <2>2
<1>10. /\ useLog' \in Nat /\ useLog2' = useLog'
       /\ hit' \in Nat /\ hit2' \in Nat /\ hit' <= hit2'
  BY <1>2, <1>3, <1>4, <1>6
<1> QED BY <1>8, <1>9, <1>10 DEF PairInv

LEMMA NextPairInv == PairInv /\ [PairNext]_<<vars, vars2>> => PairInv'
<1> SUFFICES ASSUME PairInv, [PairNext]_<<vars, vars2>> PROVE PairInv'
  OBVIOUS
<1>1. ASSUME NEW a \in Addresses, LoadOrStore(a), Large!LoadOrStore(a) PROVE PairInv'
  <2>1. Load(a) /\ Large!Load(a) /\ pending' = pending
    BY <1>1 DEF LoadOrStore, Large!LoadOrStore
  <2>2. pending' \in Addresses \cup {NoAddress}
    BY <2>1 DEF PairInv
  <2> QED BY <2>1, <2>2, PairLoad
<1>2. ASSUME NEW a \in Addresses, ModifyLoad(a), Large!ModifyLoad(a) PROVE PairInv'
  <2>1. Load(a) /\ Large!Load(a) /\ pending' = a
    BY <1>2 DEF ModifyLoad, Large!ModifyLoad
  <2> QED BY <2>1, PairLoad
<1>3. CASE ModifyStore /\ Large!ModifyStore
  <2>1. /\ Load(pending) /\ Large!Load(pending)
        /\ pending # NoAddress /\ pending' = NoAddress
    BY <1>3 DEF ModifyStore, Large!ModifyStore
  <2>2. pending \in Addresses
    BY <2>1 DEF PairInv
  <2> QED BY <2>1, <2>2, PairLoad
<1>4. CASE UNCHANGED <<vars, vars2>>
  BY <1>4 DEF vars, vars2, PairInv
<1> QED BY <1>1, <1>2, <1>3, <1>4 DEF PairNext

\* The relation between the two caches is an invariant.
THEOREM Pairing == PairSpec => []PairInv
BY InitPairInv, NextPairInv, PTL DEF PairSpec

\* With more lines per set load() finds everything it finds with fewer, and
\* counts at least as many hits, for every geometry and every trace.
THEOREM MoreLinesHoldMore == PairSpec => []Inclusion
<1>1. PairInv => Inclusion
  <2> SUFFICES ASSUME PairInv, NEW k \in SetIndices, NEW b \in Resident[k]
               PROVE  b \in Large!Resident[k]
    BY DEF PairInv, Inclusion
  <2>1. PICK i \in LineIndices : lines[k][i].valid /\ lines[k][i].tag = b
    BY DEF Resident, Valid
  <2>2. \E j \in Large!LineIndices : lines2[k][j].valid /\ lines2[k][j].tag = b
    BY <2>1 DEF PairInv, Paired, Covers
  <2>3. Large!Resident[k] = {lines2[k][j].tag : j \in Large!Valid(k)}
    BY DEF Large!Resident, Large!SetIndices, SetIndices
  <2> QED BY <2>2, <2>3 DEF Large!Valid
<1> QED BY Pairing, <1>1, PTL
=============================================================================
