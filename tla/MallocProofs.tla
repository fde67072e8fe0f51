---------------------------- MODULE MallocProofs ----------------------------
(***************************************************************************)
(* The allocator (module Malloc) keeps its heap in order.                   *)
(***************************************************************************)
EXTENDS MallocDriver, TLAPS, FiniteSetTheorems, WellFoundedInduction

\* Every nonempty set of natural numbers has a least element.
LEMMA NatLeast ==
  ASSUME NEW T, T \subseteq Nat, T # {}
  PROVE  \E x \in T : \A y \in T : x <= y
<1> DEFINE Below == {p \in Nat \X Nat : p[1] < p[2]}
<1>1. IsWellFoundedOn(Below, Nat)
  BY NatLessThanWellFounded DEF OpToRel
<1>2. PICK x \in T : \A y \in T : <<y, x>> \notin Below
  BY <1>1, WFMin
<1>3. ASSUME NEW y \in T
      PROVE  x <= y
  <2>1. x \in Nat /\ y \in Nat
    OBVIOUS
  <2>2. <<y, x>> \notin Below
    BY <1>2
  <2> QED BY <2>1, <2>2
<1> QED BY <1>3

USE DEF WSIZE, DSIZE, NULL

-----------------------------------------------------------------------------
(* Numbers.                                                                 *)

\* What PACK() puts into a word can be read from it.
LEMMA Unpacked ==
  ASSUME NEW size \in Nat, size % 8 = 0, NEW alloc \in {0, 1}
  PROVE  /\ SizeIn(PACK(size, alloc)) = size
         /\ PACK(size, alloc) % 2 = alloc
BY DEF SizeIn, PACK

LEMMA RoundedUp ==
  ASSUME NEW size \in Nat
  PROVE  /\ ALIGN(size) \in Nat /\ ALIGN(size) % 8 = 0
         /\ size <= ALIGN(size) /\ ALIGN(size) < size + 8
         /\ ALIGN(size + 8) = ALIGN(size) + 8
BY DEF ALIGN

LEMMA IsWord ==
  ASSUME NEW a \in Nat, a % 4 = 0, a + 4 <= MAX_HEAP
  PROVE  a \in Words
<1>1. a = 4 * (a \div 4)
  OBVIOUS
<1>2. a \div 4 \in 0 .. MAX_HEAP \div 4 - 1
  BY HeapAssumption
<1> QED BY <1>1, <1>2 DEF Words

LEMMA PrologueFacts ==
  /\ HeapList \in Nat /\ HeapList % 8 = 0 /\ HeapList >= 16
  /\ HeapList + 8 <= MAX_HEAP /\ MAX_HEAP \in Nat
  /\ \A i \in Lists : i * 4 \in Nat /\ (i * 4) % 4 = 0 /\ i * 4 + 12 <= HeapList
<1>1. LISTLENGTH \in Nat /\ LISTLENGTH >= 1 /\ LISTLENGTH * 4 \in Nat
  BY ListAssumption
<1>2. /\ ALIGN(LISTLENGTH * 4) \in Nat /\ ALIGN(LISTLENGTH * 4) % 8 = 0
      /\ LISTLENGTH * 4 <= ALIGN(LISTLENGTH * 4)
  BY <1>1, RoundedUp
<1>3. HeapList = ALIGN(LISTLENGTH * 4) + 8
  BY DEF HeapList
<1>4. \A i \in Lists : i * 4 \in Nat /\ (i * 4) % 4 = 0 /\ i * 4 + 4 <= LISTLENGTH * 4
  BY <1>1 DEF Lists
<1> HIDE DEF HeapList
<1> QED BY <1>1, <1>2, <1>3, <1>4, HeapAssumption

-----------------------------------------------------------------------------
(* How blocks tile the heap.  The domain of sz is the set of the blocks,    *)
(* and sz gives their sizes; U is the set of the blocks in use.             *)

Shape(brk, sz) ==
  /\ brk \in Nat /\ brk % 8 = 0 /\ brk <= MAX_HEAP
  /\ HeapList \in DOMAIN sz /\ sz[HeapList] = 8
  /\ \A b \in DOMAIN sz :
       /\ b \in Nat /\ b % 8 = 0 /\ HeapList <= b
       /\ sz[b] \in Nat /\ sz[b] % 8 = 0
       /\ b # HeapList => sz[b] >= 16
       /\ b + sz[b] <= brk
       /\ b + sz[b] \in DOMAIN sz \cup {brk}
  /\ \A b, c \in DOMAIN sz : b < c => b + sz[b] <= c
  /\ \A c \in (DOMAIN sz \cup {brk}) \ {HeapList} : \E b \in DOMAIN sz : b + sz[b] = c

\* The blocks in DOMAIN nsz tile the space from start to end.
Cut(start, end, nsz) ==
  /\ start \in DOMAIN nsz
  /\ \A n \in DOMAIN nsz :
       /\ n \in Nat /\ n % 8 = 0 /\ start <= n
       /\ nsz[n] \in Nat /\ nsz[n] % 8 = 0 /\ nsz[n] >= 16
       /\ n + nsz[n] <= end /\ n + nsz[n] \in DOMAIN nsz \cup {end}
  /\ \A n, k \in DOMAIN nsz : n < k => n + nsz[n] <= k
  /\ \A c \in (DOMAIN nsz \cup {end}) \ {start} : \E n \in DOMAIN nsz : n + nsz[n] = c

Outside(sz, start, end) == {b \in DOMAIN sz : b < start \/ b >= end}

\* The blocks of nsz take the place of those from start to end.
Recut(sz, start, end, nsz) ==
  [b \in Outside(sz, start, end) \cup DOMAIN nsz |->
     IF b \in DOMAIN nsz THEN nsz[b] ELSE sz[b]]

LEMMA ShapeFacts ==
  ASSUME NEW brk, NEW sz, Shape(brk, sz)
  PROVE  /\ brk \in Nat /\ brk \notin DOMAIN sz /\ HeapList + 8 <= brk
         /\ \A b \in DOMAIN sz : /\ b \in Nat /\ sz[b] \in Nat
                                 /\ b < b + sz[b] /\ b < brk /\ sz[b] >= 8
         /\ \A b \in DOMAIN sz \ {HeapList} : HeapList + 8 <= b /\ b + 16 <= brk
BY PrologueFacts DEF Shape

\* Where one block ends, another or the epilogue begins.
LEMMA EndFacts ==
  ASSUME NEW brk, NEW sz, Shape(brk, sz), NEW end \in DOMAIN sz \cup {brk}
  PROVE  /\ end \in Nat /\ end % 8 = 0 /\ end <= brk /\ end <= MAX_HEAP /\ end >= 16
         /\ MAX_HEAP \in Nat
<1>1. brk \in Nat /\ brk % 8 = 0 /\ brk <= MAX_HEAP
  BY DEF Shape
<1>2. CASE end = brk
  BY <1>1, <1>2, ShapeFacts, PrologueFacts
<1>3. CASE end \in DOMAIN sz
  <2>1. end \in Nat /\ end % 8 = 0 /\ end < brk /\ HeapList <= end
    BY <1>3, ShapeFacts DEF Shape
  <2> QED BY <1>1, <2>1, PrologueFacts
<1> QED BY <1>2, <1>3

LEMMA BlockFacts ==
  ASSUME NEW brk, NEW sz, Shape(brk, sz), NEW b \in DOMAIN sz \ {HeapList}
  PROVE  /\ b \in Nat /\ b % 8 = 0 /\ b >= 24 /\ HeapList + 8 <= b /\ HeapList \in Nat
         /\ sz[b] \in Nat /\ sz[b] % 8 = 0 /\ sz[b] >= 16
         /\ b + sz[b] \in DOMAIN sz \cup {brk} /\ b + sz[b] <= brk
<1>1. HeapList + 8 <= b /\ HeapList \in Nat /\ HeapList >= 16
  BY ShapeFacts, PrologueFacts
<1>2. /\ b \in Nat /\ b % 8 = 0
      /\ sz[b] \in Nat /\ sz[b] % 8 = 0 /\ sz[b] >= 16
      /\ b + sz[b] \in DOMAIN sz \cup {brk} /\ b + sz[b] <= brk
  BY DEF Shape
<1> QED BY <1>1, <1>2

LEMMA CutFacts ==
  ASSUME NEW start \in Nat, NEW end \in Nat, start < end, NEW nsz, Cut(start, end, nsz)
  PROVE  \A n \in DOMAIN nsz : n \in Nat /\ start <= n /\ n + 16 <= end
BY DEF Cut

LEMMA ShapeRecut ==
  ASSUME NEW brk, NEW sz, Shape(brk, sz),
         NEW start \in DOMAIN sz \ {HeapList}, NEW end \in DOMAIN sz \cup {brk}, start < end,
         NEW nsz, Cut(start, end, nsz)
  PROVE  Shape(brk, Recut(sz, start, end, nsz))
<1> DEFINE csz == Recut(sz, start, end, nsz)
           N == DOMAIN nsz
           O == Outside(sz, start, end)
<1>a. DOMAIN csz = O \cup N /\ \A c \in O \cup N : csz[c] = IF c \in N THEN nsz[c] ELSE sz[c]
  BY DEF Recut
<1> HIDE DEF csz
<1>0. /\ brk \in Nat /\ start \in Nat /\ end \in Nat /\ HeapList \in Nat
      /\ start > HeapList /\ start >= HeapList + 8 /\ end <= brk
  BY ShapeFacts, PrologueFacts
<1>1. \A b \in O : b \notin N /\ b \in DOMAIN sz /\ csz[b] = sz[b]
  BY <1>0, <1>a, CutFacts DEF Outside
<1>3. \A n \in N : csz[n] = nsz[n]
  BY <1>a
<1>4. \A b \in DOMAIN sz : b < start => b + sz[b] <= start
  BY DEF Shape
<1>5. HeapList \in O /\ csz[HeapList] = 8
  BY <1>0, <1>1 DEF Outside, Shape
<1>6. \A b \in DOMAIN sz : b >= end => b + sz[b] >= end
  BY <1>0, ShapeFacts
<1>7. ASSUME NEW b \in O PROVE b + sz[b] \in O \cup N \cup {brk}
  <2>1. b + sz[b] \in DOMAIN sz \cup {brk} /\ b \in DOMAIN sz
    BY <1>1 DEF Shape
  <2>2. CASE b < start
    <3>1. b + sz[b] <= start /\ b + sz[b] \in Nat
      BY <2>1, <2>2, <1>4, ShapeFacts
    <3>2. start \in N
      BY DEF Cut
    <3>3. CASE b + sz[b] = start
      BY <3>2, <3>3
    <3>4. CASE b + sz[b] < start
      BY <2>1, <3>4 DEF Outside
    <3> QED BY <1>0, <3>1, <3>3, <3>4
  <2>3. CASE b >= end
    BY <1>6, <2>1, <2>3 DEF Outside
  <2> QED BY <2>2, <2>3 DEF Outside
<1>8. ASSUME NEW n \in N PROVE n + nsz[n] \in O \cup N \cup {brk} /\ n + nsz[n] <= brk
  <2>1. n + nsz[n] \in N \cup {end} /\ n + nsz[n] <= end /\ n + nsz[n] \in Nat
    BY DEF Cut
  <2>2. end \in O \cup {brk}
    BY <1>0 DEF Outside
  <2> QED BY <1>0, <2>1, <2>2
<1>9. ASSUME NEW b \in O \cup N
      PROVE  /\ b \in Nat /\ b % 8 = 0 /\ HeapList <= b
             /\ csz[b] \in Nat /\ csz[b] % 8 = 0
             /\ b # HeapList => csz[b] >= 16
             /\ b + csz[b] <= brk
             /\ b + csz[b] \in O \cup N \cup {brk}
  <2>1. CASE b \in N
    BY <1>0, <1>3, <1>8, <2>1 DEF Cut
  <2>2. CASE b \in O
    BY <1>1, <1>7, <2>2 DEF Shape
  <2> QED BY <2>1, <2>2
<1>10. ASSUME NEW b \in O \cup N, NEW c \in O \cup N, b < c PROVE b + csz[b] <= c
  <2>1. CASE b \in N /\ c \in N
    BY <1>3, <1>10, <2>1 DEF Cut
  <2>2. CASE b \in N /\ c \in O
    <3>1. b >= start /\ b + nsz[b] <= end /\ b \in Nat /\ nsz[b] \in Nat
      BY <2>2 DEF Cut
    <3>2. c >= end
      BY <1>0, <1>1, <1>10, <2>2, <3>1, ShapeFacts DEF Outside
    <3> QED BY <1>0, <1>1, <1>3, <2>2, <3>1, <3>2, ShapeFacts
  <2>3. CASE b \in O /\ c \in N
    <3>1. c >= start /\ c < end /\ c \in Nat
      BY <1>0, <2>3, CutFacts
    <3>2. b < start /\ b \in DOMAIN sz
      BY <1>0, <1>1, <1>10, <2>3, <3>1, ShapeFacts DEF Outside
    <3>3. b + sz[b] <= start /\ b + sz[b] \in Nat
      BY <3>2, <1>4, ShapeFacts
    <3> QED BY <1>0, <1>1, <2>3, <3>1, <3>3
  <2>4. CASE b \in O /\ c \in O
    BY <1>1, <1>10, <2>4 DEF Shape
  <2> QED BY <2>1, <2>2, <2>3, <2>4
<1>11. ASSUME NEW c \in (O \cup N \cup {brk}) \ {HeapList}
       PROVE  \E b \in O \cup N : b + csz[b] = c
  <2>1. CASE c \in (N \cup {end}) \ {start}
    <3>1. PICK n \in N : n + nsz[n] = c
      BY <2>1 DEF Cut
    <3> QED BY <1>3, <3>1
  <2>2. CASE c \notin (N \cup {end}) \ {start}
    <3>0. c \in Nat /\ c \in DOMAIN sz \cup {brk}
      <4>1. CASE c \in N
        BY <1>0, <2>2, <4>1
      <4>2. CASE c \in O \cup {brk}
        BY <1>0, <1>1, <4>2, ShapeFacts
      <4> QED BY <4>1, <4>2
    <3>1. c <= start \/ c > end
      BY <1>0, <2>2, <3>0 DEF Outside
    <3>2. PICK b \in DOMAIN sz : b + sz[b] = c
      BY <3>0 DEF Shape
    <3>3. b \in Nat /\ sz[b] \in Nat /\ b < c
      BY <3>2, ShapeFacts
    <3>4. b < start \/ b >= end
      <4>1. CASE c <= start
        BY <1>0, <3>0, <3>3, <4>1
      <4>2. CASE c > end
        <5>1. CASE end \in DOMAIN sz
          <6>1. b < end => b + sz[b] <= end
            BY <5>1 DEF Shape
          <6> QED BY <1>0, <3>0, <3>2, <3>3, <4>2, <6>1
        <5>2. CASE end = brk
          <6>1. b + sz[b] <= brk
            BY DEF Shape
          <6> QED BY <1>0, <3>0, <3>2, <4>2, <5>2, <6>1
        <5> QED BY <5>1, <5>2
      <4> QED BY <3>1, <4>1, <4>2
    <3>5. b \in O
      BY <3>4 DEF Outside
    <3> QED BY <1>1, <3>2, <3>5
  <2> QED BY <2>1, <2>2
<1>12. Shape(brk, sz) => brk % 8 = 0 /\ brk <= MAX_HEAP
  BY DEF Shape
<1>13. Shape(brk, csz)
  <2> HIDE DEF O, N
  <2> QED BY <1>a, <1>0, <1>5, <1>9, <1>10, <1>11, <1>12 DEF Shape
<1> QED BY <1>13 DEF csz

\* One block from start to end, and two blocks that meet at mid.
OnePiece(start, end) == [n \in {start} |-> end - start]

TwoPieces(start, mid, end) ==
  [n \in {start, mid} |-> IF n = start THEN mid - start ELSE end - mid]

LEMMA CutOne ==
  ASSUME NEW start \in Nat, start % 8 = 0, NEW end \in Nat, end % 8 = 0, start + 16 <= end
  PROVE  Cut(start, end, OnePiece(start, end))
BY DEF Cut, OnePiece

LEMMA CutTwo ==
  ASSUME NEW start \in Nat, start % 8 = 0, NEW mid \in Nat, mid % 8 = 0,
         NEW end \in Nat, end % 8 = 0, start + 16 <= mid, mid + 16 <= end
  PROVE  Cut(start, end, TwoPieces(start, mid, end))
<1> DEFINE nsz == TwoPieces(start, mid, end)
<1>1. DOMAIN nsz = {start, mid} /\ nsz[start] = mid - start /\ nsz[mid] = end - mid
  BY DEF TwoPieces
<1> HIDE DEF nsz
<1>2. \A n \in DOMAIN nsz :
       /\ n \in Nat /\ n % 8 = 0 /\ start <= n
       /\ nsz[n] \in Nat /\ nsz[n] % 8 = 0 /\ nsz[n] >= 16
       /\ n + nsz[n] <= end /\ n + nsz[n] \in DOMAIN nsz \cup {end}
  BY <1>1
<1>3. \A n, k \in DOMAIN nsz : n < k => n + nsz[n] <= k
  BY <1>1
<1>4. \A c \in (DOMAIN nsz \cup {end}) \ {start} : \E n \in DOMAIN nsz : n + nsz[n] = c
  BY <1>1
<1>5. Cut(start, end, nsz)
  BY <1>1, <1>2, <1>3, <1>4 DEF Cut
<1> QED BY <1>5 DEF nsz

-----------------------------------------------------------------------------
(* What is in memory.  F is the set of the blocks on the free lists.  Their *)
(* links are those of doubly linked lists: hd gives the first block of each *)
(* list, nx and pv give the neighbours of a block, and rk falls from block  *)
(* to block, so that no list is a ring.                                     *)

Tag(sz, U, b) == PACK(sz[b], IF b \in U THEN 1 ELSE 0)

\* The headers and footers are those of the blocks.
Marked(m, brk, sz, U) ==
  /\ DOMAIN m = Words
  /\ m[brk - 4] = 1
  /\ \A b \in DOMAIN sz : m[b - 4] = Tag(sz, U, b) /\ m[b + sz[b] - 8] = Tag(sz, U, b)

Chained(F, sz, hd, nx, pv, rk) ==
  /\ \A i \in Lists : hd[i] = NULL \/ /\ hd[i] \in F /\ ListIndex(sz[hd[i]]) = i
                                      /\ pv[hd[i]] = NULL
  /\ \A b \in F :
       /\ rk[b] \in Nat
       /\ nx[b] = NULL \/ /\ nx[b] \in F /\ ListIndex(sz[nx[b]]) = ListIndex(sz[b])
                          /\ pv[nx[b]] = b /\ rk[nx[b]] < rk[b]
       /\ IF pv[b] = NULL THEN hd[ListIndex(sz[b])] = b
          ELSE pv[b] \in F /\ ListIndex(sz[pv[b]]) = ListIndex(sz[b]) /\ nx[pv[b]] = b

\* The offset by which a link leads to a block.
Offset(bp) == IF bp = NULL THEN 0 ELSE bp - HeapList

Stored(m, F, hd, nx, pv) ==
  /\ \A i \in Lists : m[i * 4] = Offset(hd[i])
  /\ \A b \in F : m[b] = Offset(pv[b]) /\ m[b + 4] = Offset(nx[b])

Linked(m, F, sz) ==
  \E hd, nx, pv, rk : Chained(F, sz, hd, nx, pv, rk) /\ Stored(m, F, hd, nx, pv)

Heap(m, brk, sz, U, F) ==
  /\ Shape(brk, sz)
  /\ U \subseteq DOMAIN sz /\ HeapList \in U
  /\ F \subseteq DOMAIN sz \ U
  /\ Marked(m, brk, sz, U)
  /\ Linked(m, F, sz)

\* The words of tags and of links.
TagWords(sz) == {b - 4 : b \in DOMAIN sz} \cup {b + sz[b] - 8 : b \in DOMAIN sz}
LinkWords(F) == {i * 4 : i \in Lists} \cup F \cup {b + 4 : b \in F}

\* The memory m2 differs from m in the words in W only.
Only(m2, m, W) ==
  DOMAIN m2 = Words /\ \A a \in Words \ W : m2[a] = m[a]

LEMMA ListIndexFacts == \A size : ListIndex(size) \in Lists
<1> SUFFICES ASSUME NEW size PROVE ListIndex(size) \in Lists
  OBVIOUS
<1> DEFINE linear == size \div DSIZE - 2
           shorter == {i \in LINEARMAX .. LISTLENGTH - 2 :
                         Shifted(size - 1, LINEARLENGTH + i - LINEARMAX) = 0}
<1>1. CASE linear \in 0 .. LINEARMAX - 1
  BY <1>1, ListAssumption DEF ListIndex, Lists
<1>2. CASE linear \notin 0 .. LINEARMAX - 1 /\ shorter = {}
  <2>1. ListIndex(size) = LISTLENGTH - 1
    BY <1>2 DEF ListIndex
  <2> QED BY <2>1, ListAssumption DEF Lists
<1>3. CASE linear \notin 0 .. LINEARMAX - 1 /\ shorter # {}
  <2>1. ListIndex(size) = CHOOSE i \in shorter : \A j \in shorter : i <= j
    BY <1>3 DEF ListIndex
  <2>2. shorter \subseteq Nat /\ shorter \subseteq Lists
    BY ListAssumption DEF Lists
  <2> HIDE DEF shorter
  <2>3. \E i \in shorter : \A j \in shorter : i <= j
    BY <1>3, <2>2, NatLeast
  <2> QED BY <2>1, <2>2, <2>3
<1> QED BY <1>1, <1>2, <1>3

\* Where the words of a block and of the list heads are.
LEMMA WordFacts ==
  ASSUME NEW brk, NEW sz, Shape(brk, sz)
  PROVE  /\ brk - 4 \in Words
         /\ \A b \in DOMAIN sz : b - 4 \in Words /\ b + sz[b] - 8 \in Words
         /\ \A b \in DOMAIN sz \ {HeapList} : b \in Words /\ b + 4 \in Words
         /\ \A i \in Lists : i * 4 \in Words
<1>1. /\ brk \in Nat /\ brk % 8 = 0 /\ brk <= MAX_HEAP /\ brk >= 8
  BY ShapeFacts, PrologueFacts DEF Shape
<1>2. ASSUME NEW b \in DOMAIN sz PROVE b - 4 \in Words /\ b + sz[b] - 8 \in Words
  <2>1. /\ b \in Nat /\ b % 8 = 0 /\ b >= 16 /\ sz[b] \in Nat /\ sz[b] % 8 = 0 /\ sz[b] >= 8
        /\ b + sz[b] <= brk
    BY ShapeFacts, PrologueFacts DEF Shape
  <2>2. /\ b - 4 \in Nat /\ (b - 4) % 4 = 0 /\ b - 4 + 4 <= MAX_HEAP
        /\ b + sz[b] - 8 \in Nat /\ (b + sz[b] - 8) % 4 = 0 /\ b + sz[b] - 8 + 4 <= MAX_HEAP
    BY <1>1, <2>1, PrologueFacts
  <2> QED BY <2>2, IsWord
<1>3. ASSUME NEW b \in DOMAIN sz \ {HeapList} PROVE b \in Words /\ b + 4 \in Words
  <2>1. b \in Nat /\ b % 8 = 0 /\ b + 16 <= brk
    BY ShapeFacts DEF Shape
  <2>2. b % 4 = 0 /\ b + 4 <= MAX_HEAP /\ b + 4 \in Nat /\ (b + 4) % 4 = 0 /\ b + 4 + 4 <= MAX_HEAP
    BY <1>1, <2>1, PrologueFacts
  <2> QED BY <2>1, <2>2, IsWord
<1>4. ASSUME NEW i \in Lists PROVE i * 4 \in Words
  <2>1. i * 4 \in Nat /\ (i * 4) % 4 = 0 /\ i * 4 + 4 <= MAX_HEAP
    BY PrologueFacts
  <2> QED BY <2>1, IsWord
<1>5. brk - 4 \in Words
  <2>1. brk - 4 \in Nat /\ (brk - 4) % 4 = 0 /\ brk - 4 + 4 <= MAX_HEAP
    BY <1>1, PrologueFacts
  <2> QED BY <2>1, IsWord
<1> QED BY <1>2, <1>3, <1>4, <1>5

LEMMA Apart ==
  ASSUME NEW brk, NEW sz, Shape(brk, sz), NEW b \in DOMAIN sz, NEW c \in DOMAIN sz, b # c
  PROVE  b + sz[b] <= c \/ c + sz[c] <= b
BY ShapeFacts DEF Shape

\* No word is both in a tag and in a link.
LEMMA TagsAreNotLinks ==
  ASSUME NEW brk, NEW sz, Shape(brk, sz), NEW F, F \subseteq DOMAIN sz \ {HeapList}
  PROVE  TagWords(sz) \cap LinkWords(F) = {} /\ brk - 4 \notin LinkWords(F)
<1>1. ASSUME NEW b \in DOMAIN sz, NEW i \in Lists PROVE b - 4 # i * 4 /\ b + sz[b] - 8 # i * 4
  BY ShapeFacts, PrologueFacts DEF Shape
<1>2. ASSUME NEW b \in DOMAIN sz, NEW c \in F
      PROVE  b - 4 # c /\ b - 4 # c + 4 /\ b + sz[b] - 8 # c /\ b + sz[b] - 8 # c + 4
  <2>1. c \in DOMAIN sz /\ c # HeapList /\ sz[c] >= 16 /\ c \in Nat /\ b \in Nat /\ sz[b] \in Nat /\ sz[c] \in Nat
        /\ sz[b] >= 8
    BY ShapeFacts DEF Shape
  <2>2. CASE b = c
    BY <2>1, <2>2
  <2>3. CASE b # c
    <3>1. b + sz[b] <= c \/ c + sz[c] <= b
      BY <2>1, <2>3, Apart
    <3> QED BY <2>1, <3>1
  <2> QED BY <2>2, <2>3
<1>3. ASSUME NEW i \in Lists PROVE brk - 4 # i * 4
  BY ShapeFacts, PrologueFacts
<1>4. ASSUME NEW c \in F PROVE brk - 4 # c /\ brk - 4 # c + 4
  BY ShapeFacts
<1> QED BY <1>1, <1>2, <1>3, <1>4 DEF TagWords, LinkWords

\* The links are where they were if no link has been written to.
LEMMA LinkedStays ==
  ASSUME NEW F, NEW sz, NEW m, Linked(m, F, sz), NEW m2, NEW sz2,
         \A a \in LinkWords(F) : m2[a] = m[a], \A b \in F : sz2[b] = sz[b]
  PROVE  Linked(m2, F, sz2)
<1>1. PICK hd, nx, pv, rk : Chained(F, sz, hd, nx, pv, rk) /\ Stored(m, F, hd, nx, pv)
  BY DEF Linked
<1>2. Stored(m2, F, hd, nx, pv)
  BY <1>1 DEF Stored, LinkWords
<1>3. Chained(F, sz2, hd, nx, pv, rk)
  BY <1>1 DEF Chained
<1> QED BY <1>2, <1>3 DEF Linked

\* The heap is in order when the space from start to end, where no block is on
\* a free list, has been divided anew.
LEMMA HeapRecut ==
  ASSUME NEW m, NEW brk, NEW sz, NEW U, NEW F, Heap(m, brk, sz, U, F),
         NEW start \in DOMAIN sz \ {HeapList}, NEW end \in DOMAIN sz \cup {brk}, start < end,
         NEW nsz, Cut(start, end, nsz), F \subseteq Outside(sz, start, end),
         NEW U2, U2 \subseteq Outside(sz, start, end) \cup DOMAIN nsz,
         \A b \in Outside(sz, start, end) : b \in U2 <=> b \in U,
         NEW m2, Only(m2, m, TagWords(nsz)),
         \A n \in DOMAIN nsz : m2[n - 4] = Tag(nsz, U2, n) /\ m2[n + nsz[n] - 8] = Tag(nsz, U2, n)
  PROVE  Heap(m2, brk, Recut(sz, start, end, nsz), U2, F)
<1> DEFINE csz == Recut(sz, start, end, nsz)
           N == DOMAIN nsz
           O == Outside(sz, start, end)
<1>0. Shape(brk, sz) /\ start \in Nat /\ end \in Nat /\ brk \in Nat /\ end <= brk /\ HeapList < start
  BY ShapeFacts, PrologueFacts DEF Heap, Shape
<1>1. Shape(brk, csz)
  BY ShapeRecut, <1>0
<1>2. DOMAIN csz = O \cup N /\ \A c \in O \cup N : csz[c] = IF c \in N THEN nsz[c] ELSE sz[c]
  BY DEF Recut
<1>3. \A b \in O : b \notin N /\ b \in DOMAIN sz
  BY <1>0, CutFacts DEF Outside
<1>4. \A n \in N : n \in Nat /\ nsz[n] \in Nat /\ start <= n /\ nsz[n] >= 16 /\ n + nsz[n] <= end
  BY <1>0, CutFacts DEF Cut
<1>5. ASSUME NEW b \in O, NEW n \in N
      PROVE  /\ b - 4 # n - 4 /\ b - 4 # n + nsz[n] - 8
             /\ b + sz[b] - 8 # n - 4 /\ b + sz[b] - 8 # n + nsz[n] - 8
  <2>1. b \in Nat /\ sz[b] \in Nat /\ sz[b] >= 8 /\ (b < start \/ b >= end) /\ b # n
    BY <1>0, <1>3, ShapeFacts DEF Outside
  <2>2. b < start => b + sz[b] <= start
    BY <1>0, <1>3 DEF Shape
  <2> QED BY <1>0, <1>4, <2>1, <2>2
<1>6. \A b \in O : b - 4 \notin TagWords(nsz) /\ b + sz[b] - 8 \notin TagWords(nsz)
  BY <1>5 DEF TagWords
<1>7. brk - 4 \notin TagWords(nsz)
  BY <1>0, <1>4 DEF TagWords
<1>8. Marked(m2, brk, csz, U2)
  <2>1. m2[brk - 4] = 1 /\ DOMAIN m2 = Words
    BY <1>0, <1>7, WordFacts DEF Only, Heap, Marked
  <2>2. ASSUME NEW b \in O PROVE m2[b - 4] = Tag(csz, U2, b) /\ m2[b + csz[b] - 8] = Tag(csz, U2, b)
    <3>1. csz[b] = sz[b] /\ b \in DOMAIN sz
      BY <1>2, <1>3
    <3>2. m2[b - 4] = m[b - 4] /\ m2[b + sz[b] - 8] = m[b + sz[b] - 8]
      BY <1>0, <1>6, <3>1, WordFacts DEF Only
    <3>3. m[b - 4] = Tag(sz, U, b) /\ m[b + sz[b] - 8] = Tag(sz, U, b)
      BY <3>1 DEF Heap, Marked
    <3>4. Tag(csz, U2, b) = Tag(sz, U, b)
      BY <3>1 DEF Tag
    <3> QED BY <3>1, <3>2, <3>3, <3>4
  <2>3. ASSUME NEW b \in N PROVE m2[b - 4] = Tag(csz, U2, b) /\ m2[b + csz[b] - 8] = Tag(csz, U2, b)
    <3>1. csz[b] = nsz[b]
      BY <1>2
    <3> QED BY <3>1 DEF Tag
  <2> HIDE DEF csz, O, N
  <2> QED BY <1>2, <2>1, <2>2, <2>3 DEF Marked
<1>9. Linked(m2, F, csz)
  <2>1. F \subseteq DOMAIN sz \ {HeapList} /\ Linked(m, F, sz)
    BY DEF Heap
  <2>2. \A b \in F : csz[b] = sz[b]
    BY <1>2, <1>3
  <2>3. ASSUME NEW a \in LinkWords(F) PROVE m2[a] = m[a]
    <3>1. a \in Words
      BY <1>0, <2>1, WordFacts DEF LinkWords
    <3>2. a \notin TagWords(nsz)
      <4>1. CASE \E i \in Lists : a = i * 4
        BY <4>1, <1>0, <1>4, PrologueFacts DEF TagWords
      <4>2. ASSUME NEW b \in F, a = b \/ a = b + 4 PROVE a \notin TagWords(nsz)
        <5>1. b \in Nat /\ b \in O /\ b \in DOMAIN sz /\ sz[b] \in Nat /\ sz[b] >= 16
          BY <1>0, <2>1, ShapeFacts DEF Shape
        <5>2. (b < start /\ b + sz[b] <= start) \/ b >= end
          BY <1>0, <5>1 DEF Outside, Shape
        <5> QED BY <1>0, <1>4, <4>2, <5>1, <5>2 DEF TagWords
      <4> QED BY <4>1, <4>2 DEF LinkWords
    <3> QED BY <3>1, <3>2 DEF Only
  <2> QED BY <2>1, <2>2, <2>3, LinkedStays
<1>10. U2 \subseteq DOMAIN csz /\ HeapList \in U2
  <2>1. HeapList \in O /\ HeapList \in U
    BY <1>0, PrologueFacts DEF Heap, Outside, Shape
  <2> QED BY <1>2, <2>1
<1>11. F \subseteq DOMAIN csz \ U2
  BY <1>2 DEF Heap
<1> QED BY <1>1, <1>8, <1>9, <1>10, <1>11 DEF Heap

\* Tagged() with one block ...
LEMMA TagOne ==
  ASSUME NEW m, NEW brk, NEW sz, NEW U, NEW F, Heap(m, brk, sz, U, F),
         NEW start \in DOMAIN sz \ {HeapList}, NEW end \in DOMAIN sz \cup {brk}, start < end,
         F \subseteq Outside(sz, start, end), NEW alloc \in {0, 1},
         NEW U2, U2 \subseteq Outside(sz, start, end) \cup {start},
         \A b \in Outside(sz, start, end) : b \in U2 <=> b \in U, start \in U2 <=> alloc = 1,
         NEW size \in Nat, end = start + size, NEW m2, m2 = Tagged(m, start, size, alloc)
  PROVE  /\ Heap(m2, brk, Recut(sz, start, end, OnePiece(start, end)), U2, F)
         /\ Only(m2, m, TagWords(OnePiece(start, end)))
<1> DEFINE nsz == OnePiece(start, end)
<1>1. /\ Shape(brk, sz) /\ start \in Nat /\ end \in Nat /\ start % 8 = 0 /\ end % 8 = 0
      /\ start + 16 <= end /\ size = end - start
  <2>1. Shape(brk, sz)
    BY DEF Heap
  <2>2. /\ start \in Nat /\ end \in Nat /\ start % 8 = 0 /\ end % 8 = 0
        /\ sz[start] \in Nat /\ sz[start] >= 16 /\ start + sz[start] <= brk
    BY <2>1, BlockFacts, EndFacts
  <2>3. end \in DOMAIN sz => start + sz[start] <= end
    BY <2>1 DEF Shape
  <2> QED BY <2>1, <2>2, <2>3
<1>2. Cut(start, end, nsz)
  BY <1>1, CutOne
<1>3. DOMAIN nsz = {start} /\ nsz[start] = end - start
  BY DEF OnePiece
<1>4. TagWords(nsz) = {start - 4, end - 8}
  BY <1>1, <1>3 DEF TagWords
<1>5. DOMAIN m = Words /\ start - 4 \in Words /\ end - 8 \in Words
  <2>1. end <= MAX_HEAP /\ MAX_HEAP \in Nat
    BY <1>1, EndFacts
  <2>2. end - 8 \in Nat /\ (end - 8) % 4 = 0 /\ end - 8 + 4 <= MAX_HEAP
    BY <1>1, <2>1
  <2> QED BY <1>1, <2>2, WordFacts, IsWord DEF Heap, Marked
<1>6. start + (end - start) - 8 = end - 8
  BY <1>1
<1>7. /\ DOMAIN m2 = Words
      /\ m2[start - 4] = PACK(end - start, alloc) /\ m2[end - 8] = PACK(end - start, alloc)
      /\ \A a \in Words \ {start - 4, end - 8} : m2[a] = m[a]
  BY <1>1, <1>5, <1>6 DEF Tagged
<1>8. Only(m2, m, TagWords(nsz))
  BY <1>4, <1>7 DEF Only
<1>9. start \notin Outside(sz, start, end)
  BY <1>1 DEF Outside
<1>10. Tag(nsz, U2, start) = PACK(end - start, alloc)
  BY <1>3, <1>9 DEF Tag
<1>11. \A n \in DOMAIN nsz : m2[n - 4] = Tag(nsz, U2, n) /\ m2[n + nsz[n] - 8] = Tag(nsz, U2, n)
  BY <1>3, <1>6, <1>7, <1>10
<1>12. /\ U2 \subseteq Outside(sz, start, end) \cup DOMAIN nsz
       /\ \A b \in Outside(sz, start, end) : b \in U2 <=> b \in U
  BY <1>3, <1>9
<1> HIDE DEF nsz
<1>13. Heap(m2, brk, Recut(sz, start, end, nsz), U2, F)
  BY <1>2, <1>8, <1>11, <1>12, HeapRecut
<1> QED BY <1>8, <1>13 DEF nsz

\* ... and with two blocks.
LEMMA TagTwo ==
  ASSUME NEW m, NEW brk, NEW sz, NEW U, NEW F, Heap(m, brk, sz, U, F),
         NEW start \in Nat, start \in DOMAIN sz \ {HeapList},
         NEW end \in Nat, end \in DOMAIN sz \cup {brk},
         NEW mid \in Nat, mid % 8 = 0, start + 16 <= mid, mid + 16 <= end,
         F \subseteq Outside(sz, start, end), NEW low \in {0, 1}, NEW high \in {0, 1},
         NEW U2, U2 \subseteq Outside(sz, start, end) \cup {start, mid},
         \A b \in Outside(sz, start, end) : b \in U2 <=> b \in U,
         start \in U2 <=> low = 1, mid \in U2 <=> high = 1,
         NEW s1 \in Nat, mid = start + s1, NEW s2 \in Nat, end = mid + s2,
         NEW m2, m2 = Tagged(Tagged(m, start, s1, low), mid, s2, high)
  PROVE  /\ Heap(m2, brk, Recut(sz, start, end, TwoPieces(start, mid, end)), U2, F)
         /\ Only(m2, m, TagWords(TwoPieces(start, mid, end)))
<1> DEFINE nsz == TwoPieces(start, mid, end)
<1>1. /\ Shape(brk, sz) /\ start \in Nat /\ end \in Nat /\ start % 8 = 0 /\ end % 8 = 0
      /\ end <= MAX_HEAP /\ start >= 16 /\ MAX_HEAP \in Nat
      /\ s1 = mid - start /\ s2 = end - mid
  <2>1. Shape(brk, sz)
    BY DEF Heap
  <2> QED BY <2>1, BlockFacts, EndFacts
<1>2. Cut(start, end, nsz)
  BY <1>1, CutTwo
<1>3. DOMAIN nsz = {start, mid} /\ nsz[start] = mid - start /\ nsz[mid] = end - mid
  BY <1>1 DEF TwoPieces
<1>4. start + (mid - start) - 8 = mid - 8 /\ mid + (end - mid) - 8 = end - 8
  BY <1>1
<1>5. TagWords(nsz) = {start - 4, mid - 8, mid - 4, end - 8}
  <2> HIDE DEF nsz
  <2> QED BY <1>3, <1>4 DEF TagWords
<1>6. /\ DOMAIN m = Words /\ start - 4 \in Words /\ end - 8 \in Words
      /\ mid - 8 \in Words /\ mid - 4 \in Words
  <2>1. /\ end - 8 \in Nat /\ (end - 8) % 4 = 0 /\ end - 8 + 4 <= MAX_HEAP
        /\ mid - 8 \in Nat /\ (mid - 8) % 4 = 0 /\ mid - 8 + 4 <= MAX_HEAP
        /\ mid - 4 \in Nat /\ (mid - 4) % 4 = 0 /\ mid - 4 + 4 <= MAX_HEAP
    BY <1>1
  <2> QED BY <1>1, <2>1, WordFacts, IsWord DEF Heap, Marked
<1>7. /\ DOMAIN m2 = Words
      /\ m2[start - 4] = PACK(mid - start, low) /\ m2[mid - 8] = PACK(mid - start, low)
      /\ m2[mid - 4] = PACK(end - mid, high) /\ m2[end - 8] = PACK(end - mid, high)
      /\ \A a \in Words \ {start - 4, mid - 8, mid - 4, end - 8} : m2[a] = m[a]
  <2>1. start - 4 < mid - 8 /\ mid - 8 < mid - 4 /\ mid - 4 < end - 8
    BY <1>1
  <2> QED BY <1>1, <1>4, <1>6, <2>1 DEF Tagged
<1>8. Only(m2, m, TagWords(nsz))
  BY <1>5, <1>7 DEF Only
<1>9. start \notin Outside(sz, start, end) /\ mid \notin Outside(sz, start, end) /\ start # mid
  BY <1>1 DEF Outside
<1>10. Tag(nsz, U2, start) = PACK(mid - start, low) /\ Tag(nsz, U2, mid) = PACK(end - mid, high)
  BY <1>3, <1>9 DEF Tag
<1>11. \A n \in DOMAIN nsz : m2[n - 4] = Tag(nsz, U2, n) /\ m2[n + nsz[n] - 8] = Tag(nsz, U2, n)
  BY <1>3, <1>4, <1>7, <1>10
<1>12. /\ U2 \subseteq Outside(sz, start, end) \cup DOMAIN nsz
       /\ \A b \in Outside(sz, start, end) : b \in U2 <=> b \in U
  BY <1>3, <1>9
<1>14. start < end
  BY <1>1
<1> HIDE DEF nsz
<1>13. Heap(m2, brk, Recut(sz, start, end, nsz), U2, F)
  BY <1>2, <1>8, <1>11, <1>12, <1>14, HeapRecut
<1> QED BY <1>8, <1>13 DEF nsz

-----------------------------------------------------------------------------
(* Unlinking a block and linking one.                                       *)

\* Memory says of every block how large it is and whether it is in use.
LEMMA ReadTags ==
  ASSUME NEW m, NEW brk, NEW sz, NEW U, Shape(brk, sz), Marked(m, brk, sz, U),
         NEW b \in DOMAIN sz
  PROVE  /\ Size(m, b) = sz[b] /\ SizeIn(m[b + sz[b] - 8]) = sz[b]
         /\ Allocated(m, b) <=> b \in U
         /\ NextBlk(m, b) = b + sz[b]
<1>1. sz[b] \in Nat /\ sz[b] % 8 = 0
  BY DEF Shape
<1>2. m[b - 4] = Tag(sz, U, b) /\ m[b + sz[b] - 8] = Tag(sz, U, b)
  BY DEF Marked
<1>3. /\ SizeIn(PACK(sz[b], 0)) = sz[b] /\ PACK(sz[b], 0) % 2 = 0
      /\ SizeIn(PACK(sz[b], 1)) = sz[b] /\ PACK(sz[b], 1) % 2 = 1
  BY <1>1, Unpacked
<1>4. SizeIn(Tag(sz, U, b)) = sz[b] /\ (Tag(sz, U, b) % 2 = 1 <=> b \in U)
  BY <1>3 DEF Tag
<1> QED BY <1>2, <1>4 DEF Size, Allocated, NextBlk

\* The epilogue is a block in use of size 0.
LEMMA ReadEpilogue ==
  ASSUME NEW m, NEW brk, NEW sz, NEW U, Marked(m, brk, sz, U)
  PROVE  Size(m, brk) = 0 /\ Allocated(m, brk)
<1>1. m[brk - 4] = 1
  BY DEF Marked
<1>2. SizeIn(1) = 0 /\ 1 % 2 = 1
  BY DEF SizeIn
<1> QED BY <1>1, <1>2 DEF Size, Allocated

\* The words of the lists are all different.
LEMMA LinkCells ==
  ASSUME NEW brk, NEW sz, Shape(brk, sz), NEW F, F \subseteq DOMAIN sz \ {HeapList}
  PROVE  /\ \A c \in F : c # 0 /\ c \in Words /\ c + 4 \in Words /\ c \in Nat
         /\ \A i, j \in Lists : i * 4 = j * 4 => i = j
         /\ \A i \in Lists, c \in F : i * 4 # c /\ i * 4 # c + 4
         /\ \A c, d \in F : c # d + 4 /\ (c + 4 = d + 4 => c = d)
<1>1. \A c \in F : /\ c # 0 /\ c \in Words /\ c + 4 \in Words /\ c \in Nat /\ c % 8 = 0
                   /\ HeapList + 8 <= c
  BY BlockFacts, WordFacts
<1>2. \A i, j \in Lists : i * 4 = j * 4 => i = j
  BY ListAssumption DEF Lists
<1>3. \A i \in Lists, c \in F : i * 4 # c /\ i * 4 # c + 4
  BY <1>1, PrologueFacts
<1>4. ASSUME NEW c \in F, NEW d \in F PROVE c # d + 4 /\ (c + 4 = d + 4 => c = d)
  <2>1. c \in Nat /\ d \in Nat /\ c % 8 = 0 /\ d % 8 = 0
    BY <1>1
  <2> QED BY <2>1
<1> QED BY <1>1, <1>2, <1>3, <1>4

LEMMA OffsetFacts ==
  ASSUME NEW brk, NEW sz, Shape(brk, sz), NEW F, F \subseteq DOMAIN sz \ {HeapList},
         NEW x \in F \cup {NULL}
  PROVE  Address(Offset(x)) = x /\ (Offset(x) = 0 <=> x = NULL)
<1>1. x # NULL => x \in Nat /\ HeapList \in Nat /\ HeapList + 8 <= x
  BY BlockFacts
<1> QED BY <1>1 DEF Address, Offset

LEMMA ChainedRemove ==
  ASSUME NEW F, NULL \notin F, NEW sz, NEW hd, NEW nx, NEW pv, NEW rk,
         Chained(F, sz, hd, nx, pv, rk), NEW b \in F,
         NEW hd2, \A i \in Lists : hd2[i] = IF hd[i] = b THEN nx[b] ELSE hd[i],
         NEW nx2, \A c \in F : nx2[c] = IF nx[c] = b THEN nx[b] ELSE nx[c],
         NEW pv2, \A c \in F : pv2[c] = IF pv[c] = b THEN pv[b] ELSE pv[c]
  PROVE  Chained(F \ {b}, sz, hd2, nx2, pv2, rk)
<1>1. nx[b] # b /\ pv[b] # b
  BY DEF Chained
<1>2. ASSUME NEW i \in Lists
      PROVE  hd2[i] = NULL \/ /\ hd2[i] \in F \ {b} /\ ListIndex(sz[hd2[i]]) = i
                              /\ pv2[hd2[i]] = NULL
  BY <1>1 DEF Chained
<1>3. ASSUME NEW c \in F \ {b}
      PROVE  /\ rk[c] \in Nat
             /\ nx2[c] = NULL \/ /\ nx2[c] \in F \ {b} /\ ListIndex(sz[nx2[c]]) = ListIndex(sz[c])
                                 /\ pv2[nx2[c]] = c /\ rk[nx2[c]] < rk[c]
  <2>1. CASE nx[c] = b
    BY <1>1, <2>1 DEF Chained
  <2>2. CASE nx[c] # b
    BY <1>1, <2>2 DEF Chained
  <2> QED BY <2>1, <2>2
<1>4. ASSUME NEW c \in F \ {b}
      PROVE  IF pv2[c] = NULL THEN hd2[ListIndex(sz[c])] = c
             ELSE pv2[c] \in F \ {b} /\ ListIndex(sz[pv2[c]]) = ListIndex(sz[c]) /\ nx2[pv2[c]] = c
  <2>1. CASE pv[c] = b
    BY <1>1, <2>1, ListIndexFacts DEF Chained
  <2>2. CASE pv[c] # b
    BY <1>1, <2>2, ListIndexFacts DEF Chained
  <2> QED BY <2>1, <2>2
<1> QED BY <1>2, <1>3, <1>4 DEF Chained

LEMMA ChainedInsert ==
  ASSUME NEW F, NULL \notin F, NEW sz, NEW hd, NEW nx, NEW pv, NEW rk,
         Chained(F, sz, hd, nx, pv, rk), NEW b, b \notin F, b # NULL,
         NEW hd2, \A i \in Lists : hd2[i] = IF i = ListIndex(sz[b]) THEN b ELSE hd[i],
         NEW nx2, \A c \in F \cup {b} : nx2[c] = IF c = b THEN hd[ListIndex(sz[b])] ELSE nx[c],
         NEW pv2, \A c \in F \cup {b} : pv2[c] = IF c = b THEN NULL
                                                 ELSE IF c = hd[ListIndex(sz[b])] THEN b
                                                 ELSE pv[c],
         NEW rk2, \A c \in F : rk2[c] = rk[c],
         rk2[b] = IF hd[ListIndex(sz[b])] = NULL THEN 0 ELSE rk[hd[ListIndex(sz[b])]] + 1
  PROVE  Chained(F \cup {b}, sz, hd2, nx2, pv2, rk2)
<1> DEFINE G == F \cup {b}
<1>1. ListIndex(sz[b]) \in Lists
  BY ListIndexFacts
<1>2. ASSUME NEW i \in Lists
      PROVE  hd2[i] = NULL \/ /\ hd2[i] \in G /\ ListIndex(sz[hd2[i]]) = i
                              /\ pv2[hd2[i]] = NULL
  <2>1. CASE i = ListIndex(sz[b])
    BY <2>1
  <2>2. CASE i # ListIndex(sz[b])
    BY <1>1, <2>2 DEF Chained
  <2> QED BY <2>1, <2>2
<1>3. ASSUME NEW c \in G
      PROVE  /\ rk2[c] \in Nat
             /\ nx2[c] = NULL \/ /\ nx2[c] \in G /\ ListIndex(sz[nx2[c]]) = ListIndex(sz[c])
                                 /\ pv2[nx2[c]] = c /\ rk2[nx2[c]] < rk2[c]
  <2>1. CASE c = b
    BY <1>1, <2>1 DEF Chained
  <2>2. CASE c # b
    BY <1>1, <2>2 DEF Chained
  <2> QED BY <2>1, <2>2
<1>4. ASSUME NEW c \in G
      PROVE  IF pv2[c] = NULL THEN hd2[ListIndex(sz[c])] = c
             ELSE pv2[c] \in G /\ ListIndex(sz[pv2[c]]) = ListIndex(sz[c]) /\ nx2[pv2[c]] = c
  <2>1. CASE c = b
    BY <1>1, <2>1
  <2>2. CASE c # b /\ c = hd[ListIndex(sz[b])]
    BY <1>1, <2>2 DEF Chained
  <2>3. CASE c # b /\ c # hd[ListIndex(sz[b])]
    <3>1. pv[c] # b /\ pv2[c] = pv[c] /\ ListIndex(sz[c]) \in Lists
      BY <2>3, ListIndexFacts DEF Chained
    <3> QED BY <1>1, <2>3, <3>1 DEF Chained
  <2> QED BY <2>1, <2>2, <2>3
<1> QED BY <1>2, <1>3, <1>4 DEF Chained

\* Links are written between the tags, so that these stay as they are.
LEMMA MarkedStays ==
  ASSUME NEW m, NEW brk, NEW sz, NEW U, Shape(brk, sz), Marked(m, brk, sz, U),
         NEW F, F \subseteq DOMAIN sz \ {HeapList}, NEW m2, Only(m2, m, LinkWords(F))
  PROVE  Marked(m2, brk, sz, U)
<1>1. brk - 4 \in Words \ LinkWords(F)
  BY WordFacts, TagsAreNotLinks
<1>2. \A b \in DOMAIN sz : /\ b - 4 \in Words \ LinkWords(F)
                           /\ b + sz[b] - 8 \in Words \ LinkWords(F)
  BY WordFacts, TagsAreNotLinks DEF TagWords
<1> QED BY <1>1, <1>2 DEF Marked, Only

LEMMA Removed ==
  ASSUME NEW m, NEW brk, NEW sz, NEW U, NEW F, Heap(m, brk, sz, U, F), NEW b \in F,
         NEW m2, m2 = RemoveFree(m, b)
  PROVE  Heap(m2, brk, sz, U, F \ {b}) /\ Only(m2, m, LinkWords(F))
<1> DEFINE idx == ListIndex(sz[b])
<1>0. /\ Shape(brk, sz) /\ Marked(m, brk, sz, U) /\ F \subseteq DOMAIN sz \ {HeapList}
      /\ b \in DOMAIN sz /\ DOMAIN m = Words /\ idx \in Lists
  BY ListIndexFacts DEF Heap, Marked
<1>1. PICK hd, nx, pv, rk : Chained(F, sz, hd, nx, pv, rk) /\ Stored(m, F, hd, nx, pv)
  BY DEF Heap, Linked
<1>2. NULL \notin F /\ \A i \in Lists : i * 4 \in Words
  BY <1>0, LinkCells, WordFacts
<1>3. nx[b] \in F \cup {NULL} /\ pv[b] \in F \cup {NULL} /\ nx[b] # b
  <2>1. rk[b] \in Nat /\ (nx[b] = NULL \/ (nx[b] \in F /\ rk[nx[b]] < rk[b]))
    <3>1. /\ rk[b] \in Nat
          /\ nx[b] = NULL \/ /\ nx[b] \in F /\ ListIndex(sz[nx[b]]) = ListIndex(sz[b])
                             /\ pv[nx[b]] = b /\ rk[nx[b]] < rk[b]
      BY <1>1 DEF Chained
    <3> QED BY <3>1
  <2>2. pv[b] = NULL \/ pv[b] \in F
    <3>1. IF pv[b] = NULL THEN hd[ListIndex(sz[b])] = b
          ELSE pv[b] \in F /\ ListIndex(sz[pv[b]]) = ListIndex(sz[b]) /\ nx[pv[b]] = b
      BY <1>1 DEF Chained
    <3> QED BY <3>1
  <2>3. nx[b] # b
    BY <1>2, <2>1
  <2> QED BY <2>1, <2>2, <2>3
<1>4. /\ m[b] = Offset(pv[b]) /\ m[b + 4] = Offset(nx[b])
      /\ Address(m[b]) = pv[b] /\ Address(m[b + 4]) = nx[b]
      /\ (m[b] = 0 <=> pv[b] = NULL) /\ (m[b + 4] = 0 <=> nx[b] = NULL)
  BY <1>0, <1>1, <1>3, OffsetFacts DEF Stored
<1>5. Size(m, b) = sz[b]
  BY <1>0, ReadTags
<1> DEFINE cell == IF pv[b] = NULL THEN idx * 4 ELSE pv[b] + 4
           ahead == [m EXCEPT ![cell] = Offset(nx[b])]
<1>6. m2 = IF nx[b] = NULL THEN ahead ELSE [ahead EXCEPT ![nx[b]] = Offset(pv[b])]
  BY <1>4, <1>5 DEF RemoveFree
<1>7. cell \in Words /\ (nx[b] # NULL => nx[b] \in Words /\ nx[b] # cell)
  BY <1>0, <1>2, <1>3, LinkCells
<1>8. /\ DOMAIN m2 = Words
      /\ m2[cell] = Offset(nx[b])
      /\ nx[b] # NULL => m2[nx[b]] = Offset(pv[b])
      /\ \A a \in Words : a # cell /\ (nx[b] = NULL \/ a # nx[b]) => m2[a] = m[a]
  BY <1>0, <1>6, <1>7
<1> HIDE DEF cell
<1>9. Only(m2, m, LinkWords(F))
  <2>1. cell \in LinkWords(F) /\ (nx[b] # NULL => nx[b] \in LinkWords(F))
    BY <1>0, <1>3 DEF LinkWords, cell
  <2> QED BY <1>8, <2>1 DEF Only
<1> DEFINE hd2 == [i \in Lists |-> IF hd[i] = b THEN nx[b] ELSE hd[i]]
           nx2 == [c \in F |-> IF nx[c] = b THEN nx[b] ELSE nx[c]]
           pv2 == [c \in F |-> IF pv[c] = b THEN pv[b] ELSE pv[c]]
<1>10. Chained(F \ {b}, sz, hd2, nx2, pv2, rk)
  BY <1>1, <1>2, ChainedRemove
<1>11. ASSUME NEW i \in Lists PROVE m2[i * 4] = Offset(hd2[i])
  <2>1. hd[i] = b <=> pv[b] = NULL /\ i = idx
    BY <1>0, <1>1, <1>2 DEF Chained
  <2>2. nx[b] = NULL \/ i * 4 # nx[b]
    BY <1>0, <1>3, LinkCells
  <2>3. i * 4 = cell <=> hd[i] = b
    BY <1>0, <1>3, <2>1, LinkCells DEF cell
  <2> QED BY <1>1, <1>2, <1>8, <2>2, <2>3 DEF Stored
<1>12. ASSUME NEW c \in F PROVE m2[c] = Offset(pv2[c])
  <2>1. pv[c] = b <=> nx[b] = c
    BY <1>1, <1>2 DEF Chained
  <2>2. c # cell /\ c \in Words /\ c # NULL
    BY <1>0, <1>3, LinkCells DEF cell
  <2> QED BY <1>1, <1>8, <2>1, <2>2 DEF Stored
<1>13. ASSUME NEW c \in F PROVE m2[c + 4] = Offset(nx2[c])
  <2>1. nx[c] = b <=> pv[b] = c
    BY <1>1, <1>2 DEF Chained
  <2>2. (nx[b] = NULL \/ c + 4 # nx[b]) /\ c + 4 \in Words /\ c # NULL
    BY <1>0, <1>3, LinkCells
  <2>3. c + 4 = cell <=> pv[b] = c
    BY <1>0, <1>3, <2>2, LinkCells DEF cell
  <2> QED BY <1>1, <1>8, <2>1, <2>2, <2>3 DEF Stored
<1>14. Stored(m2, F \ {b}, hd2, nx2, pv2)
  BY <1>11, <1>12, <1>13 DEF Stored
<1>15. Linked(m2, F \ {b}, sz)
  BY <1>10, <1>14 DEF Linked
<1>16. Marked(m2, brk, sz, U)
  BY <1>0, <1>9, MarkedStays
<1> QED BY <1>9, <1>15, <1>16 DEF Heap

LEMMA Inserted ==
  ASSUME NEW m, NEW brk, NEW sz, NEW U, NEW F, Heap(m, brk, sz, U, F),
         NEW b \in DOMAIN sz \ U, b \notin F, NEW m2, m2 = InsertFree(m, b)
  PROVE  Heap(m2, brk, sz, U, F \cup {b}) /\ Only(m2, m, LinkWords(F \cup {b}))
<1> DEFINE idx == ListIndex(sz[b])
           G == F \cup {b}
<1>0. /\ Shape(brk, sz) /\ Marked(m, brk, sz, U) /\ G \subseteq DOMAIN sz \ {HeapList}
      /\ DOMAIN m = Words /\ idx \in Lists
  BY ListIndexFacts DEF Heap, Marked
<1>1. PICK hd, nx, pv, rk : Chained(F, sz, hd, nx, pv, rk) /\ Stored(m, F, hd, nx, pv)
  BY DEF Heap, Linked
<1>2. NULL \notin G /\ \A i \in Lists : i * 4 \in Words
  BY <1>0, LinkCells, WordFacts
<1>c. /\ b \in G /\ F \subseteq G
      /\ \A c \in G : c # 0 /\ c \in Words /\ c + 4 \in Words /\ c \in Nat
      /\ \A i, j \in Lists : i * 4 = j * 4 => i = j
      /\ \A i \in Lists, c \in G : i * 4 # c /\ i * 4 # c + 4
      /\ \A c, d \in G : c # d + 4 /\ (c + 4 = d + 4 => c = d)
  <2>1. b \in G /\ F \subseteq G
    OBVIOUS
  <2> HIDE DEF G
  <2> QED BY <1>0, <2>1, LinkCells
<1>3. hd[idx] \in F \cup {NULL} /\ hd[idx] # b
  BY <1>0, <1>1, <1>2 DEF Chained
<1>4. /\ m[idx * 4] = Offset(hd[idx]) /\ Address(m[idx * 4]) = hd[idx]
      /\ (m[idx * 4] = 0 <=> hd[idx] = NULL)
  <2>1. m[idx * 4] = Offset(hd[idx])
    BY <1>0, <1>1 DEF Stored
  <2> QED BY <1>0, <1>3, <2>1, OffsetFacts
<1>5. Size(m, b) = sz[b] /\ b - HeapList = Offset(b)
  BY <1>0, <1>2, ReadTags DEF Offset
<1> DEFINE linked == IF hd[idx] = NULL THEN m ELSE [m EXCEPT ![hd[idx]] = Offset(b)]
<1>6. m2 = [linked EXCEPT ![b] = 0, ![b + 4] = Offset(hd[idx]), ![idx * 4] = Offset(b)]
  BY <1>4, <1>5 DEF InsertFree
<1>7. /\ b \in Words /\ b + 4 \in Words /\ b # b + 4 /\ idx * 4 \in Words
      /\ idx * 4 # b /\ idx * 4 # b + 4
      /\ hd[idx] # NULL => /\ hd[idx] \in Words /\ hd[idx] # idx * 4
                           /\ hd[idx] # b /\ hd[idx] # b + 4
  BY <1>0, <1>2, <1>3, <1>c
<1>8. /\ DOMAIN m2 = Words
      /\ m2[b] = 0 /\ m2[b + 4] = Offset(hd[idx]) /\ m2[idx * 4] = Offset(b)
      /\ hd[idx] # NULL => m2[hd[idx]] = Offset(b)
      /\ \A a \in Words : /\ a # b /\ a # b + 4 /\ a # idx * 4
                          /\ hd[idx] = NULL \/ a # hd[idx]
                          => m2[a] = m[a]
  BY <1>0, <1>6, <1>7
<1>9. Only(m2, m, LinkWords(G))
  <2>1. /\ b \in LinkWords(G) /\ b + 4 \in LinkWords(G) /\ idx * 4 \in LinkWords(G)
        /\ hd[idx] # NULL => hd[idx] \in LinkWords(G)
    BY <1>0, <1>3 DEF LinkWords
  <2> QED BY <1>8, <2>1 DEF Only
<1> DEFINE hd2 == [i \in Lists |-> IF i = idx THEN b ELSE hd[i]]
           nx2 == [c \in G |-> IF c = b THEN hd[idx] ELSE nx[c]]
           pv2 == [c \in G |-> IF c = b THEN NULL ELSE IF c = hd[idx] THEN b ELSE pv[c]]
           rk2 == [c \in G |-> IF c # b THEN rk[c]
                               ELSE IF hd[idx] = NULL THEN 0 ELSE rk[hd[idx]] + 1]
<1>10. Chained(G, sz, hd2, nx2, pv2, rk2)
  BY <1>1, <1>2, ChainedInsert
<1>11. ASSUME NEW i \in Lists PROVE m2[i * 4] = Offset(hd2[i])
  <2>1. CASE i = idx
    BY <1>8, <2>1
  <2>2. CASE i # idx
    <3>1. /\ i * 4 # b /\ i * 4 # b + 4 /\ i * 4 # idx * 4 /\ i * 4 \in Words
          /\ hd[idx] = NULL \/ i * 4 # hd[idx]
      BY <1>0, <1>2, <1>3, <2>2, <1>c
    <3> QED BY <1>1, <1>8, <2>2, <3>1 DEF Stored
  <2> QED BY <2>1, <2>2
<1>12. ASSUME NEW c \in G PROVE m2[c] = Offset(pv2[c])
  <2>1. CASE c = b
    BY <1>8, <2>1 DEF Offset
  <2>2. CASE c = hd[idx] /\ c # b
    BY <1>2, <1>8, <2>2
  <2>3. CASE c # hd[idx] /\ c # b
    <3>1. c # b /\ c # b + 4 /\ c # idx * 4 /\ c \in Words
      BY <1>0, <2>3, <1>c
    <3> QED BY <1>1, <1>8, <2>3, <3>1 DEF Stored
  <2> QED BY <2>1, <2>2, <2>3
<1>13. ASSUME NEW c \in G PROVE m2[c + 4] = Offset(nx2[c])
  <2>1. CASE c = b
    BY <1>8, <2>1
  <2>2. CASE c # b
    <3>1. /\ c + 4 # b /\ c + 4 # b + 4 /\ c + 4 # idx * 4 /\ c + 4 \in Words
          /\ hd[idx] = NULL \/ c + 4 # hd[idx]
      BY <1>0, <1>3, <2>2, <1>c
    <3> QED BY <1>1, <1>8, <2>2, <3>1 DEF Stored
  <2> QED BY <2>1, <2>2
<1>14. Stored(m2, G, hd2, nx2, pv2)
  BY <1>11, <1>12, <1>13 DEF Stored
<1>15. Linked(m2, G, sz)
  BY <1>10, <1>14 DEF Linked
<1>16. Marked(m2, brk, sz, U)
  BY <1>0, <1>9, MarkedStays
<1>17. G \subseteq DOMAIN sz \ U
  BY DEF Heap
<1> QED BY <1>9, <1>15, <1>16, <1>17 DEF Heap

-----------------------------------------------------------------------------
(* The routines of the allocator.                                           *)

\* Every free block is on a list, and no two of them are adjacent.
Good(m, brk, sz, U) ==
  /\ Heap(m, brk, sz, U, DOMAIN sz \ U)
  /\ \A b \in DOMAIN sz \ U : b + sz[b] \in U \cup {brk}

\* The blocks in V are where they were, as large as they were, and hold what
\* they held.
Keeps(m, sz, m2, sz2, V) ==
  \A b \in V : /\ b \in DOMAIN sz2 /\ sz2[b] = sz[b]
               /\ \A a \in Words : a \in b .. b + sz[b] - 9 => m2[a] = m[a]

LEMMA KeepsTrans ==
  ASSUME NEW m, NEW sz, NEW m2, NEW sz2, NEW m3, NEW sz3, NEW V,
         Keeps(m, sz, m2, sz2, V), Keeps(m2, sz2, m3, sz3, V)
  PROVE  Keeps(m, sz, m3, sz3, V)
BY DEF Keeps

LEMMA KeepsFewer ==
  ASSUME NEW m, NEW sz, NEW m2, NEW sz2, NEW V, Keeps(m, sz, m2, sz2, V),
         NEW V2, V2 \subseteq V
  PROVE  Keeps(m, sz, m2, sz2, V2)
BY DEF Keeps

\* The links of free blocks are not in the payloads of the others.
LEMMA KeptByLinks ==
  ASSUME NEW brk, NEW sz, Shape(brk, sz), NEW U, U \subseteq DOMAIN sz, HeapList \in U,
         NEW G, G \subseteq DOMAIN sz \ U,
         NEW m, NEW m2, Only(m2, m, LinkWords(G))
  PROVE  Keeps(m, sz, m2, sz, U)
<1> SUFFICES ASSUME NEW b \in U, NEW a \in Words, a \in b .. b + sz[b] - 9
             PROVE  a \notin LinkWords(G)
  BY DEF Keeps, Only
<1>1. b \in Nat /\ sz[b] \in Nat /\ HeapList <= b /\ HeapList \in Nat /\ b \in DOMAIN sz
  BY PrologueFacts DEF Shape
<1>2. ASSUME NEW i \in Lists PROVE a # i * 4
  BY <1>1, PrologueFacts
<1>3. ASSUME NEW c \in G PROVE a # c /\ a # c + 4
  <2>1. c \in Nat /\ sz[c] \in Nat /\ sz[c] >= 16 /\ c # b /\ c \in DOMAIN sz
    BY BlockFacts
  <2>2. b + sz[b] <= c \/ c + sz[c] <= b
    BY <1>1, <2>1, Apart
  <2> QED BY <1>1, <2>1, <2>2
<1> QED BY <1>2, <1>3 DEF LinkWords

LEMMA RecutFacts ==
  ASSUME NEW sz, NEW start, NEW end, NEW nsz
  PROVE  /\ DOMAIN Recut(sz, start, end, nsz) = Outside(sz, start, end) \cup DOMAIN nsz
         /\ \A b \in DOMAIN nsz : Recut(sz, start, end, nsz)[b] = nsz[b]
         /\ \A b \in Outside(sz, start, end) \ DOMAIN nsz :
              b \in DOMAIN sz /\ Recut(sz, start, end, nsz)[b] = sz[b]
BY DEF Recut, Outside

\* The tags of the blocks from start to end are not in the payloads of others.
LEMMA KeptByTags ==
  ASSUME NEW brk, NEW sz, Shape(brk, sz), NEW start \in DOMAIN sz \ {HeapList},
         NEW end \in DOMAIN sz \cup {brk}, start < end, NEW nsz, Cut(start, end, nsz),
         NEW V, V \subseteq Outside(sz, start, end),
         NEW m, NEW m2, Only(m2, m, TagWords(nsz))
  PROVE  Keeps(m, sz, m2, Recut(sz, start, end, nsz), V)
<1>1. start \in Nat /\ end \in Nat
  BY BlockFacts, EndFacts
<1>2. ASSUME NEW b \in V
      PROVE  /\ b \in DOMAIN sz /\ b \notin DOMAIN nsz /\ b \in Nat /\ sz[b] \in Nat
             /\ (b < start /\ b + sz[b] <= start) \/ b >= end
  <2>1. b \in DOMAIN sz /\ (b < start \/ b >= end)
    BY DEF Outside
  <2>2. b \in Nat /\ sz[b] \in Nat /\ (b < start => b + sz[b] <= start)
    BY <2>1, ShapeFacts DEF Shape
  <2>3. b \notin DOMAIN nsz
    BY <1>1, <2>1, <2>2, CutFacts
  <2> QED BY <2>1, <2>2, <2>3
<1>3. ASSUME NEW b \in V, NEW a \in Words, a \in b .. b + sz[b] - 9
      PROVE  m2[a] = m[a]
  <2>1. ASSUME NEW n \in DOMAIN nsz PROVE a # n - 4 /\ a # n + nsz[n] - 8
    <3>1. n \in Nat /\ nsz[n] \in Nat /\ nsz[n] >= 16 /\ start <= n /\ n + nsz[n] <= end
      BY DEF Cut
    <3> QED BY <1>1, <1>2, <1>3, <3>1
  <2> QED BY <2>1 DEF Only, TagWords
<1>4. ASSUME NEW b \in V PROVE b \in DOMAIN Recut(sz, start, end, nsz)
                               /\ Recut(sz, start, end, nsz)[b] = sz[b]
  BY <1>2 DEF Recut
<1> QED BY <1>3, <1>4 DEF Keeps

\* coalesce() of a free block that is on no list, while of the others no two
\* are adjacent.
LEMMA Coalesced ==
  ASSUME NEW m, NEW brk, NEW sz, NEW U, NEW b \in DOMAIN sz \ U,
         Heap(m, brk, sz, U, (DOMAIN sz \ U) \ {b}),
         \A c \in (DOMAIN sz \ U) \ {b} : c + sz[c] \in U \cup {brk, b},
         NEW r, r = Coalesce(m, b)
  PROVE  \E sz2 : /\ Good(r.mem, brk, sz2, U) /\ Keeps(m, sz, r.mem, sz2, U)
                  /\ r.ptr \in DOMAIN sz2 \ U
                  /\ r.ptr <= b /\ b + sz[b] <= r.ptr + sz2[r.ptr]
<1> DEFINE F == (DOMAIN sz \ U) \ {b}
           n == b + sz[b]
<1>0. /\ Shape(brk, sz) /\ Marked(m, brk, sz, U) /\ U \subseteq DOMAIN sz /\ HeapList \in U
      /\ b \in DOMAIN sz \ {HeapList}
  BY DEF Heap
<1>1. PICK p \in DOMAIN sz : p + sz[p] = b
  BY <1>0 DEF Shape
<1>2. /\ b \in Nat /\ sz[b] \in Nat /\ sz[b] >= 16 /\ p \in Nat /\ sz[p] \in Nat /\ sz[p] >= 8
      /\ n \in DOMAIN sz \cup {brk} /\ n \in Nat
      /\ n \in DOMAIN sz => sz[n] \in Nat /\ sz[n] >= 8
  BY <1>0, <1>1, BlockFacts, ShapeFacts
<1>3. /\ PrevBlk(m, b) = p /\ NextBlk(m, b) = n /\ Size(m, b) = sz[b]
      /\ Size(m, p) = sz[p] /\ (Allocated(m, p) <=> p \in U)
  <2>1. b - 8 = p + sz[p] - 8 /\ b - sz[p] = p
    BY <1>1, <1>2
  <2>2. SizeIn(m[b - 8]) = sz[p]
    BY <1>0, <2>1, ReadTags
  <2> QED BY <1>0, <2>1, <2>2, ReadTags DEF PrevBlk
<1>4. /\ Allocated(m, n) <=> n \notin DOMAIN sz \ U
      /\ n \in DOMAIN sz \ U => Size(m, n) = sz[n]
  <2>1. brk \notin DOMAIN sz
    BY <1>0, ShapeFacts
  <2> QED BY <1>0, <1>2, <2>1, ReadTags, ReadEpilogue
<1> DEFINE start == IF p \in U THEN b ELSE p
           end == IF n \in DOMAIN sz \ U THEN n + sz[n] ELSE n
           P == IF p \in U THEN {} ELSE {p}
           Q == IF n \in DOMAIN sz \ U THEN {n} ELSE {}
           m1 == IF n \in DOMAIN sz \ U THEN RemoveFree(m, n) ELSE m
           m2 == IF p \in U THEN m1 ELSE RemoveFree(m1, p)
           m3 == Tagged(m2, start, end - start, 0)
           sz3 == Recut(sz, start, end, OnePiece(start, end))
<1>5. r.mem = InsertFree(m3, start) /\ r.ptr = start
  <2>1. Size(m, b) + (IF Allocated(m, p) THEN 0 ELSE Size(m, p))
                   + (IF Allocated(m, n) THEN 0 ELSE Size(m, n)) = end - start
    BY <1>1, <1>2, <1>3, <1>4
  <2>2. /\ start = (IF Allocated(m, p) THEN b ELSE p)
        /\ m1 = (IF Allocated(m, n) THEN m ELSE RemoveFree(m, n))
        /\ m2 = (IF Allocated(m, p) THEN m1 ELSE RemoveFree(m1, p))
    BY <1>3, <1>4
  <2> HIDE DEF start, end, m1, m2
  <2> QED BY <1>3, <2>1, <2>2 DEF Coalesce
<1>6. Heap(m1, brk, sz, U, F \ Q) /\ Keeps(m, sz, m1, sz, U)
  <2>1. CASE n \in DOMAIN sz \ U
    <3>1. n \in F
      BY <1>2, <2>1
    <3>2. Heap(m1, brk, sz, U, F \ {n}) /\ Only(m1, m, LinkWords(F))
      BY <2>1, <3>1, Removed
    <3>3. Keeps(m, sz, m1, sz, U)
      <4> HIDE DEF m1
      <4> QED BY <1>0, <3>2, KeptByLinks
    <3> QED BY <2>1, <3>2, <3>3
  <2>2. CASE n \notin DOMAIN sz \ U
    <3>1. m1 = m /\ F \ Q = F
      BY <2>2
    <3>2. Keeps(m, sz, m, sz, U)
      BY <1>0 DEF Keeps
    <3> HIDE DEF m1, Q
    <3> QED BY <3>1, <3>2
  <2> QED BY <2>1, <2>2
<1>7. Heap(m2, brk, sz, U, (F \ Q) \ P) /\ Keeps(m, sz, m2, sz, U)
  <2>1. CASE p \in U
    <3>1. m2 = m1 /\ (F \ Q) \ P = F \ Q
      BY <2>1
    <3> HIDE DEF m1, m2, Q, P
    <3> QED BY <1>6, <3>1
  <2>2. CASE p \notin U
    <3>1. p \in F \ Q
      BY <1>1, <1>2, <2>2
    <3>2. m2 = RemoveFree(m1, p) /\ P = {p}
      BY <2>2
    <3>3. F \ Q \subseteq DOMAIN sz \ U
      OBVIOUS
    <3> HIDE DEF m1, m2, Q, P, F
    <3>4. Heap(m2, brk, sz, U, (F \ Q) \ {p}) /\ Only(m2, m1, LinkWords(F \ Q))
      BY <1>6, <3>1, <3>2, Removed
    <3>5. Keeps(m1, sz, m2, sz, U)
      BY <1>0, <3>3, <3>4, KeptByLinks
    <3> QED BY <1>6, <3>2, <3>4, <3>5, KeepsTrans
  <2> QED BY <2>1, <2>2
<1>8. /\ start \in DOMAIN sz \ {HeapList} /\ start \in Nat /\ start <= b
      /\ end \in DOMAIN sz \cup {brk} /\ end \in Nat /\ n <= end /\ start < end
      /\ end \in U \cup {brk} /\ end \notin DOMAIN sz \ U
  <2>1. start \in DOMAIN sz \ {HeapList} /\ start \in Nat /\ start <= b
    BY <1>0, <1>1, <1>2
  <2>2. end \in U \cup {brk} /\ end \in Nat /\ n <= end
    <3>1. CASE n \in DOMAIN sz \ U
      <4>1. n \in F /\ n + sz[n] # b /\ n + sz[n] \in Nat
        BY <1>2, <3>1
      <4>2. n + sz[n] \in U \cup {brk, b}
        BY <4>1
      <4> QED BY <1>2, <3>1, <4>1, <4>2
    <3>2. CASE n \notin DOMAIN sz \ U
      BY <1>2, <3>2
    <3> QED BY <3>1, <3>2
  <2>3. brk \notin DOMAIN sz
    BY <1>0, ShapeFacts
  <2> HIDE DEF start, end
  <2> QED BY <1>0, <1>2, <2>1, <2>2, <2>3
<1>9. \A c \in DOMAIN sz : c \notin Outside(sz, start, end) => c = b \/ c \in P \/ c \in Q
  <2> SUFFICES ASSUME NEW c \in DOMAIN sz, c >= start, c < end
               PROVE  c = b \/ c \in P \/ c \in Q
    <3>1. \A c \in DOMAIN sz : c \in Nat
      BY <1>0, ShapeFacts
    <3> HIDE DEF start, end
    <3> QED BY <1>8, <3>1 DEF Outside
  <2>0. c \in Nat /\ sz[c] \in Nat /\ sz[c] >= 8
    BY <1>0, ShapeFacts
  <2>1. c # b => c + sz[c] <= b \/ n <= c
    BY <1>0, Apart
  <2>2. c # p => c + sz[c] <= p \/ b <= c
    BY <1>0, <1>1, Apart
  <2>3. n \in DOMAIN sz /\ c # n => c + sz[c] <= n \/ n + sz[n] <= c
    BY <1>0, Apart
  <2> QED BY <1>1, <1>2, <2>0, <2>1, <2>2, <2>3
<1>10. b \notin Outside(sz, start, end) /\ \A c \in P \cup Q : c \notin Outside(sz, start, end)
  BY <1>1, <1>2 DEF Outside
<1>11. U \subseteq Outside(sz, start, end) /\ (F \ Q) \ P = Outside(sz, start, end) \ U
  <2>1. \A c \in U : c # b /\ c \notin P /\ c \notin Q
    OBVIOUS
  <2>2. Outside(sz, start, end) \subseteq DOMAIN sz
    BY DEF Outside
  <2> HIDE DEF start, end, P, Q
  <2> QED BY <1>0, <1>9, <1>10, <2>1, <2>2
<1> DEFINE G == (F \ Q) \ P
           O == Outside(sz, start, end)
           nsz == OnePiece(start, end)
<1>12. Heap(m3, brk, sz3, U, G) /\ Only(m3, m2, TagWords(nsz))
  <2>1. U \subseteq O \cup {start} /\ (start \in U <=> 0 = 1)
    BY <1>11
  <2>2. G \subseteq O /\ Heap(m2, brk, sz, U, G)
    BY <1>7, <1>11
  <2>3. 0 \in {0, 1} /\ end - start \in Nat /\ end = start + (end - start)
    BY <1>8
  <2> HIDE DEF start, end, G, m2
  <2> DEFINE size == end - start
  <2>4. m3 = Tagged(m2, start, size, 0) /\ size \in Nat /\ end = start + size
    BY <1>8
  <2> HIDE DEF m3, size
  <2>5. Heap(m3, brk, Recut(sz, start, end, OnePiece(start, end)), U, G)
        /\ Only(m3, m2, TagWords(OnePiece(start, end)))
    <3>1. start \in DOMAIN sz \ {HeapList} /\ end \in DOMAIN sz \cup {brk} /\ start < end
      BY <1>8
    <3>2. G \subseteq Outside(sz, start, end) /\ U \subseteq Outside(sz, start, end) \cup {start}
          /\ Heap(m2, brk, sz, U, G) /\ (start \in U <=> 0 = 1)
      BY <2>1, <2>2
    <3>3. \A x \in Outside(sz, start, end) : x \in U <=> x \in U
      OBVIOUS
    <3> QED BY <2>3, <2>4, <3>1, <3>2, <3>3, TagOne, SMTT(30)
  <2> QED BY <2>5
<1>13. start \notin O /\ DOMAIN sz3 = O \cup {start} /\ sz3[start] = end - start
       /\ \A c \in O : c \in DOMAIN sz /\ sz3[c] = sz[c]
  <2>1. start \notin O
    BY <1>1, <1>10
  <2>2. DOMAIN nsz = {start} /\ nsz[start] = end - start
    BY DEF OnePiece
  <2> HIDE DEF start, end, nsz
  <2>3. sz3 = Recut(sz, start, end, nsz)
    BY DEF nsz
  <2>4. /\ DOMAIN sz3 = O \cup DOMAIN nsz /\ \A c \in DOMAIN nsz : sz3[c] = nsz[c]
        /\ \A c \in O \ DOMAIN nsz : c \in DOMAIN sz /\ sz3[c] = sz[c]
    <3> HIDE DEF sz3
    <3> QED BY <2>3 DEF Recut, Outside
  <2> HIDE DEF sz3, O
  <2> QED BY <2>1, <2>2, <2>4
<1>14. Keeps(m2, sz, m3, sz3, U)
  <2>1. Cut(start, end, nsz)
    <3>1. start % 8 = 0 /\ end % 8 = 0 /\ start + 16 <= end
      <4>1. start % 8 = 0 /\ end % 8 = 0
        <5> HIDE DEF start, end
        <5> QED BY <1>0, <1>8, BlockFacts, EndFacts
      <4> HIDE DEF start, end
      <4> QED BY <1>2, <1>8, <4>1
    <3> HIDE DEF start, end
    <3> QED BY <1>8, <3>1, CutOne
  <2> HIDE DEF start, end, m2, m3, nsz
  <2> QED BY <1>0, <1>8, <1>11, <1>12, <2>1, KeptByTags DEF nsz
<1> HIDE DEF start, end, m1, m2, m3, sz3, nsz, P, Q, F
<1>15. Heap(r.mem, brk, sz3, U, G \cup {start}) /\ Only(r.mem, m3, LinkWords(G \cup {start}))
  <2>1. start \in DOMAIN sz3 \ U /\ start \notin G
    BY <1>11, <1>13
  <2> QED BY <1>5, <1>12, <2>1, Inserted
<1>16. G \cup {start} = DOMAIN sz3 \ U
  BY <1>11, <1>13
<1>17. Keeps(m, sz, r.mem, sz3, U)
  <2>1. Keeps(m3, sz3, r.mem, sz3, U)
    <3>1. Shape(brk, sz3) /\ U \subseteq DOMAIN sz3 /\ HeapList \in U
      BY <1>12 DEF Heap
    <3> QED BY <1>15, <1>16, <3>1, KeptByLinks
  <2> QED BY <1>7, <1>14, <2>1, KeepsTrans
<1>18. ASSUME NEW c \in DOMAIN sz3 \ U PROVE c + sz3[c] \in U \cup {brk}
  <2>1. CASE c = start
    BY <1>8, <1>13, <2>1
  <2>2. CASE c # start
    <3>1. c \in G /\ c \in O /\ c \in DOMAIN sz \ U /\ sz3[c] = sz[c] /\ c # b
      BY <1>10, <1>11, <1>13, <2>2
    <3>2. c + sz[c] # b
      <4>1. c # p
        <5>1. p \notin U => p \in P
          BY DEF P
        <5> QED BY <1>10, <3>1, <5>1
      <4>2. c + sz[c] <= p \/ p + sz[p] <= c
        BY <1>0, <3>1, <4>1, Apart
      <4>3. c \in Nat /\ sz[c] \in Nat /\ sz[c] >= 8
        BY <1>0, <3>1, ShapeFacts
      <4> QED BY <1>1, <1>2, <4>2, <4>3
    <3>3. c + sz[c] \in U \cup {brk, b}
      BY <3>1
    <3> QED BY <3>1, <3>2, <3>3
  <2> QED BY <2>1, <2>2
<1>19. Good(r.mem, brk, sz3, U)
  BY <1>15, <1>16, <1>18 DEF Good
<1>20. r.ptr \in DOMAIN sz3 \ U /\ r.ptr <= b /\ b + sz[b] <= r.ptr + sz3[r.ptr]
  BY <1>2, <1>5, <1>8, <1>11, <1>13
<1> QED BY <1>17, <1>19, <1>20

\* There is a free block that reaches from the end of the heap h, or before it,
\* to the end of r.
Extends(h, sz, U, r) ==
  \E sz2 : /\ Good(r.mem, r.brk, sz2, U) /\ Keeps(h.mem, sz, r.mem, sz2, U)
           /\ r.ptr \in DOMAIN sz2 \ U
           /\ r.ptr <= h.brk /\ r.brk <= r.ptr + sz2[r.ptr]

\* extend_heap(): the heap is as it was, or there is a larger free block at its
\* end.
LEMMA Extended ==
  ASSUME NEW h, NEW sz, NEW U, Good(h.mem, h.brk, sz, U),
         NEW size \in Nat, size > 8, NEW r, r = ExtendHeap(h, size)
  PROVE  IF h.brk + ALIGN(size) > MAX_HEAP
         THEN r.mem = h.mem /\ r.brk = h.brk /\ r.ptr = NULL
         ELSE r.brk = h.brk + ALIGN(size) /\ Extends(h, sz, U, r)
<1> DEFINE m == h.mem
           brk == h.brk
           s == ALIGN(size)
           top == brk + s
<1>1. CASE top > MAX_HEAP
  BY <1>1 DEF ExtendHeap
<1>2. CASE ~(top > MAX_HEAP)
  <2> DEFINE sz1 == [c \in DOMAIN sz \cup {brk} |-> IF c = brk THEN s ELSE sz[c]]
             m1 == Tagged(m, brk, s, 0)
             m2 == [m1 EXCEPT ![top - WSIZE] = PACK(0, 1)]
             c == Coalesce(m2, brk)
             F == DOMAIN sz \ U
  <2>1. /\ Heap(m, brk, sz, U, F) /\ \A b \in F : b + sz[b] \in U \cup {brk}
    BY DEF Good
  <2>2. /\ Shape(brk, sz) /\ Marked(m, brk, sz, U) /\ Linked(m, F, sz)
        /\ U \subseteq DOMAIN sz /\ HeapList \in U /\ DOMAIN m = Words
    BY <2>1 DEF Heap, Marked
  <2>3. /\ brk \in Nat /\ brk % 8 = 0 /\ brk >= 24 /\ brk \notin DOMAIN sz /\ HeapList + 8 <= brk
        /\ s \in Nat /\ s % 8 = 0 /\ s >= 16 /\ top \in Nat /\ top % 8 = 0 /\ top <= MAX_HEAP
        /\ MAX_HEAP \in Nat /\ HeapList \in Nat
    <3>1. s \in Nat /\ s % 8 = 0 /\ s >= size
      BY RoundedUp
    <3>2. brk \in Nat /\ brk % 8 = 0 /\ HeapList + 8 <= brk /\ brk \notin DOMAIN sz
      BY <2>2, ShapeFacts, EndFacts
    <3> HIDE DEF s, brk
    <3> QED BY <1>2, <3>1, <3>2, PrologueFacts
  <2>4. /\ DOMAIN sz1 = DOMAIN sz \cup {brk} /\ sz1[brk] = s
        /\ \A b \in DOMAIN sz : sz1[b] = sz[b]
    BY <2>3
  <2> HIDE DEF brk, s, m, sz1
  <2>5. Shape(top, sz1)
    <3>1. HeapList \in DOMAIN sz1 /\ sz1[HeapList] = 8
      BY <2>2, <2>4 DEF Shape
    <3>2. ASSUME NEW b \in DOMAIN sz1
          PROVE  /\ b \in Nat /\ b % 8 = 0 /\ HeapList <= b
                 /\ sz1[b] \in Nat /\ sz1[b] % 8 = 0
                 /\ b # HeapList => sz1[b] >= 16
                 /\ b + sz1[b] <= top
                 /\ b + sz1[b] \in DOMAIN sz1 \cup {top}
      <4>1. CASE b = brk
        BY <2>3, <2>4, <4>1
      <4>2. CASE b \in DOMAIN sz
        <5>1. /\ b \in Nat /\ b % 8 = 0 /\ HeapList <= b
              /\ sz[b] \in Nat /\ sz[b] % 8 = 0
              /\ b # HeapList => sz[b] >= 16
              /\ b + sz[b] <= brk
              /\ b + sz[b] \in DOMAIN sz \cup {brk}
          BY <2>2, <4>2 DEF Shape
        <5>2. sz1[b] = sz[b] /\ b + sz[b] \in DOMAIN sz1 \cup {top}
          BY <2>4, <4>2, <5>1
        <5>3. b + sz[b] <= top
          BY <2>3, <5>1
        <5> QED BY <5>1, <5>2, <5>3
      <4> QED BY <2>4, <4>1, <4>2
    <3>3. ASSUME NEW b \in DOMAIN sz1, NEW d \in DOMAIN sz1, b < d PROVE b + sz1[b] <= d
      <4>1. b \in DOMAIN sz
        BY <2>2, <2>3, <2>4, <3>3, ShapeFacts
      <4>2. b + sz[b] <= brk /\ (d \in DOMAIN sz => b + sz[b] <= d)
        BY <2>2, <3>3, <4>1 DEF Shape
      <4> QED BY <2>4, <4>1, <4>2
    <3>4. ASSUME NEW d \in (DOMAIN sz1 \cup {top}) \ {HeapList}
          PROVE  \E b \in DOMAIN sz1 : b + sz1[b] = d
      <4>1. CASE d = top
        BY <2>3, <2>4, <4>1
      <4>2. CASE d \in DOMAIN sz \cup {brk}
        <5>1. PICK b \in DOMAIN sz : b + sz[b] = d
          BY <2>2, <4>2 DEF Shape
        <5> QED BY <2>4, <5>1
      <4> QED BY <2>4, <4>1, <4>2
    <3> HIDE DEF top
    <3> QED BY <2>3, <3>1, <3>2, <3>3, <3>4 DEF Shape
  <2>6. /\ DOMAIN m2 = Words
        /\ m2[brk - 4] = PACK(s, 0) /\ m2[top - 8] = PACK(s, 0) /\ m2[top - 4] = 1
        /\ \A a \in Words \ {brk - 4, top - 8, top - 4} : m2[a] = m[a]
    <3>1. brk - 4 \in Words /\ top - 8 \in Words /\ top - 4 \in Words
      <4>1. /\ brk - 4 \in Nat /\ (brk - 4) % 4 = 0 /\ brk - 4 + 4 <= MAX_HEAP
            /\ top - 8 \in Nat /\ (top - 8) % 4 = 0 /\ top - 8 + 4 <= MAX_HEAP
            /\ top - 4 \in Nat /\ (top - 4) % 4 = 0 /\ top - 4 + 4 <= MAX_HEAP
        BY <2>3
      <4> QED BY <4>1, IsWord
    <3>2. brk - 4 # top - 8 /\ brk - 4 # top - 4 /\ top - 8 # top - 4
      BY <2>3
    <3> QED BY <2>2, <2>3, <3>1, <3>2 DEF Tagged, PACK
  <2> HIDE DEF m2
  <2>7. Marked(m2, top, sz1, U)
    <3>1. ASSUME NEW b \in DOMAIN sz
          PROVE  m2[b - 4] = Tag(sz1, U, b) /\ m2[b + sz1[b] - 8] = Tag(sz1, U, b)
      <4>1. b \in Nat /\ sz[b] \in Nat /\ sz[b] >= 8 /\ b + sz[b] <= brk
        BY <2>2, ShapeFacts DEF Shape
      <4>2. /\ b - 4 # brk - 4 /\ b - 4 # top - 8 /\ b - 4 # top - 4
            /\ b + sz[b] - 8 # brk - 4 /\ b + sz[b] - 8 # top - 8 /\ b + sz[b] - 8 # top - 4
        BY <2>3, <4>1
      <4>3. b - 4 \in Words /\ b + sz[b] - 8 \in Words
        BY <2>2, WordFacts
      <4>4. m2[b - 4] = Tag(sz, U, b) /\ m2[b + sz[b] - 8] = Tag(sz, U, b)
        BY <2>2, <2>6, <4>2, <4>3 DEF Marked
      <4> QED BY <2>4, <4>4 DEF Tag
    <3>2. m2[brk - 4] = Tag(sz1, U, brk) /\ m2[brk + sz1[brk] - 8] = Tag(sz1, U, brk)
      BY <2>2, <2>3, <2>4, <2>6 DEF Tag
    <3> HIDE DEF top
    <3> QED BY <2>4, <2>6, <3>1, <3>2 DEF Marked
  <2>8. F \subseteq DOMAIN sz \ {HeapList} /\ F = (DOMAIN sz1 \ U) \ {brk}
    BY <2>2, <2>3, <2>4
  <2>9. ASSUME NEW a \in LinkWords(F) PROVE m2[a] = m[a]
    <3>1. a \in Words
      BY <2>2, <2>8, WordFacts DEF LinkWords
    <3>2. a # brk - 4 /\ a < brk - 4
      <4>1. CASE \E i \in Lists : a = i * 4
        BY <2>3, <4>1, PrologueFacts
      <4>2. ASSUME NEW b \in F, a = b \/ a = b + 4 PROVE a < brk - 4
        <5>1. b \in Nat /\ b + 16 <= brk
          BY <2>2, <2>8, ShapeFacts
        <5> QED BY <2>3, <4>2, <5>1
      <4>3. a < brk - 4
        BY <4>1, <4>2 DEF LinkWords
      <4> QED BY <2>3, <4>3
    <3>3. a # top - 8 /\ a # top - 4
      BY <2>3, <3>2
    <3> QED BY <2>6, <3>1, <3>2, <3>3
  <2>10. Linked(m2, F, sz1)
    BY <2>2, <2>4, <2>9, LinkedStays
  <2>11. Heap(m2, top, sz1, U, F)
    <3> HIDE DEF top, F
    <3> QED BY <2>2, <2>4, <2>5, <2>7, <2>8, <2>10 DEF Heap
  <2>12. Keeps(m, sz, m2, sz1, U)
    <3>1. ASSUME NEW b \in U, NEW a \in Words, a \in b .. b + sz[b] - 9 PROVE m2[a] = m[a]
      <4>1. b \in Nat /\ sz[b] \in Nat /\ b + sz[b] <= brk
        BY <2>2, ShapeFacts DEF Shape
      <4> QED BY <2>3, <2>6, <3>1, <4>1
    <3> QED BY <2>2, <2>4, <3>1 DEF Keeps
  <2>13. PICK sz2 : /\ Good(c.mem, top, sz2, U) /\ Keeps(m2, sz1, c.mem, sz2, U)
                    /\ c.ptr \in DOMAIN sz2 \ U
                    /\ c.ptr <= brk /\ brk + sz1[brk] <= c.ptr + sz2[c.ptr]
    <3>1. brk \in DOMAIN sz1 \ U
      BY <2>2, <2>3, <2>4
    <3>2. \A b \in F : b + sz1[b] \in U \cup {top, brk}
      BY <2>1, <2>4 DEF brk
    <3> HIDE DEF c, top, F
    <3> QED BY <2>8, <2>11, <3>1, <3>2, Coalesced DEF c
  <2>14. r.mem = c.mem /\ r.brk = top /\ r.ptr = c.ptr
    BY <1>2 DEF ExtendHeap, m2, m, brk, s
  <2>15. Keeps(m, sz, c.mem, sz2, U)
    BY <2>12, <2>13, KeepsTrans
  <2> QED BY <1>2, <2>4, <2>13, <2>14, <2>15 DEF m, brk, s, Extends
<1> QED BY <1>1, <1>2

\* The free blocks outside of the space from start to end are on their lists,
\* no two of them are adjacent, and none of them ends where the space begins,
\* unless that is where a block in use will begin.
Around(m, brk, sz, U, F, start, end, ends) ==
  /\ Heap(m, brk, sz, U, F)
  /\ start \in DOMAIN sz \ {HeapList} /\ end \in DOMAIN sz \cup {brk} /\ start < end
  /\ F = Outside(sz, start, end) \ U
  /\ \A c \in F : c + sz[c] \in (U \cap Outside(sz, start, end)) \cup ends

\* The heap is good with a block in use added to those in V, which are kept.
Uses(m, sz, m2, brk, V, bp, size) ==
  \E sz2 : /\ Good(m2, brk, sz2, V \cup {bp}) /\ Keeps(m, sz, m2, sz2, V)
           /\ bp \in DOMAIN sz2 /\ sz2[bp] = size /\ bp \notin V

\* A payload of the block bp, which is as large as size bytes, stays.
SamePayload(m, m2, bp, size) == \A a \in Words : a \in bp .. bp + size - 9 => m2[a] = m[a]

\* The space becomes one block in use ...
LEMMA OneUsed ==
  ASSUME NEW m, NEW brk, NEW sz, NEW U, NEW F, NEW start, NEW end,
         Around(m, brk, sz, U, F, start, end, {brk, start}),
         NEW size \in Nat, end = start + size,
         NEW m2, m2 = Tagged(m, start, size, 1),
         NEW V, V = U \cap Outside(sz, start, end)
  PROVE  Uses(m, sz, m2, brk, V, start, size) /\ SamePayload(m, m2, start, size)
<1> DEFINE nsz == OnePiece(start, end)
           csz == Recut(sz, start, end, nsz)
           O == Outside(sz, start, end)
<1>0. /\ Heap(m, brk, sz, U, F) /\ F = O \ U /\ \A c \in F : c + sz[c] \in V \cup {brk, start}
      /\ start \in DOMAIN sz \ {HeapList} /\ end \in DOMAIN sz \cup {brk} /\ start < end
  BY DEF Around
<1>1. /\ Shape(brk, sz) /\ start \in Nat /\ end \in Nat /\ start \notin O
      /\ start % 8 = 0 /\ end % 8 = 0 /\ start + 16 <= end
  <2>1. Shape(brk, sz)
    BY <1>0 DEF Heap
  <2>2. /\ start \in Nat /\ end \in Nat /\ start % 8 = 0 /\ end % 8 = 0
        /\ sz[start] \in Nat /\ sz[start] >= 16 /\ start + sz[start] <= brk
    BY <1>0, <2>1, BlockFacts, EndFacts
  <2>3. end \in DOMAIN sz => start + sz[start] <= end
    BY <1>0, <2>1 DEF Shape
  <2> QED BY <1>0, <2>1, <2>2, <2>3 DEF Outside
<1>2. Heap(m2, brk, csz, V \cup {start}, F) /\ Only(m2, m, TagWords(nsz))
  <2>1. /\ V \cup {start} \subseteq O \cup {start} /\ F \subseteq O
        /\ \A b \in O : b \in V \cup {start} <=> b \in U
        /\ start \in V \cup {start} <=> 1 = 1
    BY <1>0, <1>1
  <2>2. 1 \in {0, 1}
    OBVIOUS
  <2> QED BY <1>0, <2>1, <2>2, TagOne
<1>3. DOMAIN nsz = {start} /\ nsz[start] = size
  BY <1>1 DEF OnePiece
<1> HIDE DEF nsz
<1>4. DOMAIN csz = O \cup {start} /\ csz[start] = size /\ \A b \in O : b \in DOMAIN sz /\ csz[b] = sz[b]
  BY <1>1, <1>3 DEF Recut, Outside
<1> HIDE DEF csz
<1>5. F = DOMAIN csz \ (V \cup {start})
  BY <1>0, <1>1, <1>4
<1>6. \A c \in F : c + csz[c] \in (V \cup {start}) \cup {brk}
  BY <1>0, <1>4
<1>7. Good(m2, brk, csz, V \cup {start})
  BY <1>2, <1>5, <1>6 DEF Good
<1>8. Keeps(m, sz, m2, csz, V)
  <2>1. V \subseteq O /\ Cut(start, end, nsz)
    BY <1>1, CutOne DEF nsz
  <2> QED BY <1>0, <1>1, <1>2, <2>1, KeptByTags DEF csz
<1>9. ASSUME NEW a \in Words, a \in start .. start + size - 9 PROVE m2[a] = m[a]
  <2>1. TagWords(nsz) = {start - 4, start + size - 8}
    BY <1>3 DEF TagWords
  <2>2. a # start - 4 /\ a # start + size - 8
    BY <1>1, <1>9
  <2> QED BY <1>2, <2>1, <2>2 DEF Only
<1> QED BY <1>1, <1>4, <1>7, <1>8, <1>9 DEF Uses, SamePayload

\* ... or a block in use and a free block above it ...
LEMMA LowUsed ==
  ASSUME NEW m, NEW brk, NEW sz, NEW U, NEW F, NEW start, NEW end,
         Around(m, brk, sz, U, F, start, end, {brk, start}), end \in U \cup {brk},
         NEW s1 \in Nat, s1 % 8 = 0, s1 >= 16, NEW mid, mid = start + s1,
         NEW s2 \in Nat, s2 >= 16, end = mid + s2,
         NEW m2, m2 = InsertFree(Tagged(Tagged(m, start, s1, 1), mid, s2, 0), mid),
         NEW V, V = U \cap Outside(sz, start, end)
  PROVE  Uses(m, sz, m2, brk, V, start, s1) /\ SamePayload(m, m2, start, s1)
<1> DEFINE nsz == TwoPieces(start, mid, end)
           csz == Recut(sz, start, end, nsz)
           O == Outside(sz, start, end)
           m1 == Tagged(Tagged(m, start, s1, 1), mid, s2, 0)
           W == V \cup {start}
<1>0. /\ Heap(m, brk, sz, U, F) /\ F = O \ U /\ \A c \in F : c + sz[c] \in V \cup {brk, start}
      /\ start \in DOMAIN sz \ {HeapList} /\ end \in DOMAIN sz \cup {brk} /\ start < end
  BY DEF Around
<1>1. /\ Shape(brk, sz) /\ start \in Nat /\ end \in Nat /\ start \notin O
      /\ start % 8 = 0 /\ end % 8 = 0
      /\ mid \in Nat /\ mid % 8 = 0 /\ start + 16 <= mid /\ mid + 16 <= end /\ mid \notin O
      /\ start # mid /\ end \in V \cup {brk}
  <2>1. Shape(brk, sz)
    BY <1>0 DEF Heap
  <2>2. start \in Nat /\ end \in Nat /\ start % 8 = 0 /\ end % 8 = 0
    BY <1>0, <2>1, BlockFacts, EndFacts
  <2>3. mid \in Nat /\ mid % 8 = 0 /\ start + 16 <= mid /\ mid + 16 <= end
    BY <2>2
  <2>4. end \in U => end \in O
    BY <1>0, <2>2 DEF Heap, Outside
  <2>5. start \notin O /\ mid \notin O /\ start # mid
    BY <1>0, <2>2, <2>3 DEF Outside
  <2> QED BY <2>1, <2>2, <2>3, <2>4, <2>5
<1>2. Heap(m1, brk, csz, W, F) /\ Only(m1, m, TagWords(nsz))
  <2>1. /\ W \subseteq O \cup {start, mid} /\ F \subseteq O
        /\ \A b \in O : b \in W <=> b \in U
        /\ (start \in W <=> 1 = 1) /\ (mid \in W <=> 0 = 1)
    BY <1>0, <1>1
  <2>2. 1 \in {0, 1} /\ 0 \in {0, 1}
    OBVIOUS
  <2>3. m1 = Tagged(Tagged(m, start, s1, 1), mid, s2, 0)
    OBVIOUS
  <2>4. /\ W \subseteq Outside(sz, start, end) \cup {start, mid} /\ F \subseteq Outside(sz, start, end)
        /\ \A b \in Outside(sz, start, end) : b \in W <=> b \in U
    BY <2>1
  <2>5. mid = start + s1 /\ end = mid + s2
    OBVIOUS
  <2> HIDE DEF W, O, m1
  <2>6. /\ Heap(m1, brk, Recut(sz, start, end, TwoPieces(start, mid, end)), W, F)
        /\ Only(m1, m, TagWords(TwoPieces(start, mid, end)))
    BY <1>0, <1>1, <2>1, <2>2, <2>3, <2>4, <2>5, TagTwo, SMTT(30)
  <2> QED BY <2>6
<1>3. DOMAIN nsz = {start, mid} /\ nsz[start] = s1 /\ nsz[mid] = s2
  BY <1>1 DEF TwoPieces
<1> HIDE DEF nsz
<1>4. /\ DOMAIN csz = O \cup {start, mid} /\ csz[start] = s1 /\ csz[mid] = s2
      /\ \A b \in O : b \in DOMAIN sz /\ csz[b] = sz[b]
  BY <1>1, <1>3 DEF Recut, Outside
<1> HIDE DEF csz, m1
<1>5. F \cup {mid} = DOMAIN csz \ W /\ mid \in DOMAIN csz \ W /\ mid \notin F
  BY <1>0, <1>1, <1>4
<1>6. \A c \in F \cup {mid} : c + csz[c] \in W \cup {brk}
  BY <1>0, <1>1, <1>4
<1>7. Heap(m2, brk, csz, W, F \cup {mid}) /\ Only(m2, m1, LinkWords(F \cup {mid}))
  BY <1>2, <1>5, Inserted DEF m1
<1>8. Good(m2, brk, csz, W)
  <2> HIDE DEF W
  <2> QED BY <1>5, <1>6, <1>7 DEF Good
<1>9. Keeps(m, sz, m1, csz, V)
  <2>1. V \subseteq O /\ Cut(start, end, nsz)
    BY <1>1, CutTwo DEF nsz
  <2> QED BY <1>0, <1>1, <1>2, <2>1, KeptByTags DEF csz
<1>10. Keeps(m1, csz, m2, csz, W)
  <2>1. Shape(brk, csz) /\ W \subseteq DOMAIN csz /\ HeapList \in W
    BY <1>2 DEF Heap
  <2> HIDE DEF W
  <2> QED BY <1>5, <1>7, <2>1, KeptByLinks
<1>11. Keeps(m, sz, m2, csz, V)
  BY <1>9, <1>10, KeepsTrans, KeepsFewer
<1>12. ASSUME NEW a \in Words, a \in start .. start + s1 - 9 PROVE m2[a] = m[a]
  <2>1. TagWords(nsz) = {start - 4, start + s1 - 8, mid - 4, mid + s2 - 8}
    BY <1>3 DEF TagWords
  <2>2. a # start - 4 /\ a # start + s1 - 8 /\ a # mid - 4 /\ a # mid + s2 - 8
    BY <1>1, <1>12
  <2>3. m1[a] = m[a]
    BY <1>2, <2>1, <2>2 DEF Only
  <2>4. m2[a] = m1[a]
    BY <1>4, <1>10, <1>12 DEF Keeps
  <2> QED BY <2>3, <2>4
<1> QED BY <1>1, <1>4, <1>8, <1>11, <1>12 DEF Uses, SamePayload

\* ... or a free block and a block in use above it.
LEMMA HighUsed ==
  ASSUME NEW m, NEW brk, NEW sz, NEW U, NEW F, NEW start, NEW end,
         Around(m, brk, sz, U, F, start, end, {brk}),
         NEW s1 \in Nat, s1 % 8 = 0, s1 >= 16, NEW mid, mid = start + s1,
         NEW s2 \in Nat, s2 >= 16, end = mid + s2,
         NEW m2, m2 = InsertFree(Tagged(Tagged(m, start, s1, 0), mid, s2, 1), start),
         NEW V, V = U \cap Outside(sz, start, end)
  PROVE  Uses(m, sz, m2, brk, V, mid, s2)
<1> DEFINE nsz == TwoPieces(start, mid, end)
           csz == Recut(sz, start, end, nsz)
           O == Outside(sz, start, end)
           m1 == Tagged(Tagged(m, start, s1, 0), mid, s2, 1)
           W == V \cup {mid}
<1>0. /\ Heap(m, brk, sz, U, F) /\ F = O \ U /\ \A c \in F : c + sz[c] \in V \cup {brk}
      /\ start \in DOMAIN sz \ {HeapList} /\ end \in DOMAIN sz \cup {brk} /\ start < end
  BY DEF Around
<1>1. /\ Shape(brk, sz) /\ start \in Nat /\ end \in Nat /\ start \notin O
      /\ start % 8 = 0 /\ end % 8 = 0
      /\ mid \in Nat /\ mid % 8 = 0 /\ start + 16 <= mid /\ mid + 16 <= end /\ mid \notin O
      /\ start # mid
  <2>1. Shape(brk, sz)
    BY <1>0 DEF Heap
  <2>2. start \in Nat /\ end \in Nat /\ start % 8 = 0 /\ end % 8 = 0
    BY <1>0, <2>1, BlockFacts, EndFacts
  <2>3. mid \in Nat /\ mid % 8 = 0 /\ start + 16 <= mid /\ mid + 16 <= end
    BY <2>2
  <2>5. start \notin O /\ mid \notin O /\ start # mid
    BY <1>0, <2>2, <2>3 DEF Outside
  <2> QED BY <2>1, <2>2, <2>3, <2>5
<1>2. Heap(m1, brk, csz, W, F) /\ Only(m1, m, TagWords(nsz))
  <2>1. /\ W \subseteq O \cup {start, mid} /\ F \subseteq O
        /\ \A b \in O : b \in W <=> b \in U
        /\ (start \in W <=> 0 = 1) /\ (mid \in W <=> 1 = 1)
    BY <1>0, <1>1
  <2>2. 1 \in {0, 1} /\ 0 \in {0, 1}
    OBVIOUS
  <2>3. m1 = Tagged(Tagged(m, start, s1, 0), mid, s2, 1)
    OBVIOUS
  <2>4. /\ W \subseteq Outside(sz, start, end) \cup {start, mid} /\ F \subseteq Outside(sz, start, end)
        /\ \A b \in Outside(sz, start, end) : b \in W <=> b \in U
    BY <2>1
  <2>5. mid = start + s1 /\ end = mid + s2
    OBVIOUS
  <2> HIDE DEF W, O, m1
  <2>6. /\ Heap(m1, brk, Recut(sz, start, end, TwoPieces(start, mid, end)), W, F)
        /\ Only(m1, m, TagWords(TwoPieces(start, mid, end)))
    BY <1>0, <1>1, <2>1, <2>2, <2>3, <2>4, <2>5, TagTwo, SMTT(30)
  <2> QED BY <2>6
<1>3. DOMAIN nsz = {start, mid} /\ nsz[start] = s1 /\ nsz[mid] = s2
  BY <1>1 DEF TwoPieces
<1> HIDE DEF nsz
<1>4. /\ DOMAIN csz = O \cup {start, mid} /\ csz[start] = s1 /\ csz[mid] = s2
      /\ \A b \in O : b \in DOMAIN sz /\ csz[b] = sz[b]
  BY <1>1, <1>3 DEF Recut, Outside
<1> HIDE DEF csz, m1
<1>5. F \cup {start} = DOMAIN csz \ W /\ start \in DOMAIN csz \ W /\ start \notin F
  BY <1>0, <1>1, <1>4
<1>6. \A c \in F \cup {start} : c + csz[c] \in W \cup {brk}
  BY <1>0, <1>1, <1>4
<1>7. Heap(m2, brk, csz, W, F \cup {start}) /\ Only(m2, m1, LinkWords(F \cup {start}))
  BY <1>2, <1>5, Inserted DEF m1
<1>8. Good(m2, brk, csz, W)
  <2> HIDE DEF W
  <2> QED BY <1>5, <1>6, <1>7 DEF Good
<1>9. Keeps(m, sz, m1, csz, V)
  <2>1. V \subseteq O /\ Cut(start, end, nsz)
    BY <1>1, CutTwo DEF nsz
  <2> QED BY <1>0, <1>1, <1>2, <2>1, KeptByTags DEF csz
<1>10. Keeps(m1, csz, m2, csz, W)
  <2>1. Shape(brk, csz) /\ W \subseteq DOMAIN csz /\ HeapList \in W
    BY <1>2 DEF Heap
  <2> HIDE DEF W
  <2> QED BY <1>5, <1>7, <2>1, KeptByLinks
<1>11. Keeps(m, sz, m2, csz, V)
  BY <1>9, <1>10, KeepsTrans, KeepsFewer
<1> QED BY <1>1, <1>4, <1>8, <1>11 DEF Uses

-----------------------------------------------------------------------------
(* Searches.  A walk that would visit more blocks than there is room for in *)
(* the heap comes to an end before.                                         *)

Room == MAX_HEAP \div (2 * DSIZE)

LEMMA RoomFacts == Room \in Nat /\ Room >= 1 /\ MAX_HEAP < 16 * Room + 16
<1>1. 2 * 8 = 16 /\ MAX_HEAP \in Nat /\ MAX_HEAP >= 24
  BY PrologueFacts
<1>2. Room = MAX_HEAP \div 16
  BY <1>1 DEF Room
<1> HIDE DEF Room
<1> QED BY <1>1, <1>2

\* A walk through S in n steps, one that makes each step as long as it is in S,
\* and numbers that grow from step to step.
Stays(S, step) == \A s \in S : step[s] \in S

Walks(f, n, S, step) ==
  (\A k \in 0 .. n : f[k] \in S) /\ \A k \in 1 .. n : f[k] = step[f[k - 1]]

StepsIn(f, n, S, step) ==
  f[0] \in S /\ \A k \in 1 .. n : f[k - 1] \in S => f[k] = step[f[k - 1]]

Rises(w, n) == (\A k \in 0 .. n : w[k] \in Int) /\ \A k \in 1 .. n : w[k - 1] < w[k]

\* A function on 0 .. n can be defined step by step.
LEMMA Iterated ==
  ASSUME NEW S, NEW x, x \in S, NEW step, Stays(S, step), NEW n \in Nat
  PROVE  \E f : DOMAIN f = 0 .. n /\ f = [k \in 0 .. n |-> f[k]] /\ f[0] = x /\ Walks(f, n, S, step)
<1> USE DEF Stays, Walks
<1> DEFINE Is(f, j) == /\ f \in [0 .. j -> S] /\ f[0] = x
                       /\ \A k \in 1 .. j : f[k] = step[f[k - 1]]
           T == {j \in Nat : ~ \E f : Is(f, j)}
<1>1. T = {}
  <2> SUFFICES ASSUME T # {} PROVE FALSE
    OBVIOUS
  <2>1. PICK j \in T : \A i \in T : j <= i
    BY NatLeast
  <2>2. Is([k \in 0 .. 0 |-> x], 0)
    OBVIOUS
  <2>3. j # 0
    BY <2>2
  <2>4. j - 1 \in Nat /\ j - 1 \notin T
    <3>1. j \in Nat /\ j - 1 \in Nat /\ j - 1 < j
      BY <2>3
    <3> HIDE DEF T
    <3> QED BY <2>1, <3>1
  <2>5. PICK f : Is(f, j - 1)
    BY <2>4
  <2> DEFINE g == [k \in 0 .. j |-> IF k = j THEN step[f[j - 1]] ELSE f[k]]
  <2>6. g \in [0 .. j -> S]
    BY <2>4, <2>5
  <2>7. g[0] = x
    BY <2>3, <2>5
  <2>8. ASSUME NEW k \in 1 .. j PROVE g[k] = step[g[k - 1]]
    <3>1. k - 1 \in 0 .. j /\ k - 1 # j /\ k \in 0 .. j
      OBVIOUS
    <3>2. CASE k = j
      BY <3>1, <3>2
    <3>3. CASE k # j
      <4>1. k \in 1 .. j - 1
        BY <3>3
      <4> QED BY <2>5, <3>1, <3>3, <4>1
    <3> QED BY <3>2, <3>3
  <2> QED BY <2>6, <2>7, <2>8
<1> QED BY <1>1

\* Numbers that grow from step to step grow from any step to any later one.
LEMMA Rising ==
  ASSUME NEW n \in Nat, NEW w, Rises(w, n)
  PROVE  \A i, j \in 0 .. n : i < j => w[i] < w[j]
<1> USE DEF Rises
<1> SUFFICES ASSUME NEW i \in 0 .. n PROVE \A j \in 0 .. n : i < j => w[i] < w[j]
  OBVIOUS
<1> DEFINE T == {j \in Nat : j <= n /\ i < j /\ ~(w[i] < w[j])}
<1>1. T = {}
  <2> SUFFICES ASSUME T # {} PROVE FALSE
    OBVIOUS
  <2>1. PICK j \in T : \A k \in T : j <= k
    BY NatLeast
  <2>2. /\ j - 1 \in Nat /\ j - 1 \notin T /\ j - 1 \in 0 .. n /\ j \in 1 .. n /\ i <= j - 1
        /\ i \in Nat
    BY <2>1
  <2>3. w[i] <= w[j - 1]
    BY <2>2
  <2>4. w[j - 1] < w[j] /\ w[j - 1] \in Int /\ w[j] \in Int /\ w[i] \in Int
    BY <2>2
  <2> QED BY <2>1, <2>3, <2>4
<1> SUFFICES ASSUME NEW j \in 0 .. n, i < j PROVE w[i] < w[j]
  OBVIOUS
<1>2. j \in Nat /\ j <= n /\ j \notin T
  <2> HIDE DEF T
  <2> QED BY <1>1
<1> QED BY <1>2

\* What is computed step by step stays in the set of the steps.
LEMMA Followed ==
  ASSUME NEW S, NEW step, Stays(S, step), NEW n \in Nat, NEW f, StepsIn(f, n, S, step)
  PROVE  Walks(f, n, S, step)
<1> USE DEF Stays, StepsIn, Walks
<1> DEFINE T == {k \in Nat : k <= n /\ f[k] \notin S}
<1>1. T = {}
  <2> SUFFICES ASSUME T # {} PROVE FALSE
    OBVIOUS
  <2>1. PICK k \in T : \A j \in T : k <= j
    BY NatLeast
  <2>2. k \in Nat /\ k <= n /\ f[k] \notin S
    OBVIOUS
  <2>3. k - 1 \in Nat /\ k \in 1 .. n /\ k - 1 < k /\ k - 1 <= n
    BY <2>2
  <2>4. k - 1 \notin T
    <3> HIDE DEF T
    <3> QED BY <2>1, <2>3
  <2>5. f[k - 1] \in S
    BY <2>3, <2>4
  <2> QED BY <2>2, <2>3, <2>5
<1>2. ASSUME NEW k \in 0 .. n PROVE f[k] \in S
  <2>1. k \notin T
    <3> HIDE DEF T
    <3> QED BY <1>1
  <2> QED BY <2>1
<1>3. ASSUME NEW k \in 1 .. n PROVE f[k] = step[f[k - 1]]
  <2>1. k - 1 \in 0 .. n
    OBVIOUS
  <2> QED BY <1>2, <2>1
<1> QED BY <1>2, <1>3

LEMMA NoLongWalk ==
  ASSUME NEW brk, NEW sz, Shape(brk, sz), NEW F, F \subseteq DOMAIN sz \ {HeapList},
         NEW n \in Nat, n = Room, NEW f, NEW step, Walks(f, n, F, step),
         NEW rank, Rises([k \in 0 .. n |-> rank[f[k]]], n)
  PROVE  FALSE
<1> DEFINE w == [k \in 0 .. n |-> rank[f[k]]]
<1> USE DEF Walks
<1> DEFINE g == [k \in 0 .. n |-> f[k] \div 16]
<1>0. n \in Nat /\ n >= 1
  BY RoomFacts
<1>1. \A b \in F : /\ b \in Nat /\ b % 8 = 0 /\ b >= 24 /\ b + 16 <= MAX_HEAP /\ MAX_HEAP \in Nat
                   /\ sz[b] \in Nat /\ sz[b] >= 16
  <2>1. brk \in Nat /\ brk <= MAX_HEAP /\ MAX_HEAP \in Nat
    BY EndFacts, PrologueFacts
  <2> SUFFICES ASSUME NEW b \in F
               PROVE  /\ b \in Nat /\ b % 8 = 0 /\ b >= 24 /\ b + 16 <= MAX_HEAP
                      /\ sz[b] \in Nat /\ sz[b] >= 16
    BY <2>1
  <2>2. /\ b \in Nat /\ b % 8 = 0 /\ b >= 24 /\ sz[b] \in Nat /\ sz[b] >= 16
        /\ b + sz[b] <= brk
    BY BlockFacts
  <2> QED BY <2>1, <2>2
<1>2. ASSUME NEW k \in 0 .. n PROVE f[k] \div 16 \in 1 .. n - 1
  <2>1. f[k] \in F
    OBVIOUS
  <2> DEFINE b == f[k]
  <2>2. b \in Nat /\ b >= 24 /\ b + 16 <= MAX_HEAP /\ MAX_HEAP \in Nat
    BY <1>1, <2>1
  <2> HIDE DEF b
  <2>3. b \div 16 \in 1 .. n - 1
    BY <1>0, <2>2, RoomFacts
  <2> QED BY <2>3 DEF b
<1>3. g \in [0 .. n -> 1 .. n - 1]
  BY <1>2
<1>4. /\ IsFiniteSet(0 .. n) /\ IsFiniteSet(1 .. n - 1)
      /\ Cardinality(1 .. n - 1) < Cardinality(0 .. n)
  <2>1. IsFiniteSet(0 .. n) /\ Cardinality(0 .. n) = n + 1
    BY <1>0, FS_Interval
  <2>2. IsFiniteSet(1 .. n - 1) /\ Cardinality(1 .. n - 1) = n - 1
    BY <1>0, FS_Interval
  <2> QED BY <1>0, <2>1, <2>2
<1>5. PICK i, j \in 0 .. n : i # j /\ g[i] = g[j]
  <2> DEFINE S == 0 .. n
             N == 1 .. n - 1
  <2>1. /\ IsFiniteSet(S) /\ IsFiniteSet(N) /\ Cardinality(N) < Cardinality(S)
        /\ g \in [S -> N]
    BY <1>3, <1>4
  <2> HIDE DEF g, S, N
  <2>2. \E i, j \in S : i # j /\ g[i] = g[j]
    BY <2>1, FS_PigeonHole
  <2> QED BY <2>2 DEF S
<1>6. f[i] \in F /\ f[j] \in F /\ f[i] \div 16 = f[j] \div 16
  BY <1>5
<1>7. f[i] = f[j]
  <2> DEFINE b == f[i]
             c == f[j]
  <2>1. /\ b \in Nat /\ c \in Nat /\ sz[b] \in Nat /\ sz[c] \in Nat /\ sz[b] >= 16 /\ sz[c] >= 16
        /\ b \in DOMAIN sz /\ c \in DOMAIN sz /\ b \div 16 = c \div 16
    BY <1>1, <1>6
  <2> HIDE DEF b, c
  <2>2. b # c => b + sz[b] <= c \/ c + sz[c] <= b
    BY <2>1, Apart
  <2>3. b = c
    BY <2>1, <2>2
  <2> QED BY <2>3 DEF b, c
<1>8. w[i] # w[j]
  <2>1. i < j \/ j < i
    BY <1>0, <1>5
  <2>2. Rises(w, n)
    OBVIOUS
  <2> HIDE DEF w
  <2>3. \A a, b \in 0 .. n : a < b => w[a] < w[b]
    BY <2>2, Rising
  <2>4. w[i] \in Int /\ w[j] \in Int
    BY <2>2 DEF Rises
  <2> QED BY <2>1, <2>3, <2>4
<1> QED BY <1>7, <1>8

\* The links hd, nx, pv and rk of the lists are those that memory holds.
Links(m, F, sz, hd, nx, pv, rk) ==
  /\ Chained(F, sz, hd, nx, pv, rk)
  /\ \A i \in Lists : FirstFree(m, i) = hd[i]
  /\ \A b \in F : NextFree(m, b) = nx[b] /\ Address(m[b]) = pv[b]

\* The links of the lists, read from memory.
LEMMA ReadLinks ==
  ASSUME NEW m, NEW brk, NEW sz, NEW U, NEW F, Heap(m, brk, sz, U, F)
  PROVE  \E hd, nx, pv, rk :
           /\ Chained(F, sz, hd, nx, pv, rk)
           /\ \A i \in Lists : FirstFree(m, i) = hd[i]
           /\ \A b \in F : NextFree(m, b) = nx[b] /\ Address(m[b]) = pv[b]
<1>1. PICK hd, nx, pv, rk : Chained(F, sz, hd, nx, pv, rk) /\ Stored(m, F, hd, nx, pv)
  BY DEF Heap, Linked
<1>2. Shape(brk, sz) /\ F \subseteq DOMAIN sz \ {HeapList}
  BY DEF Heap
<1>3. ASSUME NEW i \in Lists PROVE FirstFree(m, i) = hd[i]
  <2>1. hd[i] \in F \cup {NULL} /\ m[i * 4] = Offset(hd[i])
    BY <1>1 DEF Chained, Stored
  <2> QED BY <1>2, <2>1, OffsetFacts DEF FirstFree
<1>4. ASSUME NEW b \in F PROVE NextFree(m, b) = nx[b] /\ Address(m[b]) = pv[b]
  <2>1. nx[b] \in F \cup {NULL} /\ m[b + 4] = Offset(nx[b]) /\ m[b] = Offset(pv[b])
    BY <1>1 DEF Chained, Stored
  <2>2. IF pv[b] = NULL THEN hd[ListIndex(sz[b])] = b
        ELSE pv[b] \in F /\ ListIndex(sz[pv[b]]) = ListIndex(sz[b]) /\ nx[pv[b]] = b
    BY <1>1 DEF Chained
  <2>3. pv[b] \in F \cup {NULL}
    BY <2>2
  <2> QED BY <1>2, <2>1, <2>3, OffsetFacts DEF NextFree
<1> QED BY <1>1, <1>3, <1>4

\* The search of one list goes on to the next block until it comes to a block
\* that has room, or to the end.
Sought(F, sz, nx, asize) ==
  [x \in F \cup {NULL} |-> IF x = NULL \/ sz[x] >= asize THEN x ELSE nx[x]]

Search(f, m, i, F, sz, hd, nx, asize) ==
  /\ FirstFit(m, i, asize) = f[Room] /\ f[0] = hd[i]
  /\ Walks(f, Room, F \cup {NULL}, Sought(F, sz, nx, asize))

LEMMA FirstFitWalks ==
  ASSUME NEW m, NEW brk, NEW sz, NEW U, NEW F, Heap(m, brk, sz, U, F),
         NEW i \in Lists, NEW asize \in Nat,
         NEW hd, NEW nx, NEW pv, NEW rk, Links(m, F, sz, hd, nx, pv, rk)
  PROVE  \E f : Search(f, m, i, F, sz, hd, nx, asize)
<1>0. /\ Shape(brk, sz) /\ Marked(m, brk, sz, U) /\ F \subseteq DOMAIN sz \ {HeapList}
      /\ NULL \notin F /\ Room \in Nat /\ Room >= 1
  <2>1. Shape(brk, sz) /\ Marked(m, brk, sz, U) /\ F \subseteq DOMAIN sz \ {HeapList}
    BY DEF Heap
  <2> QED BY <2>1, LinkCells, RoomFacts
<1>1. /\ Chained(F, sz, hd, nx, pv, rk)
      /\ \A j \in Lists : FirstFree(m, j) = hd[j]
      /\ \A b \in F : NextFree(m, b) = nx[b] /\ Address(m[b]) = pv[b]
  BY DEF Links
<1>2. \A b \in F : Size(m, b) = sz[b] /\ sz[b] \in Nat
  BY <1>0, ReadTags, ShapeFacts
<1>a. PICK N \in Nat : N = Room
  BY <1>0
<1> DEFINE S == F \cup {NULL}
           step == [x \in S |-> IF x = NULL \/ sz[x] >= asize THEN x ELSE nx[x]]
           D == 0 .. N
           at[n \in 0 .. MAX_HEAP \div (2 * DSIZE)] ==
             LET bp == at[n - 1]
             IN  IF n = 0 THEN FirstFree(m, i)
                 ELSE IF bp = NULL \/ Size(m, bp) >= asize THEN bp ELSE NextFree(m, bp)
<1>3. FirstFit(m, i, asize) = at[N]
  BY <1>a DEF FirstFit, Room
<1>4. hd[i] \in S /\ Stays(S, step)
  BY <1>1 DEF Chained, Stays
<1>b. PICK f : DOMAIN f = 0 .. N /\ f = [k \in 0 .. N |-> f[k]] /\ f[0] = hd[i] /\ Walks(f, N, S, step)
  <2> HIDE DEF S, step, at
  <2> QED BY <1>4, Iterated
<1>5. /\ f = [n \in D |-> f[n]] /\ f[0] = hd[i]
      /\ \A n \in 0 .. N : f[n] \in S
      /\ \A n \in 1 .. N : f[n] = step[f[n - 1]]
  BY <1>b DEF Walks
<1>6. f = [n \in D |-> LET bp == f[n - 1]
                       IN  IF n = 0 THEN FirstFree(m, i)
                           ELSE IF bp = NULL \/ Size(m, bp) >= asize THEN bp
                           ELSE NextFree(m, bp)]
  <2> SUFFICES ASSUME NEW n \in D
               PROVE  f[n] = IF n = 0 THEN FirstFree(m, i)
                             ELSE IF f[n - 1] = NULL \/ Size(m, f[n - 1]) >= asize THEN f[n - 1]
                             ELSE NextFree(m, f[n - 1])
    BY <1>5
  <2>1. CASE n = 0
    BY <1>1, <1>5, <2>1
  <2>2. CASE n # 0
    <3>1. n \in 1 .. N /\ n - 1 \in D
      BY <1>0, <1>a, <2>2
    <3>2. f[n] = step[f[n - 1]] /\ f[n - 1] \in S
      BY <1>5, <3>1
    <3>3. f[n] = IF f[n - 1] = NULL \/ sz[f[n - 1]] >= asize THEN f[n - 1] ELSE nx[f[n - 1]]
      BY <3>2
    <3> QED BY <1>1, <1>2, <2>2, <3>2, <3>3
  <2> QED BY <2>1, <2>2
<1>7. at = [n \in D |-> LET bp == at[n - 1]
                        IN  IF n = 0 THEN FirstFree(m, i)
                            ELSE IF bp = NULL \/ Size(m, bp) >= asize THEN bp
                            ELSE NextFree(m, bp)]
  BY <1>a, <1>6 DEF Room
<1> HIDE DEF at
<1>8. at[0] = hd[i]
  BY <1>a, <1>1, <1>7
<1>9. ASSUME NEW n \in 1 .. N, at[n - 1] \in S PROVE at[n] = step[at[n - 1]]
  <2>0. n \in D /\ n # 0
    BY <1>0, <1>a
  <2>1. at[n] = IF at[n - 1] = NULL \/ Size(m, at[n - 1]) >= asize THEN at[n - 1]
                ELSE NextFree(m, at[n - 1])
    BY <1>7, <2>0
  <2> QED BY <1>1, <1>2, <1>9, <2>1
<1>10. Walks(at, N, S, step)
  <2> HIDE DEF S, step
  <2>1. StepsIn(at, N, S, step)
    BY <1>4, <1>8, <1>9 DEF StepsIn
  <2> QED BY <1>4, <2>1, Followed
<1>11. step = Sought(F, sz, nx, asize)
  BY DEF Sought
<1>12. Search(at, m, i, F, sz, hd, nx, asize)
  BY <1>3, <1>a, <1>8, <1>10, <1>11 DEF Search
<1> QED BY <1>12

LEMMA FirstFitFinds ==
  ASSUME NEW m, NEW brk, NEW sz, NEW U, NEW F, Heap(m, brk, sz, U, F),
         NEW i \in Lists, NEW asize \in Nat
  PROVE  \/ FirstFit(m, i, asize) = NULL
         \/ FirstFit(m, i, asize) \in F /\ sz[FirstFit(m, i, asize)] >= asize
<1>0. /\ Shape(brk, sz) /\ F \subseteq DOMAIN sz \ {HeapList} /\ NULL \notin F
  <2>1. Shape(brk, sz) /\ F \subseteq DOMAIN sz \ {HeapList}
    BY DEF Heap
  <2> QED BY <2>1, LinkCells
<1>1. PICK hd, nx, pv, rk : Links(m, F, sz, hd, nx, pv, rk)
  BY ReadLinks DEF Links
<1>a. PICK N \in Nat : N = Room
  BY RoomFacts
<1> DEFINE S == F \cup {NULL}
           step == Sought(F, sz, nx, asize)
           D == 0 .. N
<1>2. PICK at : FirstFit(m, i, asize) = at[N] /\ at[0] = hd[i] /\ Walks(at, N, S, step)
  <2>1. PICK f : Search(f, m, i, F, sz, hd, nx, asize)
    BY <1>1, FirstFitWalks
  <2> QED BY <1>a, <2>1 DEF Search
<1>10. /\ \A n \in D : at[n] \in S
       /\ \A n \in 1 .. N : at[n] = step[at[n - 1]]
  BY <1>2 DEF Walks
<1>11. SUFFICES ASSUME at[N] # NULL, ~(sz[at[N]] >= asize) PROVE FALSE
  BY <1>0, <1>a, <1>2, <1>10
<1>12. \A n \in D : at[n] \in F /\ ~(sz[at[n]] >= asize)
  <2> DEFINE T == {k \in Nat : k <= N /\ ~(at[N - k] \in F /\ ~(sz[at[N - k]] >= asize))}
  <2>1. T = {}
    <3> SUFFICES ASSUME T # {} PROVE FALSE
      OBVIOUS
    <3>1. PICK k \in T : \A j \in T : k <= j
      BY NatLeast
    <3>2. k \in Nat /\ k <= N /\ ~(at[N - k] \in F /\ ~(sz[at[N - k]] >= asize))
      OBVIOUS
    <3>3. k # 0
      <4>1. at[N] \in F /\ N - 0 = N
        BY <1>0, <1>a, <1>10, <1>11
      <4> QED BY <1>11, <3>2, <4>1
    <3>4. /\ k - 1 \in Nat /\ k - 1 < k /\ N - (k - 1) \in 1 .. N
          /\ (N - (k - 1)) - 1 = N - k /\ N - k \in D /\ k - 1 <= N
      BY <1>0, <1>a, <3>2, <3>3
    <3>a. k - 1 \notin T
      <4> HIDE DEF T
      <4> QED BY <3>1, <3>2, <3>4
    <3> DEFINE n == N - (k - 1)
    <3>5. at[n] \in F /\ ~(sz[at[n]] >= asize)
      BY <3>4, <3>a
    <3>6. at[n] = step[at[n - 1]] /\ at[n - 1] \in S
      BY <1>10, <3>4
    <3>7. at[n - 1] # NULL /\ ~(sz[at[n - 1]] >= asize)
      BY <1>0, <1>a, <3>5, <3>6 DEF Sought
    <3> QED BY <3>2, <3>4, <3>6, <3>7
  <2>2. \A n \in D : N - n \in Nat /\ N - n <= N /\ N - (N - n) = n
    BY <1>0, <1>a
  <2>3. ASSUME NEW n \in D PROVE at[n] \in F /\ ~(sz[at[n]] >= asize)
    <3>1. N - n \notin T
      BY <2>1
    <3> QED BY <2>2, <3>1
  <2> QED BY <2>3
<1>13. Walks(at, N, F, nx)
  <2>1. ASSUME NEW n \in 1 .. N PROVE at[n] = nx[at[n - 1]]
    <3>1. n - 1 \in D
      BY <1>a
    <3>2. at[n] = step[at[n - 1]] /\ at[n - 1] \in S /\ at[n - 1] \in F /\ ~(sz[at[n - 1]] >= asize)
      BY <1>10, <1>12, <3>1
    <3> QED BY <1>0, <3>2 DEF Sought
  <2> QED BY <1>12, <2>1 DEF Walks
<1> DEFINE rank == [b \in F |-> -rk[b]]
           w == [n \in 0 .. N |-> rank[at[n]]]
<1>14. Rises(w, N)
  <2>1. ASSUME NEW n \in 0 .. N PROVE w[n] = -rk[at[n]] /\ rk[at[n]] \in Nat /\ at[n] \in F
    BY <1>1, <1>12 DEF Chained, Links
  <2>2. ASSUME NEW n \in 1 .. N PROVE w[n - 1] < w[n]
    <3>1. n \in 0 .. N /\ n - 1 \in 0 .. N
      BY <1>a
    <3>2. at[n] = nx[at[n - 1]] /\ at[n - 1] \in F /\ at[n] # NULL
      BY <1>0, <1>13, <2>1, <3>1 DEF Walks
    <3>3. rk[at[n]] < rk[at[n - 1]]
      BY <1>1, <3>2 DEF Chained, Links
    <3> HIDE DEF w
    <3> QED BY <2>1, <3>1, <3>3
  <2> HIDE DEF w
  <2>3. \A n \in 0 .. N : w[n] \in Int
    BY <2>1
  <2> QED BY <2>2, <2>3 DEF Rises
<1> HIDE DEF rank, S, step
<1> QED BY <1>0, <1>a, <1>13, <1>14, NoLongWalk

LEMMA FindFitFinds ==
  ASSUME NEW m, NEW brk, NEW sz, NEW U, NEW F, Heap(m, brk, sz, U, F), NEW asize \in Nat
  PROVE  \/ FindFit(m, asize) = NULL
         \/ FindFit(m, asize) \in F /\ sz[FindFit(m, asize)] >= asize
<1> DEFINE lists == {i \in ListIndex(asize) .. LISTLENGTH - 1 : FirstFit(m, i, asize) # NULL}
           first == CHOOSE i \in lists : \A j \in lists : i <= j
<1>1. CASE lists = {}
  BY <1>1 DEF FindFit
<1>2. CASE lists # {}
  <2>1. FindFit(m, asize) = FirstFit(m, first, asize)
    BY <1>2 DEF FindFit
  <2>2. lists \subseteq Lists /\ lists \subseteq Nat
    BY ListIndexFacts, ListAssumption DEF Lists
  <2> HIDE DEF lists
  <2>3. \E i \in lists : \A j \in lists : i <= j
    BY <1>2, <2>2, NatLeast
  <2>4. first \in Lists
    BY <2>2, <2>3
  <2> QED BY <2>1, <2>4, FirstFitFinds
<1> QED BY <1>1, <1>2

\* No other block is in the space of one block, or of two.
LEMMA AroundOne ==
  ASSUME NEW brk, NEW sz, Shape(brk, sz), NEW b \in DOMAIN sz
  PROVE  Outside(sz, b, b + sz[b]) = DOMAIN sz \ {b}
<1>1. b \in Nat /\ sz[b] \in Nat /\ sz[b] >= 8
  BY ShapeFacts
<1>2. ASSUME NEW c \in DOMAIN sz, c # b PROVE c < b \/ c >= b + sz[b]
  <2>1. c \in Nat /\ sz[c] \in Nat /\ sz[c] >= 8
    BY ShapeFacts
  <2>2. b + sz[b] <= c \/ c + sz[c] <= b
    BY <1>2, Apart
  <2> QED BY <1>1, <2>1, <2>2
<1> QED BY <1>1, <1>2 DEF Outside

LEMMA AroundTwo ==
  ASSUME NEW brk, NEW sz, Shape(brk, sz), NEW b \in DOMAIN sz, NEW n \in DOMAIN sz,
         n = b + sz[b]
  PROVE  Outside(sz, b, n + sz[n]) = DOMAIN sz \ {b, n}
<1>1. b \in Nat /\ sz[b] \in Nat /\ sz[b] >= 8 /\ n \in Nat /\ sz[n] \in Nat /\ sz[n] >= 8
  BY ShapeFacts
<1>2. ASSUME NEW c \in DOMAIN sz, c # b, c # n PROVE c < b \/ c >= n + sz[n]
  <2>1. c \in Nat /\ sz[c] \in Nat /\ sz[c] >= 8
    BY ShapeFacts
  <2>2. b + sz[b] <= c \/ c + sz[c] <= b
    BY <1>2, Apart
  <2>3. n + sz[n] <= c \/ c + sz[c] <= n
    BY <1>2, Apart
  <2> QED BY <1>1, <2>1, <2>2, <2>3
<1> QED BY <1>1, <1>2 DEF Outside

\* place(): of a free block that has room, some block is used.
LEMMA Placed ==
  ASSUME NEW m, NEW brk, NEW sz, NEW U, Good(m, brk, sz, U), NEW b \in DOMAIN sz \ U,
         NEW asize \in Nat, asize % 8 = 0, asize >= 16, asize <= sz[b],
         NEW r, r = Place(m, b, asize)
  PROVE  \E sz2 : /\ Good(r.mem, brk, sz2, U \cup {r.ptr}) /\ Keeps(m, sz, r.mem, sz2, U)
                  /\ r.ptr \in DOMAIN sz2 /\ sz2[r.ptr] >= asize /\ r.ptr \notin U
<1> DEFINE F == DOMAIN sz \ U
           G == F \ {b}
           m1 == RemoveFree(m, b)
           end == b + sz[b]
<1>1. /\ Heap(m, brk, sz, U, F) /\ \A c \in F : c + sz[c] \in U \cup {brk}
  BY DEF Good
<1>2. /\ Shape(brk, sz) /\ Marked(m, brk, sz, U) /\ U \subseteq DOMAIN sz /\ HeapList \in U
      /\ b \in DOMAIN sz \ {HeapList}
  BY <1>1 DEF Heap
<1>3. /\ b \in Nat /\ sz[b] \in Nat /\ sz[b] % 8 = 0 /\ sz[b] >= 16 /\ end \in U \cup {brk}
      /\ end \in Nat /\ b < end /\ end \in DOMAIN sz \cup {brk}
  <2>1. b \in Nat /\ sz[b] \in Nat /\ sz[b] % 8 = 0 /\ sz[b] >= 16
    BY <1>2, BlockFacts
  <2> QED BY <1>1, <1>2, <2>1
<1>4. Heap(m1, brk, sz, U, G) /\ Keeps(m, sz, m1, sz, U) /\ Size(m, b) = sz[b]
  <2>1. Heap(m1, brk, sz, U, G) /\ Only(m1, m, LinkWords(F))
    BY <1>1, Removed
  <2>2. Keeps(m, sz, m1, sz, U)
    <3> HIDE DEF m1
    <3> QED BY <1>2, <2>1, KeptByLinks
  <2> QED BY <1>2, <2>1, <2>2, ReadTags
<1>5. Outside(sz, b, end) = DOMAIN sz \ {b}
  BY <1>2, AroundOne
<1>6. U = U \cap Outside(sz, b, end) /\ G = Outside(sz, b, end) \ U
  <2> HIDE DEF end
  <2> QED BY <1>2, <1>5
<1>7. \A c \in G : c + sz[c] \in (U \cap Outside(sz, b, end)) \cup {brk}
  <2> HIDE DEF end
  <2> QED BY <1>1, <1>6
<1> HIDE DEF G, m1, end, F
<1>8. Around(m1, brk, sz, U, G, b, end, {brk}) /\ Around(m1, brk, sz, U, G, b, end, {brk, b})
  BY <1>2, <1>3, <1>4, <1>6, <1>7 DEF Around
<1>v. PICK V : V = U \cap Outside(sz, b, end) /\ V = U
  BY <1>6
<1> DEFINE remain == sz[b] - asize
<1>9. CASE remain < 16
  <2> DEFINE m2 == Tagged(m1, b, sz[b], 1)
  <2>1. r.mem = m2 /\ r.ptr = b
    BY <1>4, <1>9 DEF Place, m1
  <2> DEFINE s == sz[b]
  <2>2. end = b + s /\ s \in Nat /\ m2 = Tagged(m1, b, s, 1) /\ sz[b] = s
    BY <1>3 DEF end
  <2> HIDE DEF m2, s
  <2>3. PICK sz2 : /\ Good(m2, brk, sz2, V \cup {b}) /\ Keeps(m1, sz, m2, sz2, V)
                 /\ b \in DOMAIN sz2 /\ sz2[b] = s /\ b \notin V
    <3>1. Uses(m1, sz, m2, brk, V, b, s)
      BY <1>3, <1>v, <1>8, <2>2, OneUsed
    <3> QED BY <3>1 DEF Uses
  <2>4. Keeps(m, sz, m2, sz2, U)
    BY <1>4, <1>v, <2>3, KeepsTrans
  <2>5. /\ Good(r.mem, brk, sz2, U \cup {r.ptr}) /\ Keeps(m, sz, r.mem, sz2, U)
        /\ r.ptr \in DOMAIN sz2 /\ r.ptr \notin U
    BY <1>v, <2>1, <2>3, <2>4
  <2>6. sz2[r.ptr] >= asize
    BY <1>3, <2>1, <2>2, <2>3
  <2> QED BY <2>5, <2>6
<1>10. CASE ~(remain < 16) /\ asize > BIGSIZE
  <2> DEFINE mid == b + remain
             m2 == InsertFree(Tagged(Tagged(m1, b, remain, 0), mid, asize, 1), b)
  <2>1. r.mem = m2 /\ r.ptr = mid
    BY <1>4, <1>10 DEF Place, m1
  <2>2. remain \in Nat /\ remain >= 16 /\ remain % 8 = 0 /\ end = mid + asize
        /\ mid = b + remain
        /\ m2 = InsertFree(Tagged(Tagged(m1, b, remain, 0), mid, asize, 1), b)
    BY <1>3, <1>10 DEF end
  <2> HIDE DEF m2, mid, remain
  <2>3. PICK sz2 : /\ Good(m2, brk, sz2, V \cup {mid}) /\ Keeps(m1, sz, m2, sz2, V)
                 /\ mid \in DOMAIN sz2 /\ sz2[mid] = asize /\ mid \notin V
    <3>1. Uses(m1, sz, m2, brk, V, mid, asize)
      BY <1>v, <1>8, <2>2, HighUsed
    <3> QED BY <3>1 DEF Uses
  <2>4. Keeps(m, sz, m2, sz2, U)
    BY <1>4, <1>v, <2>3, KeepsTrans
  <2>5. /\ Good(r.mem, brk, sz2, U \cup {r.ptr}) /\ Keeps(m, sz, r.mem, sz2, U)
        /\ r.ptr \in DOMAIN sz2 /\ r.ptr \notin U
    BY <1>v, <2>1, <2>3, <2>4
  <2>6. sz2[r.ptr] >= asize
    BY <1>3, <2>1, <2>2, <2>3
  <2> QED BY <2>5, <2>6
<1>11. CASE ~(remain < 16) /\ ~(asize > BIGSIZE)
  <2> DEFINE mid == b + asize
             m2 == InsertFree(Tagged(Tagged(m1, b, asize, 1), mid, remain, 0), mid)
  <2>1. r.mem = m2 /\ r.ptr = b
    BY <1>4, <1>11 DEF Place, m1
  <2>2. remain \in Nat /\ remain >= 16 /\ end = mid + remain /\ end \in U \cup {brk}
        /\ mid = b + asize
        /\ m2 = InsertFree(Tagged(Tagged(m1, b, asize, 1), mid, remain, 0), mid)
    BY <1>3, <1>11 DEF end
  <2> HIDE DEF m2, mid, remain
  <2>3. PICK sz2 : /\ Good(m2, brk, sz2, V \cup {b}) /\ Keeps(m1, sz, m2, sz2, V)
                 /\ b \in DOMAIN sz2 /\ sz2[b] = asize /\ b \notin V
    <3>1. Uses(m1, sz, m2, brk, V, b, asize)
      BY <1>3, <1>v, <1>8, <2>2, LowUsed
    <3> QED BY <3>1 DEF Uses
  <2>4. Keeps(m, sz, m2, sz2, U)
    BY <1>4, <1>v, <2>3, KeepsTrans
  <2>5. /\ Good(r.mem, brk, sz2, U \cup {r.ptr}) /\ Keeps(m, sz, r.mem, sz2, U)
        /\ r.ptr \in DOMAIN sz2 /\ r.ptr \notin U
    BY <1>v, <2>1, <2>3, <2>4
  <2>6. sz2[r.ptr] >= asize
    BY <1>3, <2>1, <2>2, <2>3
  <2> QED BY <2>5, <2>6
<1> QED BY <1>9, <1>10, <1>11

\* A block in use with room for size bytes, header and footer included, is
\* added to those in U, which are kept.
Gives(m, sz, r, U, bp, size) ==
  \E sz2 : /\ Good(r.mem, r.brk, sz2, U \cup {bp}) /\ Keeps(m, sz, r.mem, sz2, U)
           /\ bp \in DOMAIN sz2 /\ sz2[bp] >= size /\ bp \notin U

LEMMA PlacedAtFacts ==
  ASSUME NEW h, NEW sz, NEW U, Good(h.mem, h.brk, sz, U), NEW b \in DOMAIN sz \ U,
         NEW asize \in Nat, asize % 8 = 0, asize >= 16, asize <= sz[b],
         NEW r, r = PlacedAt(h, b, asize)
  PROVE  Gives(h.mem, sz, r, U, r.ptr, asize) /\ r.ptr # NULL /\ r.brk = h.brk
<1> DEFINE p == Place(h.mem, b, asize)
<1>1. r.mem = p.mem /\ r.brk = h.brk /\ r.ptr = p.ptr
  BY DEF PlacedAt
<1> HIDE DEF p
<1>2. PICK sz2 : /\ Good(p.mem, h.brk, sz2, U \cup {p.ptr}) /\ Keeps(h.mem, sz, p.mem, sz2, U)
                 /\ p.ptr \in DOMAIN sz2 /\ sz2[p.ptr] >= asize /\ p.ptr \notin U
  BY Placed DEF p
<1>3. p.ptr # NULL
  <2>1. Shape(h.brk, sz2)
    BY <1>2 DEF Good, Heap
  <2> QED BY <1>2, <2>1, ShapeFacts, PrologueFacts DEF Shape
<1> QED BY <1>1, <1>2, <1>3 DEF Gives

\* mm_malloc(): a block that has room, or the heap as it was.
LEMMA Malloced ==
  ASSUME NEW h, NEW sz, NEW U, Good(h.mem, h.brk, sz, U),
         NEW size \in Nat, size > 0, NEW r, r = MmMalloc(h, size)
  PROVE  IF r.ptr = NULL
         THEN r.mem = h.mem /\ r.brk = h.brk /\ h.brk + Demand(size) > MAX_HEAP
         ELSE /\ Gives(h.mem, sz, r, U, r.ptr, ALIGN(size) + 8)
              /\ r.brk = h.brk \/ r.brk = h.brk + Demand(size)
<1> DEFINE asize == ALIGN(size) + 8
           fit == FindFit(h.mem, asize)
           F == DOMAIN sz \ U
           grown == ExtendHeap(h, MaxOf(asize, CHUNKSIZE))
<1>0. ALIGN(size) + DSIZE = asize
  OBVIOUS
<1>1. asize \in Nat /\ asize % 8 = 0 /\ asize >= 16
  <2>1. ALIGN(size) \in Nat /\ ALIGN(size) % 8 = 0 /\ size <= ALIGN(size)
    BY RoundedUp
  <2> DEFINE a == ALIGN(size)
  <2> HIDE DEF a
  <2> QED BY <2>1 DEF a
<1>2. Heap(h.mem, h.brk, sz, U, F) /\ Shape(h.brk, sz)
  BY DEF Good, Heap
<1>3. fit = NULL \/ (fit \in F /\ sz[fit] >= asize)
  <2> HIDE DEF F, asize
  <2> QED BY <1>1, <1>2, FindFitFinds
<1>4. /\ r = IF fit # NULL THEN PlacedAt(h, fit, asize) ELSE PlacedInGrown(grown, asize)
      /\ Demand(size) = ALIGN(MaxOf(asize, CHUNKSIZE))
  BY DEF MmMalloc, Demand
<1> HIDE DEF asize, fit, grown
<1>5. CASE fit # NULL
  <2>1. fit \in DOMAIN sz \ U /\ asize <= sz[fit] /\ r = PlacedAt(h, fit, asize)
    <3>1. fit \in DOMAIN sz /\ sz[fit] \in Nat
      BY <1>2, <1>3, <1>5, ShapeFacts
    <3> QED BY <1>1, <1>3, <1>4, <1>5, <3>1
  <2>2. Gives(h.mem, sz, r, U, r.ptr, asize) /\ r.ptr # NULL /\ r.brk = h.brk
    BY <1>1, <2>1, PlacedAtFacts
  <2> QED BY <2>2 DEF asize
<1>6. CASE fit = NULL
  <2> DEFINE s == MaxOf(asize, CHUNKSIZE)
  <2>1. s \in Nat /\ s > 8 /\ s >= asize
    BY <1>1, ChunkAssumption DEF MaxOf
  <2>2. r = PlacedInGrown(grown, asize) /\ Demand(size) = ALIGN(s) /\ grown = ExtendHeap(h, s)
    BY <1>4, <1>6 DEF grown
  <2>3. ALIGN(s) \in Nat /\ ALIGN(s) >= asize /\ h.brk \in Nat
    <3>1. ALIGN(s) \in Nat /\ s <= ALIGN(s)
      BY <2>1, RoundedUp
    <3> DEFINE t == ALIGN(s)
    <3> HIDE DEF t, s
    <3>2. t \in Nat /\ t >= asize
      BY <1>1, <2>1, <3>1 DEF t
    <3> QED BY <1>2, <3>2, ShapeFacts DEF t
  <2> HIDE DEF s
  <2>4. IF h.brk + ALIGN(s) > MAX_HEAP
        THEN grown.mem = h.mem /\ grown.brk = h.brk /\ grown.ptr = NULL
        ELSE grown.brk = h.brk + ALIGN(s) /\ Extends(h, sz, U, grown)
    BY <2>1, <2>2, Extended
  <2>5. CASE h.brk + ALIGN(s) > MAX_HEAP
    BY <2>2, <2>4, <2>5 DEF PlacedInGrown
  <2>6. CASE ~(h.brk + ALIGN(s) > MAX_HEAP)
    <3>1. PICK sz2 : /\ Good(grown.mem, grown.brk, sz2, U)
                     /\ Keeps(h.mem, sz, grown.mem, sz2, U)
                     /\ grown.ptr \in DOMAIN sz2 \ U
                     /\ grown.ptr <= h.brk /\ grown.brk <= grown.ptr + sz2[grown.ptr]
      BY <2>4, <2>6 DEF Extends
    <3>2. Shape(grown.brk, sz2) /\ grown.brk = h.brk + ALIGN(s)
      BY <2>4, <2>6, <3>1 DEF Good, Heap
    <3>3. grown.ptr \in Nat /\ sz2[grown.ptr] \in Nat /\ grown.ptr # NULL
      BY <3>1, <3>2, ShapeFacts, PrologueFacts DEF Shape
    <3>4. asize <= sz2[grown.ptr]
      <4> DEFINE t == ALIGN(s)
                 x == grown.ptr
      <4>1. t \in Nat /\ t >= asize /\ x <= h.brk /\ h.brk + t <= x + sz2[x] /\ x \in Nat
            /\ sz2[x] \in Nat
        BY <2>3, <3>1, <3>2, <3>3
      <4> HIDE DEF t, x
      <4>2. asize <= sz2[x]
        BY <1>1, <2>3, <4>1
      <4> QED BY <4>2 DEF x
    <3>5. r = PlacedAt(grown, grown.ptr, asize)
      BY <2>2, <3>3 DEF PlacedInGrown
    <3>6. Gives(grown.mem, sz2, r, U, r.ptr, asize) /\ r.ptr # NULL /\ r.brk = grown.brk
      BY <1>1, <3>1, <3>4, <3>5, PlacedAtFacts
    <3>7. Gives(h.mem, sz, r, U, r.ptr, asize)
      BY <3>1, <3>6, KeepsTrans DEF Gives
    <3> QED BY <2>2, <3>2, <3>6, <3>7 DEF asize
  <2> QED BY <2>5, <2>6
<1> QED BY <1>5, <1>6

\* mm_free(): the block is no longer in use, and the others are kept.
LEMMA Freed ==
  ASSUME NEW h, NEW sz, NEW U, Good(h.mem, h.brk, sz, U), NEW ptr \in U \ {HeapList},
         NEW r, r = MmFree(h, ptr)
  PROVE  /\ r.brk = h.brk
         /\ \E sz2 : /\ Good(r.mem, h.brk, sz2, U \ {ptr})
                     /\ Keeps(h.mem, sz, r.mem, sz2, U \ {ptr})
<1> DEFINE m == h.mem
           brk == h.brk
           F == DOMAIN sz \ U
           V == U \ {ptr}
           s == sz[ptr]
           end == ptr + s
           O == Outside(sz, ptr, end)
           nsz == OnePiece(ptr, end)
           csz == Recut(sz, ptr, end, nsz)
           m1 == Tagged(m, ptr, s, 0)
           c == Coalesce(m1, ptr)
<1>1. Heap(m, brk, sz, U, F) /\ \A b \in F : b + sz[b] \in U \cup {brk}
  BY DEF Good
<1>2. /\ Shape(brk, sz) /\ Marked(m, brk, sz, U) /\ U \subseteq DOMAIN sz /\ HeapList \in U
      /\ ptr \in DOMAIN sz \ {HeapList}
  BY <1>1 DEF Heap
<1>3. /\ ptr \in Nat /\ s \in Nat /\ s >= 16 /\ ptr % 8 = 0
      /\ end \in DOMAIN sz \cup {brk} /\ ptr < end /\ ptr + 16 <= end
  <2>1. ptr \in Nat /\ s \in Nat /\ s >= 16 /\ ptr % 8 = 0 /\ end \in DOMAIN sz \cup {brk}
    BY <1>2, BlockFacts
  <2> QED BY <2>1
<1>4. O = DOMAIN sz \ {ptr}
  BY <1>2, AroundOne
<1>5. r.mem = c.mem /\ r.brk = brk
  BY <1>2, ReadTags DEF MmFree
<1> HIDE DEF m, brk
<1>6. Heap(m1, brk, csz, V, F) /\ Only(m1, m, TagWords(nsz))
  <2>1. /\ V \subseteq O \cup {ptr} /\ F \subseteq O
        /\ \A b \in O : b \in V <=> b \in U
        /\ ptr \in V <=> 0 = 1
    <3> HIDE DEF O
    <3> QED BY <1>2, <1>4
  <2>2. 0 \in {0, 1} /\ end = ptr + s /\ m1 = Tagged(m, ptr, s, 0)
    OBVIOUS
  <2> HIDE DEF V, F, m1, end, s
  <2>3. /\ Heap(m1, brk, Recut(sz, ptr, end, OnePiece(ptr, end)), V, F)
        /\ Only(m1, m, TagWords(OnePiece(ptr, end)))
    BY <1>1, <1>2, <1>3, <2>1, <2>2, TagOne, SMTT(30)
  <2> QED BY <2>3
<1>7. DOMAIN csz = DOMAIN sz /\ \A b \in DOMAIN sz : csz[b] = sz[b]
  <2>1. DOMAIN nsz = {ptr} /\ nsz[ptr] = s
    BY <1>3 DEF OnePiece
  <2> HIDE DEF nsz, s, end
  <2> QED BY <1>2, <1>4, <2>1 DEF Recut, s
<1>8. Keeps(m, sz, m1, csz, V)
  <2>1. V \subseteq O
    <3> HIDE DEF O
    <3> QED BY <1>2, <1>4
  <2>2. Cut(ptr, end, nsz)
    <3>1. end \in Nat /\ end % 8 = 0
      BY <1>2, <1>3, EndFacts
    <3> HIDE DEF end
    <3> QED BY <1>3, <3>1, CutOne
  <2> HIDE DEF nsz, end, m1, V
  <2> QED BY <1>2, <1>3, <1>6, <2>1, <2>2, KeptByTags
<1> HIDE DEF csz, m1, s, nsz
<1>9. \E sz2 : /\ Good(c.mem, brk, sz2, V) /\ Keeps(m1, csz, c.mem, sz2, V)
               /\ c.ptr \in DOMAIN sz2 \ V
               /\ c.ptr <= ptr /\ ptr + csz[ptr] <= c.ptr + sz2[c.ptr]
  <2>1. ptr \in DOMAIN csz \ V /\ F = (DOMAIN csz \ V) \ {ptr}
    BY <1>2, <1>7
  <2>2. \A b \in (DOMAIN csz \ V) \ {ptr} : b + csz[b] \in V \cup {brk, ptr}
    BY <1>1, <1>7, <2>1
  <2> HIDE DEF c, F, V
  <2> QED BY <1>6, <2>1, <2>2, Coalesced DEF c
<1>10. PICK sz2 : Good(c.mem, brk, sz2, V) /\ Keeps(m1, csz, c.mem, sz2, V)
  BY <1>9
<1>11. Keeps(m, sz, c.mem, sz2, V)
  BY <1>8, <1>10, KeepsTrans
<1> QED BY <1>5, <1>10, <1>11 DEF m, brk

\* The tail of a block in use that another one follows is freed.
LEMMA TailFreed ==
  ASSUME NEW m, NEW brk, NEW sz, NEW U, Good(m, brk, sz, U), NEW ptr \in U \ {HeapList},
         ptr + sz[ptr] \in U \cup {brk},
         NEW s1 \in Nat, s1 % 8 = 0, s1 >= 16, NEW s2 \in Nat, s2 >= 16, sz[ptr] = s1 + s2,
         NEW m1, m1 = Tagged(Tagged(m, ptr, s1, 1), ptr + s1, s2, 0),
         NEW r, r = Coalesce(m1, ptr + s1)
  PROVE  /\ Uses(m, sz, r.mem, brk, U \ {ptr}, ptr, s1)
         /\ SamePayload(m, r.mem, ptr, s1)
<1> DEFINE F == DOMAIN sz \ U
           V == U \ {ptr}
           mid == ptr + s1
           end == mid + s2
           O == Outside(sz, ptr, end)
           nsz == TwoPieces(ptr, mid, end)
           csz == Recut(sz, ptr, end, nsz)
<1>1. Heap(m, brk, sz, U, F) /\ \A b \in F : b + sz[b] \in U \cup {brk}
  BY DEF Good
<1>2. /\ Shape(brk, sz) /\ Marked(m, brk, sz, U) /\ U \subseteq DOMAIN sz /\ HeapList \in U
      /\ ptr \in DOMAIN sz \ {HeapList}
  BY <1>1 DEF Heap
<1>3. /\ ptr \in Nat /\ ptr % 8 = 0 /\ end = ptr + sz[ptr] /\ end \in U \cup {brk}
      /\ end \in DOMAIN sz \cup {brk}
  <2>1. ptr \in Nat /\ ptr % 8 = 0 /\ end = ptr + sz[ptr]
    BY <1>2, BlockFacts
  <2> HIDE DEF end
  <2> QED BY <1>2, <2>1
<1>4. /\ mid \in Nat /\ mid % 8 = 0 /\ ptr + 16 <= mid /\ mid + 16 <= end /\ ptr # mid
      /\ end \in Nat /\ end % 8 = 0 /\ ptr < end
  <2>1. end \in Nat /\ end % 8 = 0
    BY <1>2, <1>3, EndFacts
  <2> HIDE DEF end
  <2>2. end = mid + s2
    BY DEF end
  <2> QED BY <1>3, <2>1, <2>2
<1>5. O = DOMAIN sz \ {ptr} /\ mid \notin O /\ mid \notin U
  <2>1. O = DOMAIN sz \ {ptr}
    <3> HIDE DEF end
    <3> QED BY <1>2, <1>3, AroundOne
  <2>2. mid \notin O
    <3> HIDE DEF mid, end
    <3> QED BY <1>3, <1>4 DEF Outside
  <2> HIDE DEF O
  <2> QED BY <1>2, <1>4, <2>1, <2>2
<1>6. Heap(m1, brk, csz, U, F) /\ Only(m1, m, TagWords(nsz))
  <2>1. /\ U \subseteq O \cup {ptr, mid} /\ F \subseteq O
        /\ \A b \in O : b \in U <=> b \in U
        /\ ptr \in U <=> 1 = 1
        /\ mid \in U <=> 0 = 1
    <3> HIDE DEF O, mid
    <3> QED BY <1>2, <1>5
  <2>2. 0 \in {0, 1} /\ 1 \in {0, 1} /\ mid = ptr + s1 /\ end = mid + s2
        /\ m1 = Tagged(Tagged(m, ptr, s1, 1), mid, s2, 0)
    OBVIOUS
  <2> HIDE DEF F, end, mid
  <2>3. /\ Heap(m1, brk, Recut(sz, ptr, end, TwoPieces(ptr, mid, end)), U, F)
        /\ Only(m1, m, TagWords(TwoPieces(ptr, mid, end)))
    BY <1>1, <1>2, <1>3, <1>4, <2>1, <2>2, TagTwo, SMTT(30)
  <2> QED BY <2>3
<1>7. DOMAIN nsz = {ptr, mid} /\ nsz[ptr] = s1 /\ nsz[mid] = s2
  BY <1>3, <1>4 DEF TwoPieces
<1>8. Keeps(m, sz, m1, csz, V)
  <2>1. V \subseteq O
    <3> HIDE DEF O
    <3> QED BY <1>2, <1>5
  <2>2. Cut(ptr, end, nsz)
    <3> HIDE DEF end, mid
    <3> QED BY <1>3, <1>4, CutTwo
  <2> HIDE DEF nsz, end, V
  <2> QED BY <1>2, <1>3, <1>4, <1>6, <2>1, <2>2, KeptByTags
<1>9. /\ DOMAIN csz = DOMAIN sz \cup {mid} /\ csz[ptr] = s1 /\ csz[mid] = s2
      /\ \A b \in DOMAIN sz \ {ptr} : csz[b] = sz[b]
  <2> HIDE DEF nsz, O, mid
  <2>1. csz = Recut(sz, ptr, end, nsz) /\ O = Outside(sz, ptr, end)
    BY DEF O
  <2>2. /\ DOMAIN csz = O \cup DOMAIN nsz
        /\ \A b \in DOMAIN nsz : csz[b] = nsz[b]
        /\ \A b \in O \ DOMAIN nsz : csz[b] = sz[b]
    <3> HIDE DEF csz
    <3> QED BY <2>1 DEF Recut, Outside
  <2> HIDE DEF csz
  <2> QED BY <1>2, <1>5, <1>7, <2>2
<1> HIDE DEF csz
<1>10. SamePayload(m, m1, ptr, s1)
  <2> SUFFICES ASSUME NEW a \in Words, a \in ptr .. ptr + s1 - 9 PROVE m1[a] = m[a]
    BY DEF SamePayload
  <2>1. TagWords(nsz) = {ptr - 4, ptr + s1 - 8, mid - 4, mid + s2 - 8}
    <3> HIDE DEF nsz
    <3> QED BY <1>7 DEF TagWords
  <2>2. a # ptr - 4 /\ a # ptr + s1 - 8 /\ a # mid - 4 /\ a # mid + s2 - 8
    BY <1>3
  <2> QED BY <1>6, <2>1, <2>2 DEF Only
<1> HIDE DEF nsz
<1>11. \E sz2 : /\ Good(r.mem, brk, sz2, U) /\ Keeps(m1, csz, r.mem, sz2, U)
                /\ r.ptr \in DOMAIN sz2 \ U
                /\ r.ptr <= mid /\ mid + csz[mid] <= r.ptr + sz2[r.ptr]
  <2>1. mid \in DOMAIN csz \ U /\ F = (DOMAIN csz \ U) \ {mid}
    <3> HIDE DEF mid, O
    <3> QED BY <1>2, <1>4, <1>5, <1>9
  <2>2. \A b \in (DOMAIN csz \ U) \ {mid} : b + csz[b] \in U \cup {brk, mid}
    <3>1. \A b \in F : csz[b] = sz[b]
      BY <1>9
    <3> HIDE DEF mid
    <3> QED BY <1>1, <2>1, <3>1
  <2>3. r = Coalesce(m1, mid)
    OBVIOUS
  <2> HIDE DEF F, mid
  <2> QED BY <1>6, <2>1, <2>2, <2>3, Coalesced
<1>12. PICK sz2 : Good(r.mem, brk, sz2, U) /\ Keeps(m1, csz, r.mem, sz2, U)
  BY <1>11
<1>13. Keeps(m, sz, r.mem, sz2, V)
  BY <1>8, <1>12, KeepsFewer, KeepsTrans
<1>14. /\ ptr \in DOMAIN sz2 /\ sz2[ptr] = s1
       /\ \A a \in Words : a \in ptr .. ptr + s1 - 9 => r.mem[a] = m1[a]
  BY <1>9, <1>12 DEF Keeps
<1>15. V \cup {ptr} = U
  OBVIOUS
<1> QED BY <1>10, <1>12, <1>13, <1>14, <1>15 DEF Uses, SamePayload

\* What was in the payload of ptr, in a block of old bytes, is in that of bp, as
\* much of it as there is room for in a block of new bytes.
DataKept(m, ptr, old, m2, bp, new) ==
  \A a \in Words : a \in bp .. bp + old - 9 /\ a \in bp .. bp + new - 9
                     => m2[a] = m[ptr + (a - bp)]

\* The block ptr is replaced by bp, which has room for size bytes; its data and
\* the other blocks are kept.
Resizes(m, sz, r, U, ptr, bp, size) ==
  \E sz2 : /\ Good(r.mem, r.brk, sz2, (U \ {ptr}) \cup {bp})
           /\ Keeps(m, sz, r.mem, sz2, U \ {ptr})
           /\ bp \in DOMAIN sz2 /\ sz2[bp] >= size /\ bp \notin U \ {ptr}
           /\ DataKept(m, ptr, sz[ptr], r.mem, bp, size)

\* Growing in place into the free block that follows.
LEMMA GrownInPlace ==
  ASSUME NEW h, NEW sz, NEW U, Good(h.mem, h.brk, sz, U), NEW ptr \in U \ {HeapList},
         NEW n, n = ptr + sz[ptr], n \in DOMAIN sz \ U,
         NEW newSize \in Nat, newSize % 8 = 0, newSize >= 16,
         sz[ptr] < newSize, newSize <= sz[ptr] + sz[n],
         NEW r, r = GrowInPlace(h, ptr, newSize)
  PROVE  Resizes(h.mem, sz, r, U, ptr, ptr, newSize) /\ r.ptr = ptr /\ r.brk = h.brk
<1> DEFINE m == h.mem
           brk == h.brk
           F == DOMAIN sz \ U
           G == F \ {n}
           V == U \ {ptr}
           m1 == RemoveFree(m, n)
           end == n + sz[n]
           size == sz[ptr] + sz[n]
           spare == size - newSize
<1>1. Heap(m, brk, sz, U, F) /\ \A b \in F : b + sz[b] \in U \cup {brk}
  BY DEF Good
<1>2. /\ Shape(brk, sz) /\ Marked(m, brk, sz, U) /\ U \subseteq DOMAIN sz /\ HeapList \in U
      /\ ptr \in DOMAIN sz \ {HeapList} /\ n \in DOMAIN sz
  BY <1>1 DEF Heap
<1>3. /\ ptr \in Nat /\ sz[ptr] \in Nat /\ sz[ptr] >= 16 /\ n \in Nat /\ sz[n] \in Nat /\ sz[n] >= 8
      /\ end \in U \cup {brk} /\ end \in DOMAIN sz \cup {brk} /\ end \in Nat /\ ptr < end
      /\ size \in Nat /\ end = ptr + size /\ spare \in Nat
  <2>1. /\ ptr \in Nat /\ sz[ptr] \in Nat /\ sz[ptr] >= 16 /\ n \in Nat /\ sz[n] \in Nat
        /\ sz[n] >= 8
    BY <1>2, BlockFacts, ShapeFacts
  <2>2. end \in U \cup {brk}
    BY <1>1
  <2> QED BY <1>2, <2>1, <2>2
<1>4. /\ Size(m, ptr) = sz[ptr] /\ NextBlk(m, ptr) = n /\ Size(m, n) = sz[n]
      /\ ~Allocated(m, n)
  BY <1>2, ReadTags
<1>5. /\ r.ptr = ptr /\ r.brk = brk
      /\ r.mem = IF spare < 16 THEN Tagged(m1, ptr, size, 1)
                 ELSE InsertFree(Tagged(Tagged(m1, ptr, newSize, 1), ptr + newSize, spare, 0),
                                 ptr + newSize)
  <2>1. Spare(m, ptr, newSize) = spare /\ newSize + spare = size
    BY <1>3, <1>4 DEF Spare
  <2> HIDE DEF spare, size
  <2> QED BY <1>4, <2>1 DEF GrowInPlace
<1> HIDE DEF m, brk
<1>6. Heap(m1, brk, sz, U, G) /\ Keeps(m, sz, m1, sz, U)
  <2>1. Heap(m1, brk, sz, U, G) /\ Only(m1, m, LinkWords(F))
    BY <1>1, Removed
  <2>2. Keeps(m, sz, m1, sz, U)
    <3> HIDE DEF m1
    <3> QED BY <1>2, <2>1, KeptByLinks
  <2> QED BY <2>1, <2>2
<1>7. V = U \cap Outside(sz, ptr, end) /\ G = Outside(sz, ptr, end) \ U
  <2>1. Outside(sz, ptr, end) = DOMAIN sz \ {ptr, n}
    BY <1>2, AroundTwo
  <2> HIDE DEF end
  <2> QED BY <1>2, <2>1
<1>8. Around(m1, brk, sz, U, G, ptr, end, {brk, ptr})
  <2>1. \A b \in G : b + sz[b] \in (U \cap Outside(sz, ptr, end)) \cup {brk, ptr}
    <3> HIDE DEF end
    <3> QED BY <1>1, <1>7
  <2> HIDE DEF end, G, m1
  <2> QED BY <1>2, <1>3, <1>6, <1>7, <2>1 DEF Around
<1>v. PICK W : W = U \cap Outside(sz, ptr, end) /\ W = V
  BY <1>7
<1> HIDE DEF end, G, m1, size, spare
<1>9. \E s : Uses(m1, sz, r.mem, brk, W, ptr, s) /\ SamePayload(m1, r.mem, ptr, s)
             /\ s \in Nat /\ s >= newSize
  <2>1. CASE spare < 16
    <3> DEFINE m2 == Tagged(m1, ptr, size, 1)
    <3>1. r.mem = m2
      BY <1>5, <2>1
    <3> HIDE DEF m2
    <3>2. Uses(m1, sz, m2, brk, W, ptr, size) /\ SamePayload(m1, m2, ptr, size)
      BY <1>3, <1>v, <1>8, OneUsed DEF m2
    <3>3. size \in Nat /\ size >= newSize
      BY <1>3 DEF size
    <3> QED BY <3>1, <3>2, <3>3
  <2>2. CASE ~(spare < 16)
    <3> DEFINE mid == ptr + newSize
               m2 == InsertFree(Tagged(Tagged(m1, ptr, newSize, 1), mid, spare, 0), mid)
    <3>1. r.mem = m2
      BY <1>5, <2>2
    <3>2. /\ spare \in Nat /\ spare >= 16 /\ mid = ptr + newSize /\ end = mid + spare
          /\ m2 = InsertFree(Tagged(Tagged(m1, ptr, newSize, 1), mid, spare, 0), mid)
      BY <1>3, <2>2 DEF spare
    <3> HIDE DEF m2, mid
    <3>3. Uses(m1, sz, m2, brk, W, ptr, newSize) /\ SamePayload(m1, m2, ptr, newSize)
      BY <1>3, <1>v, <1>8, <3>2, LowUsed
    <3> QED BY <3>1, <3>3
  <2> QED BY <2>1, <2>2
<1>10. PICK s : /\ Uses(m1, sz, r.mem, brk, W, ptr, s) /\ SamePayload(m1, r.mem, ptr, s)
                /\ s \in Nat /\ s >= newSize
  BY <1>9
<1>11. PICK sz2 : /\ Good(r.mem, brk, sz2, W \cup {ptr}) /\ Keeps(m1, sz, r.mem, sz2, W)
                  /\ ptr \in DOMAIN sz2 /\ sz2[ptr] = s /\ ptr \notin W
  BY <1>10 DEF Uses
<1>12. Keeps(m, sz, r.mem, sz2, W)
  <2>1. W \subseteq U
    BY <1>v
  <2> QED BY <1>6, <1>11, <2>1, KeepsFewer, KeepsTrans
<1>13. DataKept(m, ptr, sz[ptr], r.mem, ptr, newSize)
  <2> SUFFICES ASSUME NEW a \in Words, a \in ptr .. ptr + sz[ptr] - 9, a \in ptr .. ptr + newSize - 9
               PROVE  r.mem[a] = m[ptr + (a - ptr)]
    BY DEF DataKept
  <2>1. ptr + (a - ptr) = a
    BY <1>3
  <2>2. m1[a] = m[a]
    BY <1>6 DEF Keeps
  <2>3. a \in ptr .. ptr + s - 9
    BY <1>3, <1>10
  <2>4. r.mem[a] = m1[a]
    BY <1>10, <2>3 DEF SamePayload
  <2> QED BY <2>1, <2>2, <2>4
<1>14. sz2[ptr] >= newSize
  BY <1>10, <1>11
<1> QED BY <1>5, <1>11, <1>12, <1>13, <1>14, <1>v DEF Resizes, m, brk

InPayload(sz, U, a) == \E b \in U \ {HeapList} : a \in b .. b + sz[b] - 9

\* A write between the tags of blocks in use leaves the heap good.
LEMMA PayloadWrite ==
  ASSUME NEW m, NEW brk, NEW sz, NEW U, Good(m, brk, sz, U), NEW m2, DOMAIN m2 = Words,
         \A a \in Words : m2[a] # m[a] => InPayload(sz, U, a)
  PROVE  Good(m2, brk, sz, U)
<1> USE DEF InPayload
<1> DEFINE F == DOMAIN sz \ U
<1>1. /\ Heap(m, brk, sz, U, F) /\ \A b \in F : b + sz[b] \in U \cup {brk}
  BY DEF Good
<1>2. /\ Shape(brk, sz) /\ Marked(m, brk, sz, U) /\ U \subseteq DOMAIN sz /\ HeapList \in U
      /\ F \subseteq DOMAIN sz \ {HeapList} /\ Linked(m, F, sz)
  BY <1>1 DEF Heap
<1>3. ASSUME NEW b \in U \ {HeapList}, NEW a, a \in b .. b + sz[b] - 9, NEW c \in DOMAIN sz
      PROVE  /\ a # c - 4 /\ a # c + sz[c] - 8 /\ a # brk - 4
             /\ c # b => a # c /\ a # c + 4
             /\ \A i \in Lists : a # i * 4
  <2>1. /\ b \in DOMAIN sz /\ b \in Nat /\ sz[b] \in Nat /\ b + sz[b] <= brk /\ HeapList + 8 <= b
        /\ HeapList \in Nat /\ brk \in Nat
    BY <1>2, BlockFacts, ShapeFacts
  <2>2. c \in Nat /\ sz[c] \in Nat /\ sz[c] >= 8
    BY <1>2, ShapeFacts
  <2>3. b # c => b + sz[b] <= c \/ c + sz[c] <= b
    BY <1>2, <2>1, Apart
  <2>5. \A i \in Lists : i * 4 \in Nat /\ i * 4 + 12 <= HeapList
    BY PrologueFacts
  <2>7. \A i \in Lists : a # i * 4
    BY <1>3, <2>1, <2>5
  <2>8. a # c - 4 /\ a # c + sz[c] - 8 /\ a # brk - 4
    BY <1>3, <2>1, <2>2, <2>3
  <2>9. c # b => a # c /\ a # c + 4
    BY <1>3, <2>1, <2>2, <2>3
  <2> QED BY <2>7, <2>8, <2>9
<1>4. Marked(m2, brk, sz, U)
  <2>1. \A a \in Words : a = brk - 4 => m2[a] = m[a]
    BY <1>2, <1>3
  <2>2. \A c \in DOMAIN sz : m2[c - 4] = m[c - 4] /\ m2[c + sz[c] - 8] = m[c + sz[c] - 8]
    BY <1>2, <1>3, WordFacts
  <2>3. m2[brk - 4] = m[brk - 4]
    BY <1>2, <2>1, WordFacts
  <2> QED BY <1>2, <2>2, <2>3 DEF Marked
<1>5. Linked(m2, F, sz)
  <2>1. ASSUME NEW a \in LinkWords(F) PROVE m2[a] = m[a]
    <3>1. a \in Words
      BY <1>2, WordFacts DEF LinkWords
    <3>2. ASSUME NEW b \in U \ {HeapList}, a \in b .. b + sz[b] - 9 PROVE FALSE
      <4>1. CASE \E i \in Lists : a = i * 4
        BY <1>2, <1>3, <3>2, <4>1
      <4>2. ASSUME NEW c \in F, a = c \/ a = c + 4 PROVE FALSE
        <5>1. c \in DOMAIN sz /\ c # b
          OBVIOUS
        <5> QED BY <1>3, <3>2, <4>2, <5>1
      <4> QED BY <4>1, <4>2 DEF LinkWords
    <3> QED BY <3>1, <3>2
  <2> HIDE DEF F
  <2> QED BY <1>2, <2>1, LinkedStays
<1>6. Heap(m2, brk, sz, U, F)
  BY <1>1, <1>4, <1>5 DEF Heap
<1> QED BY <1>1, <1>6 DEF Good

\* Moving to another block: the data are copied, and the old block is freed.
LEMMA Moved ==
  ASSUME NEW h, NEW sz, NEW U, Good(h.mem, h.brk, sz, U), NEW ptr \in U \ {HeapList},
         NEW size \in Nat, size > 0, sz[ptr] < ALIGN(size) + 8, NEW r, r = Move(h, ptr, size)
  PROVE  IF r.ptr = NULL
         THEN r.mem = h.mem /\ r.brk = h.brk /\ h.brk + Demand(size) > MAX_HEAP
         ELSE /\ Resizes(h.mem, sz, r, U, ptr, r.ptr, ALIGN(size) + 8)
              /\ r.brk = h.brk \/ r.brk = h.brk + Demand(size)
<1> DEFINE new == MmMalloc(h, size)
           n == sz[ptr] - 8
           bp == new.ptr
           copy == Copied(new.mem, bp, ptr, n)
           h2 == [mem |-> copy, brk |-> new.brk]
           free == MmFree(h2, ptr)
           newSize == ALIGN(size) + 8
<1>1. /\ Shape(h.brk, sz) /\ Marked(h.mem, h.brk, sz, U) /\ U \subseteq DOMAIN sz
      /\ HeapList \in U /\ ptr \in DOMAIN sz \ {HeapList}
  BY DEF Good, Heap
<1>2. /\ Size(h.mem, ptr) = sz[ptr] /\ ptr \in Nat /\ ptr % 8 = 0 /\ sz[ptr] \in Nat
      /\ sz[ptr] >= 16 /\ ptr + sz[ptr] <= h.brk /\ h.brk \in Nat /\ h.brk <= MAX_HEAP
      /\ MAX_HEAP \in Nat /\ newSize \in Nat /\ sz[ptr] < newSize
  <2>1. Size(h.mem, ptr) = sz[ptr] /\ h.brk <= MAX_HEAP /\ MAX_HEAP \in Nat
    BY <1>1, ReadTags, EndFacts
  <2>2. ALIGN(size) \in Nat
    BY RoundedUp
  <2> DEFINE t == ALIGN(size)
  <2> HIDE DEF t
  <2>3. newSize \in Nat
    BY <2>2 DEF t
  <2> QED BY <1>1, <2>1, <2>3, BlockFacts, ShapeFacts
<1>3. IF new.ptr = NULL
      THEN new.mem = h.mem /\ new.brk = h.brk /\ h.brk + Demand(size) > MAX_HEAP
      ELSE /\ Gives(h.mem, sz, new, U, new.ptr, newSize)
           /\ new.brk = h.brk \/ new.brk = h.brk + Demand(size)
  BY Malloced
<1>4. r = IF bp = NULL THEN new ELSE [mem |-> free.mem, brk |-> new.brk, ptr |-> bp]
  BY <1>2 DEF Move, MovedTo
<1>5. CASE bp = NULL
  BY <1>3, <1>4, <1>5
<1>6. CASE bp # NULL
  <2>1. PICK sz2 : /\ Good(new.mem, new.brk, sz2, U \cup {bp})
                   /\ Keeps(h.mem, sz, new.mem, sz2, U)
                   /\ bp \in DOMAIN sz2 /\ sz2[bp] >= newSize /\ bp \notin U
    BY <1>3, <1>6 DEF Gives
  <2> HIDE DEF new, newSize
  <2>2. /\ Shape(new.brk, sz2) /\ U \subseteq DOMAIN sz2 /\ DOMAIN copy = Words
        /\ bp \in Nat /\ bp % 8 = 0 /\ sz2[bp] \in Nat /\ sz[ptr] < sz2[bp]
    <3>1. Shape(new.brk, sz2) /\ U \subseteq DOMAIN sz2
      BY <2>1 DEF Good, Heap
    <3>2. bp \in Nat /\ bp % 8 = 0 /\ sz2[bp] \in Nat
      BY <1>1, <2>1, <3>1, BlockFacts
    <3> HIDE DEF bp
    <3>3. sz[ptr] < sz2[bp]
      BY <1>2, <2>1, <3>2
    <3> QED BY <3>1, <3>2, <3>3 DEF Copied
  <2>3. \A a \in Words : copy[a] = IF a \in bp .. bp + sz[ptr] - 9 THEN new.mem[ptr + (a - bp)]
                                   ELSE new.mem[a]
    <3>1. bp + n - 1 = bp + sz[ptr] - 9
      BY <1>2, <2>2
    <3> HIDE DEF n
    <3> QED BY <3>1 DEF Copied
  <2> HIDE DEF copy, bp
  <2>4. \A a : a \in bp .. bp + sz[ptr] - 9 => a \in bp .. bp + sz2[bp] - 9
    BY <1>2, <2>2
  <2>5. Good(copy, new.brk, sz2, U \cup {bp})
    <3>1. bp \in (U \cup {bp}) \ {HeapList}
      BY <1>1, <2>1
    <3>2. \A a \in Words : copy[a] # new.mem[a] => a \in bp .. bp + sz2[bp] - 9
      BY <2>3, <2>4
    <3>3. \A a \in Words : copy[a] # new.mem[a] => InPayload(sz2, U \cup {bp}, a)
      BY <3>1, <3>2 DEF InPayload
    <3> QED BY <2>1, <2>2, <3>3, PayloadWrite
  <2>6. Keeps(h.mem, sz, copy, sz2, U)
    <3>1. ASSUME NEW b \in U, NEW a \in Words, a \in b .. b + sz[b] - 9
          PROVE  copy[a] = new.mem[a]
      <4>1. b \in DOMAIN sz2 /\ sz2[b] = sz[b] /\ b # bp
        BY <2>1, <3>1 DEF Keeps
      <4>2. b + sz2[b] <= bp \/ bp + sz2[bp] <= b
        BY <2>1, <2>2, <4>1, Apart
      <4>3. b \in Nat /\ sz2[b] \in Nat
        BY <2>2, <4>1, ShapeFacts
      <4>4. a \notin bp .. bp + sz[ptr] - 9
        BY <1>2, <2>2, <3>1, <4>1, <4>2, <4>3
      <4> QED BY <2>3, <4>4
    <3> QED BY <2>1, <3>1 DEF Keeps
  <2>7. PICK sz3 : /\ Good(free.mem, new.brk, sz3, (U \cup {bp}) \ {ptr})
                   /\ Keeps(copy, sz2, free.mem, sz3, (U \cup {bp}) \ {ptr})
    <3>1. h2.mem = copy /\ h2.brk = new.brk /\ ptr \in (U \cup {bp}) \ {HeapList}
      OBVIOUS
    <3> HIDE DEF h2
    <3>2. Good(h2.mem, h2.brk, sz2, U \cup {bp})
      BY <2>5, <3>1
    <3> HIDE DEF free
    <3>3. /\ free.brk = h2.brk
          /\ \E sz3 : /\ Good(free.mem, h2.brk, sz3, (U \cup {bp}) \ {ptr})
                      /\ Keeps(h2.mem, sz2, free.mem, sz3, (U \cup {bp}) \ {ptr})
      BY <3>1, <3>2, Freed DEF free
    <3> QED BY <3>1, <3>3
  <2>8. (U \cup {bp}) \ {ptr} = (U \ {ptr}) \cup {bp} /\ bp \notin U \ {ptr}
    BY <2>1
  <2>9. Keeps(h.mem, sz, free.mem, sz3, U \ {ptr})
    <3>1. Keeps(h.mem, sz, copy, sz2, U \ {ptr})
      BY <2>6, KeepsFewer
    <3>2. Keeps(copy, sz2, free.mem, sz3, U \ {ptr})
      BY <2>7, KeepsFewer
    <3> QED BY <3>1, <3>2, KeepsTrans
  <2>10. bp \in DOMAIN sz3 /\ sz3[bp] = sz2[bp]
         /\ \A a \in Words : a \in bp .. bp + sz2[bp] - 9 => free.mem[a] = copy[a]
    BY <2>7, <2>8 DEF Keeps
  <2>11. DataKept(h.mem, ptr, sz[ptr], free.mem, bp, newSize)
    <3> SUFFICES ASSUME NEW a \in Words, a \in bp .. bp + sz[ptr] - 9
                 PROVE  free.mem[a] = h.mem[ptr + (a - bp)]
      BY DEF DataKept
    <3>1. free.mem[a] = copy[a] /\ copy[a] = new.mem[ptr + (a - bp)]
      BY <2>3, <2>4, <2>10
    <3> DEFINE c == ptr + (a - bp)
    <3>2. c \in ptr .. ptr + sz[ptr] - 9 /\ c \in Nat
      BY <1>2, <2>2
    <3>3. c \in Words
      <4>1. a \in Nat /\ a % 4 = 0
        <5>1. PICK i \in 0 .. MAX_HEAP \div 4 - 1 : a = 4 * i
          BY DEF Words
        <5>2. i \in Nat
          OBVIOUS
        <5> QED BY <5>1, <5>2
      <4>2. c % 4 = 0
        BY <1>2, <2>2, <3>2, <4>1
      <4>3. c + 4 <= MAX_HEAP
        <5>1. c + 9 <= ptr + sz[ptr]
          BY <1>2, <3>2
        <5> HIDE DEF c
        <5> QED BY <1>2, <3>2, <5>1
      <4> HIDE DEF c
      <4> QED BY <3>2, <4>2, <4>3, IsWord
    <3> HIDE DEF c
    <3>4. new.mem[c] = h.mem[c]
      BY <2>1, <3>2, <3>3 DEF Keeps
    <3> QED BY <3>1, <3>4 DEF c
  <2>12. r.mem = free.mem /\ r.brk = new.brk /\ r.ptr = bp
    BY <1>4, <1>6
  <2>13. sz3[bp] >= newSize
    BY <2>1, <2>10
  <2>14. Resizes(h.mem, sz, r, U, ptr, bp, newSize)
    BY <2>7, <2>8, <2>9, <2>10, <2>11, <2>12, <2>13 DEF Resizes
  <2> QED BY <1>3, <1>6, <2>12, <2>14 DEF newSize, bp
<1> QED BY <1>5, <1>6

\* Shrinking a block that another one in use follows, or nothing.
LEMMA Shrunk ==
  ASSUME NEW h, NEW sz, NEW U, Good(h.mem, h.brk, sz, U), NEW ptr \in U \ {HeapList},
         NEW old \in Nat, old = sz[ptr], ptr + old \in U \cup {h.brk},
         NEW newSize \in Nat, newSize % 8 = 0, newSize >= 16, newSize < old,
         NEW r, r = Shrink(h, ptr, newSize)
  PROVE  Resizes(h.mem, sz, r, U, ptr, ptr, newSize) /\ r.ptr = ptr /\ r.brk = h.brk
<1> DEFINE m == h.mem
           brk == h.brk
           n == ptr + sz[ptr]
           spare == sz[ptr] - newSize
           m1 == Tagged(Tagged(m, ptr, newSize, 1), ptr + newSize, spare, 0)
           c == Coalesce(m1, ptr + newSize)
<1>1. /\ Shape(brk, sz) /\ Marked(m, brk, sz, U) /\ U \subseteq DOMAIN sz
      /\ ptr \in DOMAIN sz \ {HeapList} /\ Good(m, brk, sz, U) /\ n \in U \cup {brk}
  BY DEF Good, Heap
<1>2. ptr \in Nat /\ sz[ptr] \in Nat /\ spare \in Nat
  <2>1. ptr \in Nat /\ sz[ptr] \in Nat
    BY <1>1, BlockFacts
  <2> QED BY <2>1
<1>3. Size(m, ptr) = sz[ptr] /\ NextBlk(m, ptr) = n /\ Allocated(m, n)
  <2> HIDE DEF m, brk
  <2> QED BY <1>1, ReadTags, ReadEpilogue
<1>4. /\ r.mem = (IF spare >= 16 THEN c.mem ELSE m) /\ r.brk = brk /\ r.ptr = ptr
  <2>1. Spare(m, ptr, newSize) = spare
    BY <1>2, <1>3 DEF Spare
  <2>2. r.mem = (IF Spare(m, ptr, newSize) >= 16
                 THEN Coalesce(Tagged(Tagged(m, ptr, newSize, 1), ptr + newSize,
                                      Spare(m, ptr, newSize), 0), ptr + newSize).mem
                 ELSE m)
        /\ r.brk = brk /\ r.ptr = ptr
    BY DEF Shrink
  <2> HIDE DEF spare
  <2> QED BY <2>1, <2>2
<1> HIDE DEF m, brk, n
<1>5. CASE spare >= 16
  <2> DEFINE W == U \ {ptr}
  <2>1. /\ newSize \in Nat /\ spare \in Nat /\ spare >= 16 /\ sz[ptr] = newSize + spare
        /\ m1 = Tagged(Tagged(m, ptr, newSize, 1), ptr + newSize, spare, 0)
        /\ c = Coalesce(m1, ptr + newSize) /\ ptr + sz[ptr] \in U \cup {brk}
    BY <1>1, <1>2, <1>5 DEF n
  <2> HIDE DEF m1, c, spare
  <2>2. Uses(m, sz, c.mem, brk, U \ {ptr}, ptr, newSize) /\ SamePayload(m, c.mem, ptr, newSize)
    BY <1>1, <2>1, TailFreed
  <2>3. DataKept(m, ptr, sz[ptr], c.mem, ptr, newSize)
    <3> SUFFICES ASSUME NEW a \in Words, a \in ptr .. ptr + newSize - 9
                 PROVE  c.mem[a] = m[ptr + (a - ptr)]
      BY DEF DataKept
    <3>1. ptr + (a - ptr) = a
      BY <1>2
    <3> QED BY <2>2, <3>1 DEF SamePayload
  <2>4. PICK sz2 : /\ Good(c.mem, brk, sz2, (U \ {ptr}) \cup {ptr}) /\ Keeps(m, sz, c.mem, sz2, U \ {ptr})
                   /\ ptr \in DOMAIN sz2 /\ sz2[ptr] = newSize /\ ptr \notin U \ {ptr}
    BY <2>2 DEF Uses
  <2>5. sz2[ptr] >= newSize
    BY <2>4
  <2>6. r.mem = c.mem
    BY <1>4, <1>5
  <2> QED BY <1>4, <2>3, <2>4, <2>5, <2>6 DEF Resizes, m, brk
<1>6. CASE ~(spare >= 16)
  <2>1. r.mem = m /\ (U \ {ptr}) \cup {ptr} = U
    BY <1>4, <1>6
  <2>2. Keeps(m, sz, m, sz, U \ {ptr})
    BY <1>1 DEF Keeps
  <2>3. DataKept(m, ptr, sz[ptr], m, ptr, newSize)
    <3> SUFFICES ASSUME NEW a \in Words, a \in ptr .. ptr + newSize - 9
                 PROVE  m[a] = m[ptr + (a - ptr)]
      BY DEF DataKept
    <3> QED BY <1>2
  <2>4. sz[ptr] >= newSize
    BY <1>2
  <2> QED BY <1>1, <1>4, <2>1, <2>2, <2>3, <2>4 DEF Resizes, m, brk
<1> QED BY <1>5, <1>6

\* r is what Grow() may return.
Enlarges(h, sz, U, ptr, size, newSize, r) ==
  IF r.ptr = NULL
  THEN /\ r.mem = h.mem /\ r.brk = h.brk /\ h.brk + Demand(size) > MAX_HEAP
       /\ ~(Spare(h.mem, ptr, newSize) >= 0)
  ELSE /\ Resizes(h.mem, sz, r, U, ptr, r.ptr, newSize)
       /\ r.brk = h.brk \/ r.brk = h.brk + Demand(size)

\* A larger block, in place or elsewhere.
LEMMA Grew ==
  ASSUME NEW h, NEW sz, NEW U, Good(h.mem, h.brk, sz, U), NEW ptr \in U \ {HeapList},
         NEW size \in Nat, size > 0, NEW newSize, newSize = ALIGN(size) + 8,
         NEW old, old = sz[ptr], old < newSize, NEW r, r = Grow(h, ptr, size, newSize)
  PROVE  Enlarges(h, sz, U, ptr, size, newSize, r)
<1> USE DEF Enlarges
<1> DEFINE n == ptr + sz[ptr]
<1>1. /\ Shape(h.brk, sz) /\ Marked(h.mem, h.brk, sz, U) /\ U \subseteq DOMAIN sz
      /\ ptr \in DOMAIN sz \ {HeapList}
  BY DEF Good, Heap
<1>2. /\ newSize \in Nat /\ newSize % 8 = 0 /\ newSize >= 16
      /\ ptr \in Nat /\ sz[ptr] \in Nat /\ n \in DOMAIN sz \cup {h.brk} /\ ptr # NULL
  <2>1. ALIGN(size) \in Nat /\ ALIGN(size) % 8 = 0 /\ size <= ALIGN(size)
    BY RoundedUp
  <2> DEFINE t == ALIGN(size)
  <2> HIDE DEF t
  <2>2. newSize \in Nat /\ newSize % 8 = 0 /\ newSize >= 16
    BY <2>1 DEF t
  <2>3. /\ ptr \in Nat /\ sz[ptr] \in Nat /\ n \in DOMAIN sz \cup {h.brk} /\ ptr >= 24
    BY <1>1, BlockFacts
  <2> QED BY <2>2, <2>3
<1>3. CASE Spare(h.mem, ptr, newSize) >= 0
  <2>1. n \in DOMAIN sz \ U /\ newSize <= sz[ptr] + sz[n]
    <3>1. Size(h.mem, ptr) = sz[ptr] /\ NextBlk(h.mem, ptr) = n
      BY <1>1, ReadTags
    <3>2. ~Allocated(h.mem, n)
      <4> SUFFICES ASSUME Allocated(h.mem, n) PROVE FALSE
        OBVIOUS
      <4>1. Spare(h.mem, ptr, newSize) = sz[ptr] - newSize + 0
        BY <3>1 DEF Spare
      <4> QED BY <1>2, <1>3, <4>1
    <3>3. n \in DOMAIN sz \ U
      BY <1>1, <1>2, <3>2, ReadTags, ReadEpilogue
    <3>4. Size(h.mem, n) = sz[n] /\ sz[n] \in Nat
      BY <1>1, <3>3, ReadTags, ShapeFacts
    <3>5. Spare(h.mem, ptr, newSize) = sz[ptr] - newSize + sz[n]
      BY <3>1, <3>2, <3>4 DEF Spare
    <3> HIDE DEF n
    <3> QED BY <1>2, <1>3, <3>3, <3>4, <3>5
  <2>2. r = GrowInPlace(h, ptr, newSize) /\ n = ptr + sz[ptr]
    BY <1>3 DEF Grow
  <2> HIDE DEF n
  <2>3. Resizes(h.mem, sz, r, U, ptr, ptr, newSize) /\ r.ptr = ptr /\ r.brk = h.brk
    BY <1>2, <2>1, <2>2, GrownInPlace
  <2> QED BY <1>2, <2>3
<1>4. CASE ~(Spare(h.mem, ptr, newSize) >= 0)
  <2>1. r = Move(h, ptr, size)
    BY <1>4 DEF Grow
  <2>2. IF r.ptr = NULL
        THEN r.mem = h.mem /\ r.brk = h.brk /\ h.brk + Demand(size) > MAX_HEAP
        ELSE /\ Resizes(h.mem, sz, r, U, ptr, r.ptr, ALIGN(size) + 8)
             /\ r.brk = h.brk \/ r.brk = h.brk + Demand(size)
    BY <2>1, Moved
  <2> QED BY <1>4, <2>2
<1> QED BY <1>3, <1>4

\* When the heap has been extended for a block at its top, there is room for
\* the block to grow in place.
LEMMA TopExtended ==
  ASSUME NEW h, NEW sz, NEW U, Good(h.mem, h.brk, sz, U), NEW ptr \in U \ {HeapList},
         AtTop(h.mem, ptr), NEW newSize \in Nat,
         NEW d \in Nat, d > 8, d >= -Spare(h.mem, ptr, newSize),
         NEW h1, h1 = ExtendHeap(h, d), ~(h.brk + ALIGN(d) > MAX_HEAP)
  PROVE  \E sz1 : /\ Good(h1.mem, h1.brk, sz1, U) /\ Keeps(h.mem, sz, h1.mem, sz1, U)
                  /\ Spare(h1.mem, ptr, newSize) >= 0
<1> DEFINE n == ptr + sz[ptr]
           t == ALIGN(d)
           x == h1.ptr
           brk == h.brk
           top == h1.brk
<1>1. /\ Shape(h.brk, sz) /\ Marked(h.mem, h.brk, sz, U) /\ U \subseteq DOMAIN sz
      /\ ptr \in DOMAIN sz \ {HeapList} /\ \A b \in DOMAIN sz \ U : b + sz[b] \in U \cup {h.brk}
  BY DEF Good, Heap
<1>2. /\ ptr \in Nat /\ sz[ptr] \in Nat /\ sz[ptr] >= 16 /\ n \in DOMAIN sz \cup {h.brk}
      /\ h.brk \in Nat /\ n \in Nat
  BY <1>1, BlockFacts, ShapeFacts
<1>3. h1.brk = h.brk + ALIGN(d) /\ Extends(h, sz, U, h1)
  BY Extended
<1>4. PICK sz1 : /\ Good(h1.mem, h1.brk, sz1, U) /\ Keeps(h.mem, sz, h1.mem, sz1, U)
                 /\ x \in DOMAIN sz1 \ U /\ x <= brk /\ top <= x + sz1[x]
  BY <1>3 DEF Extends
<1>5. /\ Shape(top, sz1) /\ Marked(h1.mem, top, sz1, U)
      /\ \A b \in DOMAIN sz1 \ U : b + sz1[b] \in U \cup {top}
      /\ ptr \in DOMAIN sz1 /\ sz1[ptr] = sz[ptr] /\ U \subseteq DOMAIN sz1
      /\ \A b \in U : sz1[b] = sz[b]
  BY <1>1, <1>4 DEF Good, Heap, Keeps
<1>6. /\ x \in Nat /\ sz1[x] \in Nat /\ top \in Nat /\ t \in Nat /\ t >= d /\ top = brk + t
      /\ brk < top
  <2>1. x \in Nat /\ sz1[x] \in Nat /\ top \in Nat
    BY <1>4, <1>5, ShapeFacts
  <2>2. t \in Nat /\ d <= t
    BY RoundedUp
  <2>3. top = brk + t
    BY <1>3
  <2> HIDE DEF t, x, top, brk
  <2>4. brk \in Nat
    BY <1>2 DEF brk
  <2> QED BY <2>1, <2>2, <2>3, <2>4
<1>7. n <= x
  <2>1. ptr # x
    BY <1>4
  <2>2. ptr + sz1[ptr] <= x \/ x + sz1[x] <= ptr
    BY <1>4, <1>5, <2>1, Apart
  <2>3. ptr < brk
    BY <1>1, ShapeFacts
  <2> HIDE DEF x, top, brk
  <2>4. n = ptr + sz1[ptr] /\ brk \in Nat
    BY <1>2, <1>5 DEF brk
  <2> HIDE DEF n
  <2> QED BY <1>2, <1>4, <1>6, <2>2, <2>3, <2>4
<1>8. /\ Size(h.mem, ptr) = sz[ptr] /\ NextBlk(h.mem, ptr) = n
      /\ Size(h1.mem, ptr) = sz[ptr] /\ NextBlk(h1.mem, ptr) = n
  <2>1. ptr + sz1[ptr] = n
    BY <1>5
  <2> HIDE DEF n
  <2>2. Size(h.mem, ptr) = sz[ptr] /\ NextBlk(h.mem, ptr) = n
    BY <1>1, ReadTags DEF n
  <2>3. Size(h1.mem, ptr) = sz[ptr] /\ NextBlk(h1.mem, ptr) = n
    BY <1>5, <2>1, ReadTags
  <2> QED BY <2>2, <2>3
\* Where the old end is, as seen from n; the free block at the top starts at n.
<1>9. x = n /\ -Spare(h.mem, ptr, newSize) = newSize - sz[ptr] - (brk - n)
  <2>1. CASE n = brk
    <3>1. Allocated(h.mem, n)
      BY <1>1, <2>1, ReadEpilogue
    <3>2. Spare(h.mem, ptr, newSize) = sz[ptr] - newSize + 0
      BY <1>8, <3>1 DEF Spare
    <3>3. x = n
      <4> HIDE DEF x, n, brk
      <4> QED BY <1>2, <1>4, <1>6, <1>7, <2>1
    <3> HIDE DEF x, n
    <3> QED BY <1>2, <2>1, <3>2, <3>3
  <2>2. CASE n # brk
    <3>1. n \in DOMAIN sz
      BY <1>2, <2>2
    <3>2. sz[n] \in Nat /\ sz[n] >= 8 /\ Size(h.mem, n) = sz[n] /\ NextBlk(h.mem, n) = n + sz[n]
          /\ (Allocated(h.mem, n) <=> n \in U) /\ n < brk
      <4> HIDE DEF n
      <4> QED BY <1>1, <3>1, ReadTags, ShapeFacts
    <3>3. n \notin U /\ n + sz[n] = brk
      <4>1. ~Allocated(h.mem, n) /\ Size(h.mem, NextBlk(h.mem, n)) = 0
        <5>1. Size(h.mem, n) # 0
          BY <3>2
        <5> HIDE DEF n
        <5> QED BY <1>8, <5>1 DEF AtTop
      <4>2. Size(h.mem, n + sz[n]) = 0 /\ n \notin U
        BY <3>2, <4>1
      <4>3. n + sz[n] \in U \cup {brk}
        <5> HIDE DEF n
        <5> QED BY <1>1, <3>1, <4>2
      <4> DEFINE k == n + sz[n]
      <4>4. k \notin U
        <5>1. \A b \in U : Size(h.mem, b) # 0
          <6> SUFFICES ASSUME NEW b \in U PROVE Size(h.mem, b) # 0
            OBVIOUS
          <6>1. Size(h.mem, b) = sz[b] /\ sz[b] >= 8 /\ sz[b] \in Nat
            BY <1>1, ReadTags, ShapeFacts
          <6> QED BY <6>1
        <5> HIDE DEF n
        <5> QED BY <4>2, <5>1
      <4> QED BY <4>2, <4>3, <4>4
    <3>4. Spare(h.mem, ptr, newSize) = sz[ptr] - newSize + sz[n]
      <4> HIDE DEF n
      <4> QED BY <1>8, <3>2, <3>3 DEF Spare
    <3>5. n \in DOMAIN sz1 \ U
      <4>1. ptr + sz1[ptr] \in DOMAIN sz1 \cup {top}
        BY <1>5 DEF Shape
      <4>2. n # top
        <5> HIDE DEF n, top, brk
        <5>1. brk \in Nat
          BY <1>2 DEF brk
        <5> QED BY <1>2, <1>6, <3>2, <5>1
      <4> QED BY <1>5, <3>3, <4>1, <4>2
    <3>6. x = n
      <4> SUFFICES ASSUME x # n PROVE FALSE
        OBVIOUS
      <4> DEFINE u == n + sz1[n]
      <4>1. sz1[n] \in Nat /\ sz1[n] >= 8 /\ u \in U \cup {top}
        <5> HIDE DEF n
        <5> QED BY <1>5, <3>5, ShapeFacts
      <4>2. u <= x
        <5>1. n + sz1[n] <= x \/ x + sz1[x] <= n
          <6> HIDE DEF n, x
          <6> QED BY <1>4, <1>5, <3>5, Apart
        <5> HIDE DEF n, x, top, brk
        <5>2. brk \in Nat
          BY <1>2 DEF brk
        <5> QED BY <1>2, <1>4, <1>6, <1>7, <3>2, <5>1, <5>2
      <4>3. brk \in Nat
        BY <1>2
      <4>4. u # top
        <5> HIDE DEF n, x, top, brk, u
        <5> QED BY <1>4, <1>6, <4>2, <4>3
      <4>5. u \in U /\ u \in DOMAIN sz /\ u \in Nat /\ u < brk
        <5>1. u \in U
          BY <4>1, <4>4
        <5> HIDE DEF u
        <5> QED BY <1>1, <5>1, ShapeFacts
      <4>6. n # u /\ n < u
        <5> HIDE DEF n
        <5> QED BY <1>2, <4>1
      <4>7. n + sz[n] <= u
        <5> HIDE DEF n, u
        <5> QED BY <1>1, <3>1, <4>5, <4>6 DEF Shape
      <4> HIDE DEF n, u, brk
      <4> QED BY <3>3, <4>3, <4>5, <4>7
    <3> HIDE DEF x, n, brk
    <3>7. brk \in Nat
      BY <1>2 DEF brk
    <3> QED BY <1>2, <3>2, <3>3, <3>4, <3>6, <3>7
  <2> QED BY <2>1, <2>2
<1>10. Spare(h1.mem, ptr, newSize) = sz[ptr] - newSize + sz1[n]
  <2>1. n \in DOMAIN sz1 \ U
    BY <1>4, <1>9
  <2> HIDE DEF n
  <2>2. Size(h1.mem, n) = sz1[n] /\ ~Allocated(h1.mem, n)
    BY <1>5, <2>1, ReadTags
  <2> QED BY <1>8, <2>2 DEF Spare
<1>11. sz1[n] \in Nat /\ brk + t <= n + sz1[n]
  BY <1>4, <1>6, <1>9
<1>12. Spare(h1.mem, ptr, newSize) >= 0
  <2>1. brk \in Nat /\ d >= newSize - sz[ptr] - (brk - n)
    BY <1>2, <1>9
  <2> HIDE DEF n, brk, t
  <2> QED BY <1>2, <1>6, <1>10, <1>11, <2>1
<1> QED BY <1>4, <1>12

\* A word of one payload lies as far into another one.
LEMMA WordShift ==
  ASSUME NEW brk, NEW sz, Shape(brk, sz), NEW ptr \in DOMAIN sz,
         NEW bp \in Nat, bp % 8 = 0,
         NEW a \in Words, a \in bp .. bp + sz[ptr] - 9
  PROVE  ptr + (a - bp) \in Words /\ ptr + (a - bp) \in ptr .. ptr + sz[ptr] - 9
<1> DEFINE c == ptr + (a - bp)
<1>1. /\ ptr \in Nat /\ ptr % 8 = 0 /\ sz[ptr] \in Nat /\ ptr + sz[ptr] <= brk
      /\ brk \in Nat /\ brk <= MAX_HEAP /\ MAX_HEAP \in Nat
  BY EndFacts, ShapeFacts, PrologueFacts DEF Shape
<1>2. c \in ptr .. ptr + sz[ptr] - 9 /\ c \in Nat
  BY <1>1
<1>3. a \in Nat /\ a % 4 = 0
  <2>1. PICK i \in 0 .. MAX_HEAP \div 4 - 1 : a = 4 * i
    BY DEF Words
  <2>2. i \in Nat
    OBVIOUS
  <2> QED BY <2>1, <2>2
<1>4. c % 4 = 0
  BY <1>1, <1>2, <1>3
<1>5. c + 4 <= MAX_HEAP
  <2>1. c + 9 <= ptr + sz[ptr]
    BY <1>1, <1>2
  <2> HIDE DEF c
  <2> QED BY <1>1, <1>2, <2>1
<1> HIDE DEF c
<1>6. c \in Words
  BY <1>2, <1>4, <1>5, IsWord
<1> QED BY <1>2, <1>6 DEF c

LEMMA DemandFacts ==
  ASSUME NEW size \in Nat
  PROVE  Demand(size) \in Nat
<1>1. ALIGN(size) \in Nat
  BY RoundedUp
<1> DEFINE t == ALIGN(size)
<1> HIDE DEF t
<1>2. MaxOf(t + 8, CHUNKSIZE) \in Nat
  BY <1>1, ChunkAssumption DEF t, MaxOf
<1> DEFINE s == MaxOf(t + 8, CHUNKSIZE)
<1> HIDE DEF s
<1>3. ALIGN(s) \in Nat
  BY <1>2, RoundedUp DEF s
<1> QED BY <1>3 DEF Demand, s, t

\* mm_realloc() of a block in use: a block with room, its data kept, or the heap
\* as it was.
LEMMA Reallocated ==
  ASSUME NEW h, NEW sz, NEW U, Good(h.mem, h.brk, sz, U), NEW ptr \in U \ {HeapList},
         NEW size \in Nat, size > 0,
         ALIGN(size) + 8 < sz[ptr] => ptr + sz[ptr] \in U \cup {h.brk},
         NEW r, r = MmRealloc(h, ptr, size)
  PROVE  IF r.ptr = NULL
         THEN r.mem = h.mem /\ r.brk = h.brk /\ h.brk + Demand(size) > MAX_HEAP
         ELSE /\ Resizes(h.mem, sz, r, U, ptr, r.ptr, ALIGN(size) + 8)
              /\ h.brk <= r.brk
<1> DEFINE newSize == ALIGN(size) + 8
           old == sz[ptr]
           spare == Spare(h.mem, ptr, newSize)
           d == MaxOf(-spare, REALLOCCHUNKSIZE)
           h1 == IF spare < 0 /\ AtTop(h.mem, ptr) THEN ExtendHeap(h, d) ELSE h
<1>1. /\ Shape(h.brk, sz) /\ Marked(h.mem, h.brk, sz, U) /\ U \subseteq DOMAIN sz
      /\ ptr \in DOMAIN sz \ {HeapList}
  BY DEF Good, Heap
<1>2. /\ newSize \in Nat /\ newSize % 8 = 0 /\ newSize >= 16 /\ ptr # NULL
      /\ ptr \in Nat /\ old \in Nat /\ h.brk \in Nat /\ Demand(size) \in Nat
  <2>1. ALIGN(size) \in Nat /\ ALIGN(size) % 8 = 0 /\ size <= ALIGN(size)
    BY RoundedUp
  <2> DEFINE t == ALIGN(size)
  <2> HIDE DEF t
  <2>2. newSize \in Nat /\ newSize % 8 = 0 /\ newSize >= 16
    BY <2>1 DEF t
  <2>3. ptr \in Nat /\ old \in Nat /\ ptr >= 24 /\ h.brk \in Nat
    BY <1>1, BlockFacts, ShapeFacts
  <2> QED BY <2>2, <2>3, DemandFacts
<1>3. r = IF old = newSize THEN [mem |-> h.mem, brk |-> h.brk, ptr |-> ptr]
          ELSE IF old > newSize THEN Shrink(h, ptr, newSize)
          ELSE Grow(h1, ptr, size, newSize)
  <2>1. ALIGN(size + DSIZE) = newSize /\ Size(h.mem, ptr) = old /\ ~(size <= 0)
    BY <1>1, RoundedUp, ReadTags
  <2> HIDE DEF newSize
  <2> QED BY <1>2, <2>1 DEF MmRealloc
<1>4. CASE old = newSize
  <2>1. r.mem = h.mem /\ r.brk = h.brk /\ r.ptr = ptr
    BY <1>3, <1>4
  <2> DEFINE m == h.mem
             V == U \ {ptr}
  <2> HIDE DEF newSize, m
  <2>2. Keeps(m, sz, m, sz, V)
    BY <1>1 DEF Keeps
  <2>3. DataKept(m, ptr, old, m, ptr, newSize)
    <3> SUFFICES ASSUME NEW a \in Words, a \in ptr .. ptr + old - 9
                 PROVE  m[a] = m[ptr + (a - ptr)]
      BY DEF DataKept
    <3> QED BY <1>2
  <2>4. sz[ptr] >= newSize /\ V \cup {ptr} = U
    BY <1>2, <1>4
  <2>5. Resizes(h.mem, sz, r, U, ptr, r.ptr, newSize)
    BY <1>1, <2>1, <2>2, <2>3, <2>4 DEF Resizes, m
  <2> QED BY <1>2, <2>1, <2>5 DEF newSize
<1>5. CASE old > newSize
  <2>1. /\ r = Shrink(h, ptr, newSize) /\ ptr + old \in U \cup {h.brk} /\ newSize < old
        /\ old = sz[ptr] /\ old \in Nat
    BY <1>2, <1>3, <1>5
  <2> HIDE DEF newSize, old
  <2>2. Resizes(h.mem, sz, r, U, ptr, ptr, newSize) /\ r.ptr = ptr /\ r.brk = h.brk
    BY <1>2, <2>1, Shrunk
  <2> QED BY <1>2, <2>2 DEF newSize
<1>6. CASE old < newSize
  <2>1. r = Grow(h1, ptr, size, newSize)
    BY <1>2, <1>3, <1>6
  <2>2. newSize = ALIGN(size) + 8 /\ sz[ptr] < newSize
    BY <1>6
  <2>3. ASSUME h1.mem = h.mem, h1.brk = h.brk
        PROVE  IF r.ptr = NULL
               THEN r.mem = h.mem /\ r.brk = h.brk /\ h.brk + Demand(size) > MAX_HEAP
               ELSE Resizes(h.mem, sz, r, U, ptr, r.ptr, newSize) /\ h.brk <= r.brk
    <3> HIDE DEF newSize, h1
    <3>1. Good(h1.mem, h1.brk, sz, U)
      BY <2>3
    <3>2. Enlarges(h1, sz, U, ptr, size, newSize, r)
      BY <2>1, <2>2, <3>1, Grew
    <3> QED BY <1>2, <2>3, <3>2 DEF Enlarges
  <2>4. CASE ~(spare < 0 /\ AtTop(h.mem, ptr))
    <3>1. h1.mem = h.mem /\ h1.brk = h.brk
      BY <2>4
    <3> QED BY <2>3, <3>1
  <2>5. CASE spare < 0 /\ AtTop(h.mem, ptr)
    <3>0. h1 = ExtendHeap(h, d)
      BY <2>5
    <3>1. d \in Nat /\ d > 8 /\ d >= -spare
      <4>1. spare \in Int
        <5>1. Size(h.mem, ptr) = old /\ NextBlk(h.mem, ptr) = ptr + old
          BY <1>1, ReadTags
        <5>2. CASE Allocated(h.mem, ptr + old)
          <6>1. spare = old - newSize + 0
            BY <5>1, <5>2 DEF Spare
          <6> HIDE DEF newSize, spare
          <6> QED BY <1>2, <6>1
        <5>3. CASE ~Allocated(h.mem, ptr + old)
          <6> DEFINE n == ptr + old
          <6>1. n \in DOMAIN sz \cup {h.brk}
            BY <1>1, BlockFacts
          <6> HIDE DEF n
          <6>2. n \in DOMAIN sz
            BY <1>1, <5>3, <6>1, ReadEpilogue DEF n
          <6>3. Size(h.mem, n) = sz[n] /\ sz[n] \in Nat
            BY <1>1, <6>2, ReadTags, ShapeFacts
          <6>4. spare = old - newSize + sz[n]
            BY <5>1, <5>3, <6>3 DEF Spare, n
          <6> HIDE DEF newSize, spare
          <6> QED BY <1>2, <6>3, <6>4
        <5> QED BY <5>2, <5>3
      <4> HIDE DEF spare
      <4>2. -spare \in Nat
        BY <2>5, <4>1
      <4> QED BY <4>1, <4>2, ChunkAssumption, HeapAssumption DEF MaxOf
    <3>2. d >= -Spare(h.mem, ptr, newSize)
      BY <3>1
    <3> HIDE DEF d, h1, spare, newSize
    <3>3. CASE h.brk + ALIGN(d) > MAX_HEAP
      <4>1. h1.mem = h.mem /\ h1.brk = h.brk
        BY <3>0, <3>1, <3>3, Extended
      <4> QED BY <2>3, <4>1 DEF newSize
    <3>4. CASE ~(h.brk + ALIGN(d) > MAX_HEAP)
      <4>1. PICK sz1 : /\ Good(h1.mem, h1.brk, sz1, U) /\ Keeps(h.mem, sz, h1.mem, sz1, U)
                       /\ Spare(h1.mem, ptr, newSize) >= 0
        BY <1>2, <2>5, <3>0, <3>1, <3>2, <3>4, TopExtended
      <4>2. h1.brk = h.brk + ALIGN(d) /\ h.brk <= h1.brk /\ h1.brk \in Nat
        <5>1. h1.brk = h.brk + ALIGN(d) /\ ALIGN(d) \in Nat
          BY <3>0, <3>1, <3>4, Extended, RoundedUp
        <5> DEFINE t == ALIGN(d)
        <5> HIDE DEF t
        <5>2. h.brk <= h.brk + t /\ h.brk + t \in Nat
          BY <1>2, <5>1 DEF t
        <5> QED BY <5>1, <5>2 DEF t
      <4>3. sz1[ptr] = sz[ptr] /\ sz1[ptr] < newSize
        BY <2>2, <4>1 DEF Keeps
      <4>a. Enlarges(h1, sz1, U, ptr, size, newSize, r)
        BY <2>1, <2>2, <4>1, <4>3, Grew
      <4>4. IF r.ptr = NULL
            THEN ~(Spare(h1.mem, ptr, newSize) >= 0)
            ELSE /\ Resizes(h1.mem, sz1, r, U, ptr, r.ptr, newSize)
                 /\ r.brk = h1.brk \/ r.brk = h1.brk + Demand(size)
        BY <4>a DEF Enlarges
      <4>5. r.ptr # NULL
        BY <4>1, <4>4
      <4>6. PICK sz2 : /\ Good(r.mem, r.brk, sz2, (U \ {ptr}) \cup {r.ptr})
                       /\ Keeps(h1.mem, sz1, r.mem, sz2, U \ {ptr})
                       /\ r.ptr \in DOMAIN sz2 /\ sz2[r.ptr] >= newSize /\ r.ptr \notin U \ {ptr}
                       /\ DataKept(h1.mem, ptr, sz1[ptr], r.mem, r.ptr, newSize)
        BY <4>4, <4>5 DEF Resizes
      <4>7. Keeps(h.mem, sz, r.mem, sz2, U \ {ptr})
        BY <4>1, <4>6, KeepsFewer, KeepsTrans
      <4>8. DataKept(h.mem, ptr, old, r.mem, r.ptr, newSize)
        <5>0. r.ptr \in Nat /\ r.ptr % 8 = 0
          <6>1. Shape(r.brk, sz2)
            BY <4>6 DEF Good, Heap
          <6> QED BY <4>6, <6>1 DEF Shape
        <5> SUFFICES ASSUME NEW a \in Words, a \in r.ptr .. r.ptr + old - 9,
                            a \in r.ptr .. r.ptr + newSize - 9
                     PROVE  r.mem[a] = h.mem[ptr + (a - r.ptr)]
          BY DEF DataKept
        <5>1. r.mem[a] = h1.mem[ptr + (a - r.ptr)]
          BY <4>3, <4>6 DEF DataKept
        <5>2. ptr + (a - r.ptr) \in Words /\ ptr + (a - r.ptr) \in ptr .. ptr + old - 9
          BY <1>1, <1>2, <5>0, WordShift
        <5> QED BY <4>1, <5>1, <5>2 DEF Keeps
      <4>9. Resizes(h.mem, sz, r, U, ptr, r.ptr, newSize)
        BY <4>6, <4>7, <4>8 DEF Resizes
      <4>10. h.brk <= r.brk
        BY <1>2, <4>2, <4>4, <4>5
      <4> QED BY <4>5, <4>9, <4>10 DEF newSize
    <3> QED BY <3>3, <3>4
  <2> QED BY <2>4, <2>5
<1> QED BY <1>2, <1>4, <1>5, <1>6

\* mm_init(): the prologue, and what the heap was extended by, if it has room.
LEMMA Initialized ==
  /\ \E sz : Good(MmInit.mem, MmInit.brk, sz, {HeapList})
  /\ HeapList + DSIZE + ALIGN(INITCHUNKSIZE) <= MAX_HEAP => MmInit.ptr # NULL
<1> DEFINE m == [a \in Words |->
                   IF a \in {HeapList - WSIZE, HeapList} THEN PACK(DSIZE, 1)
                   ELSE IF a = HeapList + WSIZE THEN PACK(0, 1)
                   ELSE 0]
           brk == HeapList + DSIZE
           h == [mem |-> m, brk |-> brk]
           U == {HeapList}
           sz == [b \in {HeapList} |-> 8]
<1>1. /\ HeapList \in Nat /\ HeapList % 8 = 0 /\ HeapList >= 16 /\ HeapList + 8 <= MAX_HEAP
      /\ MAX_HEAP \in Nat
      /\ \A i \in Lists : i * 4 \in Nat /\ (i * 4) % 4 = 0 /\ i * 4 + 12 <= HeapList
  BY PrologueFacts
<1>2. MmInit = ExtendHeap(h, INITCHUNKSIZE)
  BY DEF MmInit
<1>3. Shape(brk, sz)
  <2>1. brk \in Nat /\ brk % 8 = 0 /\ brk <= MAX_HEAP
    BY <1>1
  <2>2. DOMAIN sz = {HeapList} /\ sz[HeapList] = 8 /\ HeapList + 8 = brk
    OBVIOUS
  <2> HIDE DEF sz, brk
  <2> QED BY <1>1, <2>1, <2>2 DEF Shape
<1>4. /\ HeapList - 4 \in Words /\ HeapList \in Words /\ HeapList + 4 \in Words
      /\ \A i \in Lists : i * 4 \in Words
  <2>1. /\ HeapList - 4 \in Nat /\ (HeapList - 4) % 4 = 0 /\ HeapList - 4 + 4 <= MAX_HEAP
        /\ HeapList % 4 = 0 /\ HeapList + 4 <= MAX_HEAP
        /\ HeapList + 4 \in Nat /\ (HeapList + 4) % 4 = 0 /\ HeapList + 4 + 4 <= MAX_HEAP
    BY <1>1
  <2>2. HeapList - 4 \in Words /\ HeapList \in Words /\ HeapList + 4 \in Words
    BY <1>1, <2>1, IsWord
  <2>3. \A i \in Lists : i * 4 \in Words
    BY <1>3, WordFacts
  <2> QED BY <2>2, <2>3
<1>5. /\ DOMAIN m = Words /\ m[HeapList - 4] = PACK(8, 1) /\ m[HeapList] = PACK(8, 1)
      /\ m[HeapList + 4] = 1
      /\ \A i \in Lists : m[i * 4] = 0
  <2>1. HeapList + 4 # HeapList - 4 /\ HeapList + 4 # HeapList /\ PACK(0, 1) = 1
    BY <1>1 DEF PACK
  <2>2. \A i \in Lists : i * 4 # HeapList - 4 /\ i * 4 # HeapList /\ i * 4 # HeapList + 4
    BY <1>1
  <2> QED BY <1>4, <2>1, <2>2
<1> HIDE DEF m
<1>6. Marked(m, brk, sz, U)
  <2>1. brk - 4 = HeapList + 4 /\ HeapList + sz[HeapList] - 8 = HeapList
    BY <1>1
  <2>2. Tag(sz, U, HeapList) = PACK(8, 1)
    BY DEF Tag
  <2> HIDE DEF brk
  <2> QED BY <1>5, <2>1, <2>2 DEF Marked
<1>7. Linked(m, {}, sz)
  <2> DEFINE hd == [i \in Lists |-> NULL]
  <2>1. Chained({}, sz, hd, hd, hd, hd)
    BY DEF Chained
  <2>2. Stored(m, {}, hd, hd, hd)
    BY <1>5 DEF Stored, Offset
  <2> QED BY <2>1, <2>2 DEF Linked
<1>8. Good(m, brk, sz, U)
  <2>1. DOMAIN sz \ U = {} /\ U \subseteq DOMAIN sz /\ HeapList \in U
    OBVIOUS
  <2> HIDE DEF sz, U, brk
  <2> QED BY <1>3, <1>6, <1>7, <2>1 DEF Good, Heap
<1>9. h.mem = m /\ h.brk = brk
  OBVIOUS
<1> DEFINE r == ExtendHeap(h, INITCHUNKSIZE)
<1> HIDE DEF h, sz, U, brk
<1>10. INITCHUNKSIZE \in Nat /\ INITCHUNKSIZE > 8 /\ Good(h.mem, h.brk, sz, U)
  BY <1>8, <1>9, ChunkAssumption, HeapAssumption
<1> HIDE DEF r
<1>11. IF h.brk + ALIGN(INITCHUNKSIZE) > MAX_HEAP
       THEN r.mem = h.mem /\ r.brk = h.brk /\ r.ptr = NULL
       ELSE r.brk = h.brk + ALIGN(INITCHUNKSIZE) /\ Extends(h, sz, U, r)
  BY <1>10, Extended DEF r
<1>12. \E sz2 : Good(r.mem, r.brk, sz2, U)
  BY <1>10, <1>11 DEF Extends
<1>13. ~(h.brk + ALIGN(INITCHUNKSIZE) > MAX_HEAP) => r.ptr # NULL
  <2> SUFFICES ASSUME ~(h.brk + ALIGN(INITCHUNKSIZE) > MAX_HEAP) PROVE r.ptr # NULL
    OBVIOUS
  <2>1. PICK sz2 : Good(r.mem, r.brk, sz2, U) /\ r.ptr \in DOMAIN sz2 \ U
    BY <1>11 DEF Extends
  <2>2. Shape(r.brk, sz2)
    BY <2>1 DEF Good, Heap
  <2> QED BY <1>1, <2>1, <2>2 DEF Shape
<1>14. HeapList + DSIZE + ALIGN(INITCHUNKSIZE) <= MAX_HEAP => r.ptr # NULL
  <2>1. ALIGN(INITCHUNKSIZE) \in Nat
    BY <1>10, RoundedUp
  <2> DEFINE t == ALIGN(INITCHUNKSIZE)
  <2> HIDE DEF t
  <2>2. h.brk = HeapList + 8 /\ t \in Nat
    BY <1>9, <2>1 DEF brk, t
  <2>3. ~(h.brk + t > MAX_HEAP) => r.ptr # NULL
    BY <1>13 DEF t
  <2>4. HeapList + 8 + t <= MAX_HEAP => r.ptr # NULL
    BY <1>1, <2>2, <2>3
  <2> QED BY <2>4 DEF t
<1> QED BY <1>2, <1>12, <1>14 DEF r, U

-----------------------------------------------------------------------------
(* The driver.  L is the set of the block numbers that are live, bl gives   *)
(* the address and the size of each one's payload.                          *)

Busy(bl, L) == {HeapList} \cup {bl[i][1] : i \in L}

\* The blocks in use are those the client holds, all different, each large
\* enough, and each filled with its number.
Held(m, sz, bl, L) ==
  /\ \A i \in L : /\ bl[i][1] \in DOMAIN sz \ {HeapList}
                  /\ bl[i][2] \in Sizes \ {0}
                  /\ sz[bl[i][1]] >= ALIGN(bl[i][2]) + 8
                  /\ Preserved(m, bl[i][1], bl[i][2], i)
  /\ \A i, j \in L : i # j => bl[i][1] # bl[j][1]

\* The payload of size bytes is between the tags of its block.
LEMMA PayloadFits ==
  ASSUME NEW brk, NEW sz, Shape(brk, sz), NEW b \in DOMAIN sz,
         NEW size \in Nat, sz[b] >= ALIGN(size) + 8
  PROVE  \A a : a \in b .. b + size - 1 => a \in b .. b + sz[b] - 9
<1>1. ALIGN(size) \in Nat /\ size <= ALIGN(size) /\ b \in Nat /\ sz[b] \in Nat
  BY RoundedUp, ShapeFacts
<1> DEFINE t == ALIGN(size)
<1> HIDE DEF t
<1>2. t \in Nat /\ size <= t /\ sz[b] >= t + 8
  BY <1>1 DEF t
<1>3. b \in Nat /\ sz[b] \in Nat
  BY <1>1
<1> QED BY <1>2, <1>3

\* What is kept of a block that is held stays held.
LEMMA HeldKept ==
  ASSUME NEW brk, NEW sz, Shape(brk, sz), NEW m, NEW bl, NEW L, Held(m, sz, bl, L),
         NEW K, K \subseteq L,
         NEW m2, NEW sz2, Keeps(m, sz, m2, sz2, Busy(bl, K)),
         NEW bl2, \A j \in K : bl2[j] = bl[j]
  PROVE  Held(m2, sz2, bl2, K)
<1>1. ASSUME NEW j \in K
      PROVE  /\ bl2[j][1] \in DOMAIN sz2 \ {HeapList}
             /\ bl2[j][2] \in Sizes \ {0}
             /\ sz2[bl2[j][1]] >= ALIGN(bl2[j][2]) + 8
             /\ Preserved(m2, bl2[j][1], bl2[j][2], j)
  <2> DEFINE b == bl[j][1]
             size == bl[j][2]
  <2>1. /\ b \in DOMAIN sz \ {HeapList} /\ size \in Sizes \ {0}
        /\ sz[b] >= ALIGN(size) + 8 /\ Preserved(m, b, size, j)
    BY DEF Held
  <2>2. b \in DOMAIN sz2 /\ sz2[b] = sz[b]
        /\ \A a \in Words : a \in b .. b + sz[b] - 9 => m2[a] = m[a]
    BY DEF Keeps, Busy
  <2>3. bl2[j][1] = b /\ bl2[j][2] = size
    OBVIOUS
  <2>4. size \in Nat
    BY <2>1, SizeAssumption
  <2> HIDE DEF b, size
  <2>5. \A a : a \in b .. b + size - 1 => a \in b .. b + sz[b] - 9
    BY <2>1, <2>4, PayloadFits
  <2>6. Preserved(m2, b, size, j)
    BY <2>1, <2>2, <2>5 DEF Preserved
  <2> QED BY <2>1, <2>2, <2>3, <2>6
<1>2. \A i, j \in K : i # j => bl2[i][1] # bl2[j][1]
  BY DEF Held
<1> QED BY <1>1, <1>2 DEF Held

\* The block bp is in use besides those of W, has room for size bytes, and
\* the blocks of W are as they were.
Served(m, sz, W, m2, brk2, sz2, bp, size) ==
  /\ Good(m2, brk2, sz2, W \cup {bp})
  /\ Keeps(m, sz, m2, sz2, W)
  /\ bp \in DOMAIN sz2 /\ bp \notin W
  /\ sz2[bp] >= ALIGN(size) + 8

\* A new or moved block is held once it has been filled.
LEMMA HeldWith ==
  ASSUME NEW brk, NEW sz, Shape(brk, sz), NEW m, NEW bl, NEW L, Held(m, sz, bl, L),
         NEW i, NEW K, K = L \ {i}, NEW W, W = Busy(bl, K),
         NEW m2, NEW brk2, NEW sz2, NEW bp, NEW size \in Sizes \ {0},
         Served(m, sz, W, m2, brk2, sz2, bp, size),
         NEW bl2, bl2[i] = <<bp, size>>, \A j \in K : bl2[j] = bl[j],
         NEW m3, m3 = Filled(m2, bp, size, i)
  PROVE  Good(m3, brk2, sz2, Busy(bl2, K \cup {i})) /\ Held(m3, sz2, bl2, K \cup {i})
<1> USE DEF Served
<1>0. size \in Nat
  BY SizeAssumption
<1>1. /\ Shape(brk2, sz2) /\ HeapList \in W /\ W \cup {bp} \subseteq DOMAIN sz2
  BY DEF Good, Heap, Busy
<1>2. \A a : a \in bp .. bp + size - 1 => a \in bp .. bp + sz2[bp] - 9
  BY <1>0, <1>1, PayloadFits
<1>3. DOMAIN m3 = Words
      /\ \A a \in Words : m3[a] = IF a \in bp .. bp + size - 1 THEN i ELSE m2[a]
  BY DEF Filled
<1>4. Good(m3, brk2, sz2, W \cup {bp})
  <2>1. \A a \in Words : m3[a] # m2[a] => InPayload(sz2, W \cup {bp}, a)
    BY <1>1, <1>2, <1>3 DEF InPayload
  <2> QED BY <1>3, <2>1, PayloadWrite
<1>5. Keeps(m, sz, m3, sz2, W)
  <2>1. ASSUME NEW b \in W, NEW a \in Words, a \in b .. b + sz[b] - 9
        PROVE  m3[a] = m2[a]
    <3>1. b \in DOMAIN sz2 /\ sz2[b] = sz[b] /\ b # bp
      BY DEF Keeps
    <3>2. b + sz2[b] <= bp \/ bp + sz2[bp] <= b
      BY <1>1, <3>1, Apart
    <3>3. b \in Nat /\ sz2[b] \in Nat /\ bp \in Nat /\ sz2[bp] \in Nat
      BY <1>1, <3>1, ShapeFacts
    <3>4. a \notin bp .. bp + sz2[bp] - 9
      BY <2>1, <3>1, <3>2, <3>3
    <3> QED BY <1>2, <1>3, <3>4
  <2> QED BY <2>1 DEF Keeps
<1>6. Held(m3, sz2, bl2, K)
  BY <1>5, HeldKept
<1>7. /\ bl2[i][1] = bp /\ bl2[i][2] = size
      /\ bp \in DOMAIN sz2 \ {HeapList} /\ Preserved(m3, bp, size, i)
  BY <1>1, <1>3 DEF Preserved
<1>8. \A j \in K : bl2[j][1] \in W
  BY DEF Busy
<1>9. Busy(bl2, K \cup {i}) = W \cup {bp}
  BY <1>7 DEF Busy
<1>10. Held(m3, sz2, bl2, K \cup {i})
  <2>1. ASSUME NEW j \in K \cup {i}
        PROVE  /\ bl2[j][1] \in DOMAIN sz2 \ {HeapList}
               /\ bl2[j][2] \in Sizes \ {0}
               /\ sz2[bl2[j][1]] >= ALIGN(bl2[j][2]) + 8
               /\ Preserved(m3, bl2[j][1], bl2[j][2], j)
    <3>1. CASE j = i
      BY <1>7, <3>1
    <3>2. CASE j \in K
      BY <1>6, <3>2 DEF Held
    <3> QED BY <3>1, <3>2
  <2>2. ASSUME NEW j \in K \cup {i}, NEW k \in K \cup {i}, j # k PROVE bl2[j][1] # bl2[k][1]
    <3>1. CASE j \in K /\ k \in K
      BY <1>6, <2>2, <3>1 DEF Held
    <3>2. CASE j = i \/ k = i
      BY <1>7, <1>8, <2>2, <3>2
    <3> QED BY <3>1, <3>2
  <2> QED BY <2>1, <2>2 DEF Held
<1> QED BY <1>4, <1>9, <1>10

\* The size bytes from lo are no part of any payload held.
Clear(lo, size, bl, K) ==
  \A j \in K : /\ bl[j][1] \in Nat /\ bl[j][2] \in Nat /\ bl[j][2] > 0
               /\ lo + size <= bl[j][1] \/ bl[j][1] + bl[j][2] <= lo

\* The payload of the block that is returned lies in the heap, and shares no
\* byte with the payloads of the blocks that are held.
LEMMA Separate ==
  ASSUME NEW brk, NEW sz, Shape(brk, sz), NEW m, NEW bl, NEW L, Held(m, sz, bl, L),
         NEW K, K \subseteq L, NEW W, W = Busy(bl, K),
         NEW m2, NEW brk2, NEW sz2, NEW bp, NEW size \in Sizes \ {0},
         Served(m, sz, W, m2, brk2, sz2, bp, size)
  PROVE  /\ bp \in Nat /\ size \in Nat /\ brk2 \in Nat
         /\ bp % 8 = 0 /\ bp + size <= brk2 /\ brk2 <= MAX_HEAP
         /\ Clear(bp, size, bl, K)
<1>1. /\ Shape(brk2, sz2) /\ bp \in DOMAIN sz2 /\ sz2[bp] >= ALIGN(size) + 8
      /\ Keeps(m, sz, m2, sz2, W) /\ bp \notin W
  BY DEF Served, Good, Heap
<1>2. size \in Nat
  BY SizeAssumption
<1>3. ASSUME NEW b \in DOMAIN sz2, NEW n \in Nat, sz2[b] >= ALIGN(n) + 8
      PROVE  b \in Nat /\ b + n <= b + sz2[b] /\ b + sz2[b] \in Nat
  <2>1. n <= ALIGN(n) /\ ALIGN(n) \in Nat /\ b \in Nat /\ sz2[b] \in Nat
    BY <1>1, RoundedUp, ShapeFacts
  <2> DEFINE t == ALIGN(n)
  <2> HIDE DEF t
  <2>2. n <= t /\ t \in Nat /\ sz2[b] >= t + 8
    BY <1>3, <2>1 DEF t
  <2> QED BY <2>1, <2>2
<1>4. bp \in Nat /\ bp + size <= bp + sz2[bp] /\ bp + sz2[bp] \in Nat
  BY <1>1, <1>2, <1>3
<1>5. /\ brk2 \in Nat /\ bp % 8 = 0 /\ bp + sz2[bp] <= brk2 /\ brk2 <= MAX_HEAP
      /\ MAX_HEAP \in Nat
  BY <1>1, HeapAssumption DEF Shape
<1>6. bp + size <= brk2
  <2> DEFINE e == bp + sz2[bp]
  <2> HIDE DEF e
  <2>1. e \in Nat /\ bp + size <= e /\ e <= brk2
    BY <1>4, <1>5 DEF e
  <2> QED BY <1>2, <1>4, <1>5, <2>1
<1>7. ASSUME NEW j \in K
      PROVE  /\ bl[j][1] \in Nat /\ bl[j][2] \in Nat /\ bl[j][2] > 0
             /\ bp + size <= bl[j][1] \/ bl[j][1] + bl[j][2] <= bp
  <2> DEFINE b == bl[j][1]
             n == bl[j][2]
  <2>1. b \in DOMAIN sz /\ n \in Sizes \ {0} /\ sz[b] >= ALIGN(n) + 8 /\ b \in W
    BY DEF Held, Busy
  <2>2. n \in Nat /\ n > 0
    BY <2>1, SizeAssumption
  <2> HIDE DEF b, n
  <2>3. b \in DOMAIN sz2 /\ sz2[b] >= ALIGN(n) + 8 /\ b # bp
    BY <1>1, <2>1 DEF Keeps
  <2>4. b \in Nat /\ b + n <= b + sz2[b] /\ b + sz2[b] \in Nat
    BY <1>3, <2>2, <2>3
  <2>5. b + sz2[b] <= bp \/ bp + sz2[bp] <= b
    BY <1>1, <2>3, Apart
  <2> DEFINE e == bp + sz2[bp]
             c == b + sz2[b]
  <2> HIDE DEF e, c
  <2>6. e \in Nat /\ bp + size <= e /\ c \in Nat /\ b + n <= c /\ (c <= bp \/ e <= b)
    BY <1>4, <2>4, <2>5 DEF e, c
  <2>7. bp + size <= b \/ b + n <= bp
    BY <1>2, <1>4, <2>2, <2>4, <2>6
  <2> QED BY <2>2, <2>4, <2>7 DEF b, n
<1> QED BY <1>2, <1>4, <1>5, <1>6, <1>7 DEF Clear

\* So it passes the check of add_range().
LEMMA RangeAccepted ==
  ASSUME NEW lo \in Nat, NEW size \in Nat, size > 0, NEW brk \in Nat, NEW K, NEW bl,
         lo % 8 = 0, lo + size <= brk, Clear(lo, size, bl, K)
  PROVE  RangeOk(lo, size, brk, {RangeOf(bl[j]) : j \in K})
<1>1. ASSUME NEW j \in K PROVE ~EndsIn(lo, lo + size - 1, RangeOf(bl[j]))
  <2> DEFINE b == bl[j][1]
             n == bl[j][2]
  <2>1. b \in Nat /\ n \in Nat /\ n > 0 /\ (lo + size <= b \/ b + n <= lo)
    BY DEF Clear
  <2>2. RangeOf(bl[j])[1] = b /\ RangeOf(bl[j])[2] = b + n - 1
    BY DEF RangeOf
  <2> HIDE DEF b, n
  <2>3. lo \notin b .. b + n - 1 /\ lo + size - 1 \notin b .. b + n - 1
    BY <2>1
  <2> QED BY <2>2, <2>3 DEF EndsIn
<1>2. Aligned(lo) /\ InsideHeap(lo, size, brk)
  BY DEF Aligned, InsideHeap
<1> HIDE DEF RangeOf
<1> QED BY <1>1, <1>2 DEF RangeOk

\* The blocks in use without one that is live, or is not.
LEMMA BusyWithout ==
  ASSUME NEW m, NEW sz, NEW bl, NEW L, Held(m, sz, bl, L), NEW i
  PROVE  /\ i \in L => Busy(bl, L \ {i}) = Busy(bl, L) \ {bl[i][1]}
         /\ i \notin L => Busy(bl, L \ {i}) = Busy(bl, L)
BY DEF Held, Busy

\* The heap is good, and the blocks in use are those of the live block numbers.
Accounts(sz) ==
  Good(heap.mem, heap.brk, sz, Busy(blocks, Live)) /\ Held(heap.mem, sz, blocks, Live)

IInv ==
  /\ blocks \in [Indices -> Nat \X Nat]
  /\ verdict \in {"valid", "mm_init failed", "mm_malloc failed", "mm_realloc failed"}
  /\ IF verdict = "valid"
     THEN ranges = {RangeOf(blocks[i]) : i \in Live} /\ \E sz : Accounts(sz)
     ELSE \E sz, U : Good(heap.mem, heap.brk, sz, U)

\* The answer r to a request for block i: a block with room, and all other
\* blocks as they were.
Serves(r, sz, i, size) ==
  \E sz2 : Served(heap.mem, sz, Busy(blocks, Live \ {i}), r.mem, r.brk, sz2, r.ptr, size)

LEMMA AllocAnswer ==
  ASSUME NEW sz, Accounts(sz), NEW i \in Indices \ Live, NEW size \in Sizes,
         NEW r, r = MmMalloc(heap, size)
  PROVE  IF r.ptr = NULL
         THEN r.mem = heap.mem /\ r.brk = heap.brk /\ (size = 0 \/ heap.brk + Demand(size) > MAX_HEAP)
         ELSE Serves(r, sz, i, size) /\ size # 0 /\ heap.brk <= r.brk
<1>0. size \in Nat
  BY SizeAssumption
<1>1. CASE size = 0
  BY <1>1 DEF MmMalloc
<1>2. CASE size # 0
  <2>1. IF r.ptr = NULL
        THEN r.mem = heap.mem /\ r.brk = heap.brk /\ heap.brk + Demand(size) > MAX_HEAP
        ELSE /\ Gives(heap.mem, sz, r, Busy(blocks, Live), r.ptr, ALIGN(size) + 8)
             /\ r.brk = heap.brk \/ r.brk = heap.brk + Demand(size)
    <3> DEFINE U == Busy(blocks, Live)
    <3>1. Good(heap.mem, heap.brk, sz, U)
      BY DEF Accounts
    <3>2. size \in Nat /\ size > 0
      BY <1>0, <1>2
    <3> HIDE DEF U
    <3>3. IF r.ptr = NULL
          THEN r.mem = heap.mem /\ r.brk = heap.brk /\ heap.brk + Demand(size) > MAX_HEAP
          ELSE /\ Gives(heap.mem, sz, r, U, r.ptr, ALIGN(size) + 8)
               /\ r.brk = heap.brk \/ r.brk = heap.brk + Demand(size)
      BY <3>1, <3>2, Malloced
    <3> QED BY <3>3 DEF U
  <2>2. Busy(blocks, Live \ {i}) = Busy(blocks, Live)
    BY BusyWithout DEF Accounts
  <2>3. heap.brk \in Nat /\ Demand(size) \in Nat
    <3>1. Shape(heap.brk, sz)
      BY DEF Accounts, Good, Heap
    <3> QED BY <1>0, <3>1, ShapeFacts, DemandFacts
  <2>4. CASE r.ptr = NULL
    BY <2>1, <2>4
  <2>5. CASE r.ptr # NULL
    <3>1. Serves(r, sz, i, size)
      BY <2>1, <2>2, <2>5 DEF Serves, Served, Gives
    <3>2. heap.brk <= r.brk
      BY <2>1, <2>3, <2>5
    <3> QED BY <1>2, <2>5, <3>1, <3>2
  <2> QED BY <2>4, <2>5
<1> QED BY <1>1, <1>2

Kept(i, size) == IF size < blocks[i][2] THEN size ELSE blocks[i][2]

\* The data of block i are in the block that mm_realloc() returns.
LEMMA KeptData ==
  ASSUME NEW sz, Accounts(sz), NEW i \in Live, NEW size \in Nat,
         NEW m2, NEW bp \in Nat, bp % 8 = 0,
         DataKept(heap.mem, blocks[i][1], sz[blocks[i][1]], m2, bp, ALIGN(size) + 8)
  PROVE  Preserved(m2, bp, Kept(i, size), i)
<1> DEFINE ptr == blocks[i][1]
           have == blocks[i][2]
           m == heap.mem
<1>1. /\ Shape(heap.brk, sz) /\ ptr \in DOMAIN sz /\ have \in Sizes
      /\ sz[ptr] >= ALIGN(have) + 8 /\ Preserved(m, ptr, have, i)
  BY DEF Accounts, Good, Heap, Held
<1>2. have \in Nat /\ ptr \in Nat /\ sz[ptr] \in Nat
  BY <1>1, SizeAssumption, ShapeFacts
<1>3. Kept(i, size) = IF size < have THEN size ELSE have
  BY DEF Kept
<1> HIDE DEF ptr, have, m
<1>4. have + 8 <= sz[ptr] /\ size <= ALIGN(size) /\ ALIGN(size) \in Nat
  <2>1. have <= ALIGN(have) /\ ALIGN(have) \in Nat /\ size <= ALIGN(size) /\ ALIGN(size) \in Nat
    BY <1>2, RoundedUp
  <2> DEFINE t == ALIGN(have)
  <2> HIDE DEF t
  <2>2. sz[ptr] >= t + 8 /\ have <= t /\ t \in Nat
    BY <1>1, <2>1 DEF t
  <2>3. have + 8 <= sz[ptr]
    BY <1>2, <2>2
  <2> QED BY <2>1, <2>3
<1> DEFINE kept == Kept(i, size)
<1>5. kept \in Nat /\ kept <= have /\ kept <= size
  BY <1>2, <1>3
<1> HIDE DEF kept
<1> SUFFICES ASSUME NEW a \in Words, a \in bp .. bp + kept - 1 PROVE m2[a] = i
  BY DEF Preserved, kept
<1> DEFINE new == ALIGN(size) + 8
<1>6. new \in Nat /\ size + 8 <= new
  <2> DEFINE t == ALIGN(size)
  <2> HIDE DEF t
  <2>1. t \in Nat /\ size <= t
    BY <1>4 DEF t
  <2>2. t + 8 \in Nat /\ size + 8 <= t + 8
    BY <2>1
  <2> QED BY <2>2 DEF t
<1> HIDE DEF new
<1>7. a \in bp .. bp + sz[ptr] - 9 /\ a \in bp .. bp + new - 9
  BY <1>2, <1>4, <1>5, <1>6
<1>8. DataKept(m, ptr, sz[ptr], m2, bp, new)
  BY DEF m, ptr, new
<1>9. m2[a] = m[ptr + (a - bp)]
  BY <1>7, <1>8 DEF DataKept
<1>10. ptr + (a - bp) \in Words
  BY <1>1, <1>7, WordShift
<1>11. ptr + (a - bp) \in ptr .. ptr + have - 1
  BY <1>2, <1>5
<1> QED BY <1>1, <1>9, <1>10, <1>11 DEF Preserved

LEMMA ReallocAnswer ==
  ASSUME NEW sz, Accounts(sz), NEW i \in Live, NEW size \in Sizes, ~ShrinksIntoFree(i, size),
         NEW r, r = MmRealloc(heap, blocks[i][1], size)
  PROVE  IF r.ptr = NULL
         THEN /\ r.brk = heap.brk /\ (size = 0 \/ heap.brk + Demand(size) > MAX_HEAP)
              /\ \E sz2, U : Good(r.mem, r.brk, sz2, U)
         ELSE /\ Serves(r, sz, i, size) /\ size # 0 /\ heap.brk <= r.brk
              /\ Preserved(r.mem, r.ptr, Kept(i, size), i)
<1> DEFINE ptr == blocks[i][1]
           U == Busy(blocks, Live)
<1>0. size \in Nat
  BY SizeAssumption
<1>1. /\ Good(heap.mem, heap.brk, sz, U) /\ ptr \in U \ {HeapList} /\ ptr \in DOMAIN sz
      /\ Shape(heap.brk, sz) /\ Marked(heap.mem, heap.brk, sz, U)
      /\ Busy(blocks, Live \ {i}) = U \ {ptr}
  BY BusyWithout DEF Accounts, Held, Busy, Good, Heap
<1>2. CASE size = 0
  <2> DEFINE f == MmFree(heap, ptr)
  <2>1. r.mem = f.mem /\ r.brk = heap.brk /\ r.ptr = NULL
    BY <1>2 DEF MmRealloc
  <2> HIDE DEF f
  <2>2. \E sz2 : /\ Good(f.mem, heap.brk, sz2, U \ {ptr})
                 /\ Keeps(heap.mem, sz, f.mem, sz2, U \ {ptr})
    BY <1>1, Freed DEF f
  <2> QED BY <1>2, <2>1, <2>2
<1>3. CASE size # 0
  <2>1. ALIGN(size) + 8 < sz[ptr] => ptr + sz[ptr] \in U \cup {heap.brk}
    <3> SUFFICES ASSUME ALIGN(size) + 8 < sz[ptr] PROVE ptr + sz[ptr] \in U \cup {heap.brk}
      OBVIOUS
    <3>1. ALIGN(size + DSIZE) < Size(heap.mem, ptr) /\ NextBlk(heap.mem, ptr) = ptr + sz[ptr]
      BY <1>0, <1>1, RoundedUp, ReadTags
    <3>2. blocks[i] # NoBlock /\ size > 0
      BY <1>0, <1>3 DEF Live
    <3>3. Allocated(heap.mem, ptr + sz[ptr])
      BY <3>1, <3>2 DEF ShrinksIntoFree
    <3> DEFINE n == ptr + sz[ptr]
    <3>4. n \in DOMAIN sz \cup {heap.brk}
      BY <1>1 DEF Shape
    <3> HIDE DEF n, U
    <3>5. n \in DOMAIN sz => n \in U
      BY <1>1, <3>3, ReadTags DEF n
    <3>6. n \in U \cup {heap.brk}
      BY <3>4, <3>5
    <3> QED BY <3>6 DEF n
  <2>2. size \in Nat /\ size > 0
    BY <1>0, <1>3
  <2> HIDE DEF U, ptr
  <2>3. r = MmRealloc(heap, ptr, size)
    BY DEF ptr
  <2>4. IF r.ptr = NULL
        THEN r.mem = heap.mem /\ r.brk = heap.brk /\ heap.brk + Demand(size) > MAX_HEAP
        ELSE /\ Resizes(heap.mem, sz, r, U, ptr, r.ptr, ALIGN(size) + 8)
             /\ heap.brk <= r.brk
    BY <1>1, <2>1, <2>2, <2>3, Reallocated
  <2>5. CASE r.ptr = NULL
    BY <1>1, <2>4, <2>5
  <2>6. CASE r.ptr # NULL
    <3>1. PICK sz2 : /\ Good(r.mem, r.brk, sz2, (U \ {ptr}) \cup {r.ptr})
                     /\ Keeps(heap.mem, sz, r.mem, sz2, U \ {ptr})
                     /\ r.ptr \in DOMAIN sz2 /\ sz2[r.ptr] >= ALIGN(size) + 8
                     /\ r.ptr \notin U \ {ptr}
                     /\ DataKept(heap.mem, ptr, sz[ptr], r.mem, r.ptr, ALIGN(size) + 8)
      BY <2>4, <2>6 DEF Resizes
    <3>2. Serves(r, sz, i, size)
      BY <1>1, <3>1 DEF Serves, Served
    <3>3. r.ptr \in Nat /\ r.ptr % 8 = 0
      <4>1. Shape(r.brk, sz2)
        BY <3>1 DEF Good, Heap
      <4> QED BY <3>1, <4>1 DEF Shape
    <3>4. Preserved(r.mem, r.ptr, Kept(i, size), i)
      BY <1>0, <3>1, <3>3, KeptData DEF ptr
    <3> QED BY <1>3, <2>4, <2>6, <3>2, <3>4
  <2> QED BY <2>5, <2>6
<1> QED BY <1>2, <1>3

-----------------------------------------------------------------------------
(* The invariant is kept.                                                   *)

\* The driver forgets the range of block i and of no other.
LEMMA OtherRanges ==
  ASSUME NEW sz, Accounts(sz), ranges = {RangeOf(blocks[j]) : j \in Live}, NEW i \in Indices
  PROVE  ranges \ {RangeOf(blocks[i])} = {RangeOf(blocks[j]) : j \in Live \ {i}}
<1>1. \A j \in Live : RangeOf(blocks[j])[1] = blocks[j][1] /\ RangeOf(blocks[i])[1] = blocks[i][1]
  BY DEF RangeOf
<1>2. \A j \in Live : blocks[j][1] # 0
  <2>1. \A j \in Live : blocks[j][1] \in DOMAIN sz \ {HeapList}
    BY DEF Accounts, Held
  <2>2. Shape(heap.brk, sz)
    BY DEF Accounts, Good, Heap
  <2>3. \A b \in DOMAIN sz : b # 0
    BY <2>2, PrologueFacts DEF Shape
  <2> QED BY <2>1, <2>3
<1>3. \A j \in Live \ {i} : blocks[j][1] # blocks[i][1]
  <2>1. CASE i \in Live
    BY <2>1 DEF Accounts, Held
  <2>2. CASE i \notin Live
    <3>1. blocks[i][1] = 0
      BY <2>2 DEF Live, NoBlock
    <3> QED BY <1>2, <3>1
  <2> QED BY <2>1, <2>2
<1>4. \A j \in Live \ {i} : RangeOf(blocks[j]) # RangeOf(blocks[i])
  BY <1>1, <1>3
<1> HIDE DEF RangeOf
<1> QED BY <1>4

LEMMA Remembered ==
  ASSUME IInv, NEW i \in Indices, NEW size \in Sizes \ {0}, NEW r, NEW sz, Accounts(sz),
         Serves(r, sz, i, size), NEW known, known = {RangeOf(blocks[j]) : j \in Live \ {i}},
         verdict = "valid", Remember(i, r, size, known)
  PROVE  IInv'
<1> DEFINE K == Live \ {i}
           W == Busy(blocks, K)
<1>1. PICK sz2 : Served(heap.mem, sz, W, r.mem, r.brk, sz2, r.ptr, size)
  BY DEF Serves
<1>2. /\ heap'.mem = Filled(r.mem, r.ptr, size, i) /\ heap'.brk = r.brk
      /\ blocks' = [blocks EXCEPT ![i] = <<r.ptr, size>>]
      /\ ranges' = known \cup {RangeOf(<<r.ptr, size>>)} /\ verdict' = "valid"
  BY DEF Remember
<1>3. r.ptr \in Nat /\ size \in Nat
  <2>1. Shape(r.brk, sz2)
    BY <1>1 DEF Served, Good, Heap
  <2> QED BY <1>1, <2>1, SizeAssumption, ShapeFacts DEF Served
<1>4. blocks \in [Indices -> Nat \X Nat]
  BY DEF IInv
<1>5. blocks'[i] = <<r.ptr, size>> /\ \A j \in Indices \ {i} : blocks'[j] = blocks[j]
  BY <1>2, <1>4
<1>6. blocks' \in [Indices -> Nat \X Nat]
  BY <1>2, <1>3, <1>4
<1>7. Live' = K \cup {i}
  <2>1. blocks'[i] # NoBlock
    <3>1. blocks'[i][2] = size
      BY <1>5
    <3> QED BY <3>1 DEF NoBlock
  <2> QED BY <1>5, <2>1 DEF Live
<1>8. \A j \in K : blocks'[j] = blocks[j]
  BY <1>5 DEF Live
<1> HIDE DEF K
<1>9. ranges' = {RangeOf(blocks'[j]) : j \in Live'}
  <2>1. known = {RangeOf(blocks[j]) : j \in K}
    BY DEF K
  <2>2. {RangeOf(blocks'[j]) : j \in K \cup {i}}
          = {RangeOf(blocks[j]) : j \in K} \cup {RangeOf(<<r.ptr, size>>)}
    <3> HIDE DEF RangeOf
    <3> QED BY <1>5, <1>8
  <2> QED BY <1>2, <1>7, <2>1, <2>2
<1>10. Good(heap'.mem, heap'.brk, sz2, Busy(blocks', Live')) /\ Held(heap'.mem, sz2, blocks', Live')
  <2>1. Shape(heap.brk, sz) /\ Held(heap.mem, sz, blocks, Live)
    BY DEF Accounts, Good, Heap
  <2> DEFINE L == Live
             bl2 == blocks'
             m3 == heap'.mem
  <2>2. K = L \ {i} /\ Held(heap.mem, sz, blocks, L)
    BY <2>1 DEF K
  <2> HIDE DEF L, W
  <2>3. W = Busy(blocks, K)
    BY DEF W
  <2>4. bl2[i] = <<r.ptr, size>> /\ (\A j \in K : bl2[j] = blocks[j])
        /\ m3 = Filled(r.mem, r.ptr, size, i)
    BY <1>2, <1>5, <1>8
  <2> HIDE DEF bl2, m3
  <2>5. Good(m3, r.brk, sz2, Busy(bl2, K \cup {i})) /\ Held(m3, sz2, bl2, K \cup {i})
    BY <1>1, <2>1, <2>2, <2>3, <2>4, HeldWith
  <2> QED BY <1>2, <1>7, <2>5 DEF bl2, m3
<1>11. (\E s : Accounts(s))'
  BY <1>10 DEF Accounts
<1> QED BY <1>2, <1>6, <1>9, <1>11 DEF IInv

\* A request gets what it asks for, or it is refused for a good reason.
Granted(i, size, r) ==
  /\ size # 0 /\ heap.brk <= r.brk /\ verdict = "valid"
  /\ \E sz : Accounts(sz) /\ Serves(r, sz, i, size)
  /\ Remember(i, r, size, {RangeOf(blocks[j]) : j \in Live \ {i}})

Refused(size, r) ==
  /\ size = 0 \/ heap.brk + Demand(size) > MAX_HEAP
  /\ verdict = "valid" /\ r.brk = heap.brk
  /\ \E sz, U : Good(r.mem, r.brk, sz, U)
  /\ \E why \in {"mm_malloc failed", "mm_realloc failed"} : Fail(r, why)

\* What is granted passes add_range().
LEMMA ServedWell ==
  ASSUME NEW i \in Indices, NEW size \in Sizes \ {0}, NEW r, NEW sz, Accounts(sz),
         Serves(r, sz, i, size)
  PROVE  /\ r.ptr \in Nat /\ size \in Nat /\ r.brk \in Nat
         /\ r.ptr % 8 = 0 /\ r.ptr + size <= r.brk /\ r.brk <= MAX_HEAP
         /\ Clear(r.ptr, size, blocks, Live \ {i})
         /\ RangeOk(r.ptr, size, r.brk, {RangeOf(blocks[j]) : j \in Live \ {i}})
<1> DEFINE K == Live \ {i}
           L == Live
           W == Busy(blocks, K)
           bp == r.ptr
<1>1. PICK sz2 : Served(heap.mem, sz, W, r.mem, r.brk, sz2, bp, size)
  BY DEF Serves
<1>2. Shape(heap.brk, sz) /\ Held(heap.mem, sz, blocks, L) /\ K \subseteq L
  BY DEF Accounts, Good, Heap
<1> HIDE DEF K, L, bp, W
<1>3. W = Busy(blocks, K)
  BY DEF W
<1>4. /\ bp \in Nat /\ size \in Nat /\ r.brk \in Nat
      /\ bp % 8 = 0 /\ bp + size <= r.brk /\ r.brk <= MAX_HEAP
      /\ Clear(bp, size, blocks, K)
  BY <1>1, <1>2, <1>3, Separate
<1>5. size > 0
  BY <1>4
<1>6. RangeOk(bp, size, r.brk, {RangeOf(blocks[j]) : j \in K})
  BY <1>4, <1>5, RangeAccepted
<1> QED BY <1>4, <1>6 DEF bp, K

LEMMA AllocOutcome ==
  ASSUME IInv, NEW i \in Indices, NEW size \in Sizes, Alloc(i, size)
  PROVE  \E r : Granted(i, size, r) \/ Refused(size, r)
<1>1. PICK sz : Accounts(sz)
  BY DEF IInv, Alloc
<1>2. ranges = {RangeOf(blocks[j]) : j \in Live} /\ i \notin Live /\ verdict = "valid"
  BY DEF IInv, Alloc, Live
<1> DEFINE r == MmMalloc(heap, size)
<1> HIDE DEF r
<1>3. IF r.ptr = NULL
      THEN /\ r.mem = heap.mem /\ r.brk = heap.brk
           /\ size = 0 \/ heap.brk + Demand(size) > MAX_HEAP
      ELSE Serves(r, sz, i, size) /\ size # 0 /\ heap.brk <= r.brk
  BY <1>1, <1>2, AllocAnswer DEF r
<1>4. IF r.ptr = NULL THEN Fail(r, "mm_malloc failed")
      ELSE IF ~RangeOk(r.ptr, size, r.brk, ranges) THEN Fail(r, "bad range")
      ELSE Remember(i, r, size, ranges)
  BY DEF Alloc, r
<1>5. CASE r.ptr = NULL
  BY <1>1, <1>2, <1>3, <1>4, <1>5 DEF Refused, Accounts
<1>6. CASE r.ptr # NULL
  <2>1. ranges = {RangeOf(blocks[j]) : j \in Live \ {i}}
    BY <1>2
  <2>2. RangeOk(r.ptr, size, r.brk, ranges)
    BY <1>1, <1>3, <1>6, <2>1, ServedWell
  <2> QED BY <1>1, <1>2, <1>3, <1>4, <1>6, <2>1, <2>2 DEF Granted
<1> QED BY <1>5, <1>6

LEMMA ReallocOutcome ==
  ASSUME IInv, NEW i \in Indices, NEW size \in Sizes, Realloc(i, size), ~ShrinksIntoFree(i, size)
  PROVE  \E r : Granted(i, size, r) \/ Refused(size, r)
<1>1. PICK sz : Accounts(sz)
  BY DEF IInv, Realloc
<1>2. /\ ranges = {RangeOf(blocks[j]) : j \in Live} /\ verdict = "valid"
      /\ blocks[i] = NoBlock => size > 0
  BY DEF IInv, Realloc
<1> DEFINE r == MmRealloc(heap, blocks[i][1], size)
           known == ranges \ {RangeOf(blocks[i])}
           kept == IF size < blocks[i][2] THEN size ELSE blocks[i][2]
<1>3. IF r.ptr = NULL THEN Fail(r, "mm_realloc failed")
      ELSE IF ~RangeOk(r.ptr, size, r.brk, known) THEN Fail(r, "bad range")
      ELSE IF ~Preserved(r.mem, r.ptr, kept, i) THEN Fail(r, "data lost")
      ELSE Remember(i, r, size, known)
  <2> HIDE DEF RangeOf
  <2> QED BY DEF Realloc
<1>4. known = {RangeOf(blocks[j]) : j \in Live \ {i}}
  BY <1>1, <1>2, OtherRanges
<1>5. kept = Kept(i, size)
  BY DEF Kept
<1> HIDE DEF r, known, kept
<1>6. IF r.ptr = NULL
      THEN /\ r.brk = heap.brk /\ (size = 0 \/ heap.brk + Demand(size) > MAX_HEAP)
           /\ \E sz2, U : Good(r.mem, r.brk, sz2, U)
      ELSE /\ Serves(r, sz, i, size) /\ size # 0 /\ heap.brk <= r.brk
           /\ Preserved(r.mem, r.ptr, kept, i)
  <2>1. CASE i \in Live
    BY <1>1, <1>5, <2>1, ReallocAnswer DEF r
  <2>2. CASE i \notin Live
    <3>1. blocks[i] = <<0, 0>> /\ size > 0
      BY <1>2, <2>2 DEF Live, NoBlock
    <3>2. r = MmMalloc(heap, size)
      BY <3>1, SizeAssumption DEF r, MmRealloc
    <3>3. IF r.ptr = NULL
          THEN /\ r.mem = heap.mem /\ r.brk = heap.brk
               /\ size = 0 \/ heap.brk + Demand(size) > MAX_HEAP
          ELSE Serves(r, sz, i, size) /\ size # 0 /\ heap.brk <= r.brk
      BY <1>1, <2>2, <3>2, AllocAnswer
    <3>4. CASE r.ptr = NULL
      BY <1>1, <3>3, <3>4 DEF Accounts
    <3>5. CASE r.ptr # NULL
      <4>1. r.ptr \in Nat
        BY <1>1, <3>3, <3>5, ServedWell
      <4>2. kept = 0
        BY <3>1, SizeAssumption DEF kept
      <4>3. Preserved(r.mem, r.ptr, kept, i)
        BY <4>1, <4>2 DEF Preserved
      <4> QED BY <3>3, <3>5, <4>3
    <3> QED BY <3>4, <3>5
  <2> QED BY <2>1, <2>2
<1>7. CASE r.ptr = NULL
  BY <1>2, <1>3, <1>6, <1>7 DEF Refused
<1>8. CASE r.ptr # NULL
  <2>1. RangeOk(r.ptr, size, r.brk, known)
    BY <1>1, <1>4, <1>6, <1>8, ServedWell
  <2> QED BY <1>1, <1>2, <1>3, <1>4, <1>6, <1>8, <2>1 DEF Granted
<1> QED BY <1>7, <1>8

LEMMA OutcomeStep ==
  ASSUME IInv, NEW i \in Indices, NEW size \in Sizes, NEW r,
         Granted(i, size, r) \/ Refused(size, r)
  PROVE  IInv'
<1>1. CASE Granted(i, size, r)
  <2>1. PICK sz : Accounts(sz) /\ Serves(r, sz, i, size)
    BY <1>1 DEF Granted
  <2> DEFINE known == {RangeOf(blocks[j]) : j \in Live \ {i}}
  <2> HIDE DEF known
  <2>2. size # 0 /\ Remember(i, r, size, known) /\ verdict = "valid"
    BY <1>1 DEF Granted, known
  <2> QED BY <2>1, <2>2, Remembered DEF known
<1>2. CASE Refused(size, r)
  <2>1. PICK sz, U : Good(r.mem, r.brk, sz, U)
    BY <1>2 DEF Refused
  <2>2. PICK why \in {"mm_malloc failed", "mm_realloc failed"} : Fail(r, why)
    BY <1>2 DEF Refused
  <2>3. /\ heap'.mem = r.mem /\ heap'.brk = r.brk /\ verdict' = why
        /\ blocks' = blocks /\ ranges' = ranges
    BY <2>2 DEF Fail
  <2>4. Good(heap'.mem, heap'.brk, sz, U)
    BY <2>1, <2>3
  <2> QED BY <2>3, <2>4 DEF IInv
<1> QED BY <1>1, <1>2

LEMMA FreeStep ==
  ASSUME IInv, NEW i \in Indices, Free(i)
  PROVE  IInv' /\ heap'.brk = heap.brk
<1>1. PICK sz : Accounts(sz)
  BY DEF IInv, Free
<1>2. /\ ranges = {RangeOf(blocks[j]) : j \in Live} /\ i \in Live /\ verdict = "valid"
      /\ blocks \in [Indices -> Nat \X Nat]
  BY DEF IInv, Free, Live
<1> DEFINE U == Busy(blocks, Live)
           ptr == blocks[i][1]
           K == Live \ {i}
           r == MmFree(heap, ptr)
<1>3. /\ heap' = r /\ blocks' = [blocks EXCEPT ![i] = NoBlock] /\ verdict' = "valid"
      /\ ranges' = ranges \ {RangeOf(blocks[i])}
  BY <1>2 DEF Free
<1>4. /\ Good(heap.mem, heap.brk, sz, U) /\ ptr \in U \ {HeapList}
      /\ Shape(heap.brk, sz) /\ Held(heap.mem, sz, blocks, Live)
      /\ Busy(blocks, K) = U \ {ptr}
  BY <1>1, <1>2, BusyWithout DEF Accounts, Held, Busy, Good, Heap
<1>5. Live' = K /\ \A j \in K : blocks'[j] = blocks[j]
  BY <1>2, <1>3 DEF Live
<1>6. blocks' \in [Indices -> Nat \X Nat]
  BY <1>2, <1>3 DEF NoBlock
<1> HIDE DEF U, ptr, r, K
<1>7. /\ r.brk = heap.brk
      /\ \E sz2 : /\ Good(r.mem, heap.brk, sz2, U \ {ptr})
                  /\ Keeps(heap.mem, sz, r.mem, sz2, U \ {ptr})
  BY <1>4, Freed DEF r
<1>8. PICK sz2 : /\ Good(r.mem, heap.brk, sz2, U \ {ptr})
                 /\ Keeps(heap.mem, sz, r.mem, sz2, U \ {ptr})
  BY <1>7
<1>9. Held(r.mem, sz2, blocks', K)
  <2>1. K \subseteq Live
    BY DEF K
  <2> QED BY <1>4, <1>5, <1>8, <2>1, HeldKept
<1>10. Busy(blocks', K) = U \ {ptr}
  BY <1>4, <1>5 DEF Busy
<1>11. ranges' = {RangeOf(blocks'[j]) : j \in Live'}
  <2>1. ranges' = {RangeOf(blocks[j]) : j \in K}
    BY <1>1, <1>2, <1>3, OtherRanges DEF K
  <2> HIDE DEF RangeOf
  <2> QED BY <1>5, <2>1
<1>12. Good(heap'.mem, heap'.brk, sz2, Busy(blocks', Live')) /\ Held(heap'.mem, sz2, blocks', Live')
  BY <1>3, <1>5, <1>7, <1>8, <1>9, <1>10
<1>13. (\E s : Accounts(s))'
  BY <1>12 DEF Accounts
<1> QED BY <1>3, <1>6, <1>7, <1>11, <1>13 DEF IInv

LEMMA InitInvariant == Init => IInv
<1> SUFFICES ASSUME Init PROVE IInv
  OBVIOUS
<1>1. /\ heap.mem = MmInit.mem /\ heap.brk = MmInit.brk /\ blocks = [i \in Indices |-> NoBlock]
      /\ ranges = {} /\ verdict \in {"valid", "mm_init failed"}
  BY DEF Init
<1>2. PICK sz : Good(heap.mem, heap.brk, sz, {HeapList})
  BY <1>1, Initialized
<1>3. Live = {} /\ Busy(blocks, Live) = {HeapList}
  BY <1>1 DEF Live, Busy
<1>4. Accounts(sz)
  BY <1>2, <1>3 DEF Accounts, Held
<1>5. blocks \in [Indices -> Nat \X Nat]
  BY <1>1 DEF NoBlock
<1>6. ranges = {RangeOf(blocks[i]) : i \in Live}
  BY <1>1, <1>3
<1> QED BY <1>1, <1>2, <1>4, <1>5, <1>6 DEF IInv

\* Any sequence of requests leaves the heap in order.
THEOREM Invariance == SteadySpec => []IInv
<1>1. Init => IInv
  BY InitInvariant
<1>2. ASSUME IInv, [SteadyNext]_vars PROVE IInv'
  <2>1. CASE SteadyNext
    <3>1. PICK i \in Indices :
            \/ \E size \in Sizes : \/ Alloc(i, size)
                                   \/ ~ShrinksIntoFree(i, size) /\ Realloc(i, size)
            \/ Free(i)
      BY <2>1 DEF SteadyNext
    <3>2. ASSUME NEW size \in Sizes, Alloc(i, size) PROVE IInv'
      BY <1>2, <3>2, AllocOutcome, OutcomeStep
    <3>3. ASSUME NEW size \in Sizes, ~ShrinksIntoFree(i, size), Realloc(i, size) PROVE IInv'
      BY <1>2, <3>3, ReallocOutcome, OutcomeStep
    <3>4. CASE Free(i)
      BY <1>2, <3>4, FreeStep
    <3> QED BY <3>1, <3>2, <3>3, <3>4
  <2>2. CASE UNCHANGED vars
    BY <1>2, <2>2 DEF vars, IInv, Accounts, Live
  <2> QED BY <1>2, <2>1, <2>2
<1> QED BY <1>1, <1>2, PTL DEF SteadySpec

\* No header, footer, link or other block is ever written over a payload.
THEOREM PayloadsStayIntact == SteadySpec => []PayloadsIntact
<1>1. IInv => PayloadsIntact
  BY DEF IInv, Accounts, Held, PayloadsIntact
<1> QED BY <1>1, Invariance, PTL

-----------------------------------------------------------------------------
(* The allocator implements what its client is promised.                    *)

LEMMA GrantedAsPromised ==
  ASSUME IInv, NEW i \in Indices, NEW size \in Sizes, NEW r, Granted(i, size, r)
  PROVE  Promised!Grant(i, size)
<1>1. PICK sz : Accounts(sz) /\ Serves(r, sz, i, size)
  BY DEF Granted
<1>2. size # 0 /\ heap.brk <= r.brk /\ verdict = "valid"
  BY DEF Granted
<1>3. /\ r.ptr \in Nat /\ size \in Nat /\ r.brk \in Nat
      /\ r.ptr % 8 = 0 /\ r.ptr + size <= r.brk /\ r.brk <= MAX_HEAP
      /\ Clear(r.ptr, size, blocks, Live \ {i})
  BY <1>1, <1>2, ServedWell
<1>4. heap'.brk = r.brk /\ blocks' = [blocks EXCEPT ![i] = <<r.ptr, size>>] /\ verdict' = verdict
  BY DEF Granted, Remember
<1>5. heap.brk \in Nat
  <2>1. Shape(heap.brk, sz)
    BY <1>1 DEF Accounts, Good, Heap
  <2> QED BY <2>1 DEF Shape
<1>6. heap'.brk \in heap.brk .. MAX_HEAP
  BY <1>2, <1>3, <1>4, <1>5, HeapAssumption
<1>7. r.ptr \in 0 .. MAX_HEAP - size
  BY <1>3, HeapAssumption
<1>8. ASSUME NEW j \in Indices \ {i}, blocks[j][2] > 0
      PROVE  Promised!Disjoint(<<r.ptr, size>>, blocks[j])
  <2>1. j \in Live \ {i}
    BY <1>8 DEF Live, NoBlock
  <2> QED BY <1>3, <2>1 DEF Clear, Promised!Disjoint
<1>9. size > 0
  BY <1>2, <1>3
<1> QED BY <1>2, <1>3, <1>4, <1>6, <1>7, <1>8, <1>9 DEF Promised!Grant

LEMMA RefusedAsPromised ==
  ASSUME NEW size \in Sizes, NEW r, Refused(size, r)
  PROVE  Promised!Refuse(size)
<1>1. PICK why \in {"mm_malloc failed", "mm_realloc failed"} : Fail(r, why)
  BY DEF Refused
<1>2. /\ verdict = "valid" /\ verdict' # "valid" /\ blocks' = blocks /\ heap'.brk = heap.brk
      /\ size = 0 \/ heap.brk + Demand(size) > MAX_HEAP
  BY <1>1 DEF Refused, Fail
<1> QED BY <1>2 DEF Promised!Refuse

LEMMA FreedAsPromised ==
  ASSUME IInv, NEW i \in Indices, Free(i)
  PROVE  Promised!Release(i)
<1>1. PICK sz : Accounts(sz)
  BY DEF IInv, Free
<1>2. i \in Live /\ blocks \in [Indices -> Nat \X Nat]
  BY DEF IInv, Free, Live
<1>3. blocks[i][2] \in Nat /\ blocks[i][2] > 0
  BY <1>1, <1>2, SizeAssumption DEF Accounts, Held
<1>4. /\ verdict = "valid" /\ verdict' = verdict /\ heap'.brk = heap.brk
      /\ blocks' = [blocks EXCEPT ![i] = NoBlock]
  BY FreeStep DEF Free
<1>5. blocks'[i][2] = 0 /\ \A j \in Indices \ {i} : blocks'[j] = blocks[j]
  BY <1>2, <1>4 DEF NoBlock
<1> QED BY <1>3, <1>4, <1>5 DEF Promised!Release

\* Every block granted is aligned, inside the heap and apart from all others,
\* and a request is refused only if it asks for nothing or if the heap cannot
\* grow by what it takes: on a heap that mm_init() finds room in, the allocator
\* is one such as module Allocator describes.
THEOREM KeepsPromise ==
  ASSUME HeapList + DSIZE + ALIGN(INITCHUNKSIZE) <= MAX_HEAP
  PROVE  SteadySpec => IsAllocator
<1>1. Init => Promised!Init
  <2> SUFFICES ASSUME Init PROVE Promised!Init
    OBVIOUS
  <2>1. \A i \in Indices : blocks[i][2] = 0
    BY DEF Init, NoBlock
  <2>2. verdict = "valid"
    BY Initialized DEF Init
  <2>3. heap.brk \in 0 .. MAX_HEAP
    <3>1. PICK sz : Good(heap.mem, heap.brk, sz, {HeapList})
      BY Initialized DEF Init
    <3>2. Shape(heap.brk, sz)
      BY <3>1 DEF Good, Heap
    <3> QED BY <3>2, HeapAssumption DEF Shape
  <2> QED BY <2>1, <2>2, <2>3 DEF Promised!Init
<1>2. ASSUME IInv, [SteadyNext]_vars PROVE [Promised!Next]_(Promised!allocatorVars)
  <2>1. CASE SteadyNext
    <3>1. PICK i \in Indices :
            \/ \E size \in Sizes : \/ Alloc(i, size)
                                   \/ ~ShrinksIntoFree(i, size) /\ Realloc(i, size)
            \/ Free(i)
      BY <2>1 DEF SteadyNext
    <3>2. ASSUME NEW size \in Sizes, NEW r, Granted(i, size, r) \/ Refused(size, r)
          PROVE  Promised!Next
      BY <1>2, <3>2, GrantedAsPromised, RefusedAsPromised DEF Promised!Next
    <3>3. ASSUME NEW size \in Sizes, Alloc(i, size) PROVE Promised!Next
      BY <1>2, <3>2, <3>3, AllocOutcome
    <3>4. ASSUME NEW size \in Sizes, ~ShrinksIntoFree(i, size), Realloc(i, size)
          PROVE  Promised!Next
      BY <1>2, <3>2, <3>4, ReallocOutcome
    <3>5. CASE Free(i)
      BY <1>2, <3>5, FreedAsPromised DEF Promised!Next
    <3> QED BY <3>1, <3>3, <3>4, <3>5
  <2>2. CASE UNCHANGED vars
    BY <2>2 DEF vars, Promised!allocatorVars
  <2> QED BY <1>2, <2>1, <2>2
<1> QED BY <1>1, <1>2, Invariance, PTL DEF SteadySpec, IsAllocator, Promised!Spec

-----------------------------------------------------------------------------
(* The heap as a walk over its headers sees it.                             *)

\* From a block to the next one, and no further than the epilogue.
Forth(brk, sz) == [x \in DOMAIN sz \cup {brk} |-> IF x = brk THEN brk ELSE x + sz[x]]

LEMMA Unrolled ==
  ASSUME NEW h, NEW sz, NEW U, NEW F, Heap(h.mem, h.brk, sz, U, F)
  PROVE  \E f : /\ DOMAIN f = 0 .. Room /\ f[0] = HeapList
                /\ Walks(f, Room, DOMAIN sz \cup {h.brk}, Forth(h.brk, sz))
                /\ Walk(h) = {bp \in {f[n] : n \in DOMAIN f} :
                                ~(bp > h.brk \/ Size(h.mem, bp) = 0)}
<1> DEFINE m == h.mem
           brk == h.brk
           S == DOMAIN sz \cup {brk}
           step == Forth(brk, sz)
<1>0. Shape(brk, sz) /\ Marked(m, brk, sz, U) /\ HeapList \in S /\ Room \in Nat /\ Room >= 1
  <2>1. Shape(brk, sz) /\ Marked(m, brk, sz, U)
    BY DEF Heap
  <2>2. HeapList \in S
    BY <2>1 DEF Shape
  <2> QED BY <2>1, <2>2, RoomFacts
<1>1. Stays(S, step)
  <2>1. ASSUME NEW s \in S PROVE step[s] \in S
    BY <1>0 DEF Shape, Forth
  <2> QED BY <2>1 DEF Stays
<1>2. PICK N \in Nat : N = Room
  BY <1>0
<1>3. /\ \A b \in DOMAIN sz : /\ Size(m, b) # 0 /\ ~(b > brk) /\ b # brk
                              /\ NextBlk(m, b) = b + sz[b]
      /\ Size(m, brk) = 0
  <2>1. ASSUME NEW b \in DOMAIN sz
        PROVE  /\ Size(m, b) # 0 /\ ~(b > brk) /\ b # brk
               /\ NextBlk(m, b) = b + sz[b]
    <3>1. Size(m, b) = sz[b] /\ NextBlk(m, b) = b + sz[b]
      BY <1>0, ReadTags
    <3>2. b \in Nat /\ b < brk /\ brk \in Nat /\ sz[b] \in Nat /\ sz[b] >= 8
      BY <1>0, ShapeFacts
    <3> HIDE DEF m, brk
    <3> QED BY <3>1, <3>2
  <2> QED BY <1>0, <2>1, ReadEpilogue
<1>4. \A s \in S : /\ s = brk <=> (s > brk \/ Size(m, s) = 0)
                   /\ s # brk => s \in DOMAIN sz
  BY <1>3
<1> DEFINE ends(bp) == bp > h.brk \/ Size(h.mem, bp) = 0
           block[n \in 0 .. MAX_HEAP \div (2 * DSIZE)] ==
             LET last == block[n - 1]
             IN  IF n = 0 THEN HeapList
                 ELSE IF ends(last) THEN last ELSE NextBlk(h.mem, last)
<1>5. Walk(h) = {bp \in {block[n] : n \in DOMAIN block} : ~ends(bp)}
  BY DEF Walk
<1>6. PICK f : /\ DOMAIN f = 0 .. N /\ f = [k \in 0 .. N |-> f[k]] /\ f[0] = HeapList
               /\ Walks(f, N, S, step)
  <2> HIDE DEF S, step, block
  <2> QED BY <1>0, <1>1, Iterated
<1>7. f = [n \in 0 .. N |-> LET last == f[n - 1]
                            IN  IF n = 0 THEN HeapList
                                ELSE IF ends(last) THEN last ELSE NextBlk(h.mem, last)]
  <2> SUFFICES ASSUME NEW n \in 0 .. N
               PROVE  f[n] = IF n = 0 THEN HeapList
                             ELSE IF ends(f[n - 1]) THEN f[n - 1] ELSE NextBlk(h.mem, f[n - 1])
    BY <1>6
  <2>1. CASE n = 0
    BY <1>6, <2>1
  <2>2. CASE n # 0
    <3>1. n \in 1 .. N /\ n - 1 \in 0 .. N
      BY <1>2, <2>2
    <3>2. f[n] = step[f[n - 1]] /\ f[n - 1] \in S
      BY <1>6, <3>1 DEF Walks
    <3>3. f[n] = IF f[n - 1] = brk THEN brk ELSE f[n - 1] + sz[f[n - 1]]
      BY <3>2 DEF Forth
    <3> DEFINE s == f[n - 1]
    <3>4. ends(s) <=> s = brk
      BY <1>4, <3>2
    <3>5. s # brk => NextBlk(h.mem, s) = s + sz[s]
      BY <1>3, <1>4, <3>2
    <3> HIDE DEF ends, s, brk
    <3> QED BY <2>2, <3>3, <3>4, <3>5 DEF s
  <2> QED BY <2>1, <2>2
<1>8. block = [n \in 0 .. N |-> LET last == block[n - 1]
                                IN  IF n = 0 THEN HeapList
                                    ELSE IF ends(last) THEN last ELSE NextBlk(h.mem, last)]
  BY <1>2, <1>7 DEF Room
<1> HIDE DEF block
<1>9. DOMAIN block = 0 .. N /\ block[0] = HeapList
  BY <1>2, <1>8
<1>10. ASSUME NEW n \in 1 .. N, block[n - 1] \in S PROVE block[n] = step[block[n - 1]]
  <2>0. n \in 0 .. N /\ n # 0
    BY <1>2
  <2> DEFINE s == block[n - 1]
  <2>1. block[n] = IF ends(s) THEN s ELSE NextBlk(h.mem, s)
    BY <1>8, <2>0
  <2>2. step[s] = IF s = brk THEN brk ELSE s + sz[s]
    BY <1>10 DEF Forth
  <2>3. ends(s) <=> s = brk
    BY <1>4, <1>10
  <2>4. s # brk => NextBlk(h.mem, s) = s + sz[s]
    BY <1>3, <1>4, <1>10
  <2> HIDE DEF ends, s, brk, step
  <2> QED BY <2>1, <2>2, <2>3, <2>4 DEF s
<1>11. Walks(block, N, S, step)
  <2> HIDE DEF S, step
  <2>1. StepsIn(block, N, S, step)
    BY <1>0, <1>9, <1>10 DEF StepsIn
  <2> QED BY <1>1, <2>1, Followed
<1> QED BY <1>2, <1>5, <1>9, <1>11

\* The walk visits every block: before it runs out of steps it comes to the
\* epilogue, for it gets 16 bytes further with each.
LEMMA Reaches ==
  ASSUME NEW brk, NEW sz, Shape(brk, sz), NEW N \in Nat, N = Room,
         NEW f, f[0] = HeapList, Walks(f, N, DOMAIN sz \cup {brk}, Forth(brk, sz)),
         NEW b \in DOMAIN sz
  PROVE  \E n \in 0 .. N : f[n] = b
<1> DEFINE S == DOMAIN sz \cup {brk}
<1>1. /\ \A n \in 0 .. N : f[n] \in S
      /\ \A n \in 1 .. N : f[n] = IF f[n - 1] = brk THEN brk ELSE f[n - 1] + sz[f[n - 1]]
  <2>1. \A n \in 0 .. N : f[n] \in S
    BY DEF Walks
  <2>2. ASSUME NEW n \in 1 .. N
        PROVE  f[n] = IF f[n - 1] = brk THEN brk ELSE f[n - 1] + sz[f[n - 1]]
    <3>1. n - 1 \in 0 .. N
      OBVIOUS
    <3>2. f[n - 1] \in S /\ f[n] = Forth(brk, sz)[f[n - 1]]
      BY <3>1 DEF Walks
    <3> QED BY <3>2 DEF Forth
  <2> QED BY <2>1, <2>2
<1>2. N >= 1 /\ MAX_HEAP < 16 * N + 16 /\ MAX_HEAP \in Nat /\ HeapList \in Nat /\ HeapList >= 16
  BY RoomFacts, PrologueFacts
<1>3. /\ brk \in Nat /\ brk <= MAX_HEAP /\ brk \notin DOMAIN sz
      /\ \A c \in DOMAIN sz : /\ c \in Nat /\ sz[c] \in Nat /\ sz[c] >= 8 /\ HeapList <= c
                              /\ c # HeapList => sz[c] >= 16
                              /\ c + sz[c] <= brk
  BY ShapeFacts DEF Shape
<1>4. \A n \in 1 .. N : f[n] # brk => f[n] >= 16 * n + 8 /\ f[n] # HeapList
  <2> DEFINE T == {n \in Nat : n \in 1 .. N /\ ~(f[n] # brk => f[n] >= 16 * n + 8 /\ f[n] # HeapList)}
  <2>1. T = {}
    <3> SUFFICES ASSUME T # {} PROVE FALSE
      OBVIOUS
    <3>1. PICK n \in T : \A j \in T : n <= j
      BY NatLeast
    <3>2. n \in Nat /\ n \in 1 .. N /\ f[n] # brk /\ ~(f[n] >= 16 * n + 8 /\ f[n] # HeapList)
      <4>1. n \in T
        OBVIOUS
      <4> QED BY <4>1
    <3>3. n - 1 \in Nat /\ n - 1 < n /\ n - 1 \in 0 .. N
      BY <3>2
    <3>4. n - 1 \notin T
      <4> HIDE DEF T
      <4> QED BY <3>1, <3>2, <3>3
    <3> DEFINE p == f[n - 1]
    <3>5. p # brk /\ p \in DOMAIN sz /\ f[n] = p + sz[p]
      BY <1>1, <3>2, <3>3
    <3>6. n - 1 # 0 => p >= 16 * (n - 1) + 8 /\ p # HeapList
      <4>1. n - 1 # 0 => n - 1 \in 1 .. N
        BY <3>3
      <4> QED BY <3>3, <3>4, <3>5, <4>1
    <3>7. n - 1 = 0 => p = HeapList
      OBVIOUS
    <3> DEFINE q == f[n]
    <3>8. q = p + sz[p] /\ ~(q >= 16 * n + 8 /\ q # HeapList)
      BY <3>2, <3>5
    <3>9. /\ p \in Nat /\ sz[p] \in Nat /\ sz[p] >= 8 /\ HeapList <= p
          /\ p # HeapList => sz[p] >= 16
      BY <1>3, <3>5
    <3> HIDE DEF p, q, T
    <3> DEFINE s == sz[p]
    <3>10. s \in Nat /\ s >= 8 /\ q = p + s /\ (p # HeapList => s >= 16)
      BY <3>8, <3>9
    <3> HIDE DEF s
    <3>11. q > HeapList
      BY <1>2, <3>9, <3>10
    <3>12. CASE n - 1 = 0
      <4>1. n = 1 /\ q >= 24
        BY <1>2, <3>2, <3>7, <3>10, <3>12
      <4> QED BY <3>8, <3>11, <1>2, <4>1
    <3>13. CASE n - 1 # 0
      <4>1. s >= 16 /\ p >= 16 * (n - 1) + 8
        BY <3>6, <3>10, <3>13
      <4>2. q >= 16 * n + 8
        BY <3>2, <3>9, <3>10, <4>1
      <4> QED BY <1>2, <3>8, <3>11, <4>2
    <3> QED BY <3>12, <3>13
  <2> SUFFICES ASSUME NEW n \in 1 .. N
               PROVE  f[n] # brk => f[n] >= 16 * n + 8 /\ f[n] # HeapList
    OBVIOUS
  <2>2. n \in Nat /\ n \notin T
    <3> HIDE DEF T
    <3> QED BY <2>1
  <2> QED BY <2>2
<1>5. f[N] = brk
  <2> SUFFICES ASSUME f[N] # brk PROVE FALSE
    OBVIOUS
  <2> DEFINE p == f[N]
  <2>1. N \in 1 .. N /\ N \in 0 .. N
    BY <1>2
  <2>2. p >= 16 * N + 8 /\ p # HeapList /\ p \in DOMAIN sz
    BY <1>1, <1>4, <2>1
  <2>3. p \in Nat /\ sz[p] \in Nat /\ sz[p] >= 16 /\ p + sz[p] <= brk
    BY <1>3, <2>2
  <2> HIDE DEF p
  <2> QED BY <1>2, <1>3, <2>2, <2>3
<1> DEFINE T == {c \in DOMAIN sz : ~ \E n \in 0 .. N : f[n] = c}
<1>6. T = {}
  <2> SUFFICES ASSUME T # {} PROVE FALSE
    OBVIOUS
  <2>1. T \subseteq Nat
    BY <1>3
  <2>2. PICK c \in T : \A d \in T : c <= d
    <3> HIDE DEF T
    <3> QED BY <2>1, NatLeast
  <2>3. c \in DOMAIN sz /\ ~ \E n \in 0 .. N : f[n] = c
    OBVIOUS
  <2>4. c # HeapList
    <3>1. 0 \in 0 .. N
      BY <1>2
    <3> QED BY <2>3, <3>1
  <2>5. PICK p \in DOMAIN sz : p + sz[p] = c
    BY <2>3, <2>4 DEF Shape
  <2>6. p \in Nat /\ p < c
    <3>1. p \in Nat /\ sz[p] \in Nat /\ sz[p] >= 8
      BY <1>3
    <3> QED BY <2>5, <3>1
  <2>7. p \notin T
    <3>1. c \in Nat
      BY <2>1
    <3> HIDE DEF T
    <3> QED BY <2>2, <2>6, <3>1
  <2>8. PICK n \in 0 .. N : f[n] = p
    BY <2>7
  <2>9. n # N /\ p # brk
    BY <1>3, <1>5, <2>8
  <2>10. n + 1 \in 1 .. N /\ (n + 1) - 1 = n /\ n + 1 \in 0 .. N
    BY <2>9
  <2>11. f[n + 1] = p + sz[p]
    BY <1>1, <2>8, <2>9, <2>10
  <2> QED BY <2>3, <2>5, <2>10, <2>11
<1> QED BY <1>6

\* Going from header to header one comes to every block and to nothing else.
LEMMA Walked ==
  ASSUME NEW h, NEW sz, NEW U, NEW F, Heap(h.mem, h.brk, sz, U, F)
  PROVE  Walk(h) = DOMAIN sz
<1>1. PICK f : /\ DOMAIN f = 0 .. Room /\ f[0] = HeapList
               /\ Walks(f, Room, DOMAIN sz \cup {h.brk}, Forth(h.brk, sz))
               /\ Walk(h) = {bp \in {f[n] : n \in DOMAIN f} :
                               ~(bp > h.brk \/ Size(h.mem, bp) = 0)}
  BY Unrolled
<1>2. Shape(h.brk, sz) /\ Marked(h.mem, h.brk, sz, U)
  BY DEF Heap
<1>3. Room \in Nat
  BY RoomFacts
<1> HIDE DEF Room
<1>4. ASSUME NEW b \in DOMAIN sz PROVE b \in Walk(h)
  <2>1. \E n \in 0 .. Room : f[n] = b
    BY <1>1, <1>2, <1>3, Reaches
  <2>2. ~(b > h.brk \/ Size(h.mem, b) = 0)
    <3>1. Size(h.mem, b) = sz[b]
      BY <1>2, ReadTags
    <3>2. b \in Nat /\ b < h.brk /\ h.brk \in Nat /\ sz[b] \in Nat /\ sz[b] >= 8
      BY <1>2, ShapeFacts
    <3> QED BY <3>1, <3>2
  <2> QED BY <1>1, <2>1, <2>2
<1>5. ASSUME NEW b \in Walk(h) PROVE b \in DOMAIN sz
  <2>1. b \in DOMAIN sz \cup {h.brk} /\ Size(h.mem, b) # 0
    BY <1>1 DEF Walks
  <2>2. Size(h.mem, h.brk) = 0
    BY <1>2, ReadEpilogue
  <2> QED BY <2>1, <2>2
<1> QED BY <1>4, <1>5

-----------------------------------------------------------------------------
(* The free lists as mm_check() sees them.                                  *)

\* The free blocks for list i, and from one to the next.
OfList(F, sz, i) == {b \in F : ListIndex(sz[b]) = i}
Onward(F, nx) == [x \in F \cup {NULL} |-> IF x = NULL THEN NULL ELSE nx[x]]

LEMMA OnwardStays ==
  ASSUME NEW F, NEW sz, NEW hd, NEW nx, NEW pv, NEW rk, Chained(F, sz, hd, nx, pv, rk),
         NEW i \in Lists
  PROVE  /\ hd[i] \in OfList(F, sz, i) \cup {NULL}
         /\ Stays(OfList(F, sz, i) \cup {NULL}, Onward(F, nx))
<1> DEFINE S == OfList(F, sz, i) \cup {NULL}
           step == Onward(F, nx)
<1>1. hd[i] \in S
  BY DEF Chained, OfList
<1>2. ASSUME NEW s \in S PROVE step[s] \in S
  <2>1. CASE s = NULL
    BY <2>1 DEF Onward
  <2>2. CASE s # NULL
    <3>1. s \in F /\ ListIndex(sz[s]) = i /\ step[s] = nx[s]
      BY <2>2 DEF Onward, OfList
    <3> QED BY <3>1 DEF Chained, OfList
  <2> QED BY <2>1, <2>2
<1> QED BY <1>1, <1>2 DEF Stays

LEMMA ChainWalks ==
  ASSUME NEW m, NEW brk, NEW sz, NEW U, NEW F, Heap(m, brk, sz, U, F), NEW i \in Lists,
         NEW hd, NEW nx, NEW pv, NEW rk, Links(m, F, sz, hd, nx, pv, rk)
  PROVE  /\ DOMAIN Chain(m, i) = 0 .. Room /\ Chain(m, i)[0] = hd[i]
         /\ Walks(Chain(m, i), Room, OfList(F, sz, i) \cup {NULL}, Onward(F, nx))
<1> DEFINE S == OfList(F, sz, i) \cup {NULL}
           step == Onward(F, nx)
<1>0. /\ Shape(brk, sz) /\ Marked(m, brk, sz, U) /\ F \subseteq DOMAIN sz \ {HeapList}
      /\ NULL \notin F /\ Room \in Nat /\ Room >= 1
  <2>1. Shape(brk, sz) /\ Marked(m, brk, sz, U) /\ F \subseteq DOMAIN sz \ {HeapList}
    BY DEF Heap
  <2> QED BY <2>1, LinkCells, RoomFacts
<1>1. /\ Chained(F, sz, hd, nx, pv, rk)
      /\ \A j \in Lists : FirstFree(m, j) = hd[j]
      /\ \A b \in F : NextFree(m, b) = nx[b]
  BY DEF Links
<1>2. \A b \in F : ~Allocated(m, b)
  <2>1. \A b \in F : b \in DOMAIN sz /\ b \notin U
    BY DEF Heap
  <2> QED BY <1>0, <2>1, ReadTags
<1>3. hd[i] \in S /\ Stays(S, step)
  BY <1>1, OnwardStays
<1>4. \A s \in S : /\ step[s] = IF s # NULL /\ ~Allocated(m, s) THEN NextFree(m, s) ELSE NULL
  BY <1>1, <1>2 DEF Onward, OfList
<1>5. PICK N \in Nat : N = Room
  BY <1>0
<1> DEFINE node[n \in 0 .. MAX_HEAP \div (2 * DSIZE)] ==
             LET bp == node[n - 1]
             IN  IF n = 0 THEN FirstFree(m, i)
                 ELSE IF bp # NULL /\ ~Allocated(m, bp) THEN NextFree(m, bp) ELSE NULL
<1>6. Chain(m, i) = node
  BY DEF Chain
<1>7. PICK f : /\ DOMAIN f = 0 .. N /\ f = [k \in 0 .. N |-> f[k]] /\ f[0] = hd[i]
               /\ Walks(f, N, S, step)
  <2> HIDE DEF S, step, node
  <2> QED BY <1>3, Iterated
<1>8. f = [n \in 0 .. N |-> LET bp == f[n - 1]
                            IN  IF n = 0 THEN FirstFree(m, i)
                                ELSE IF bp # NULL /\ ~Allocated(m, bp) THEN NextFree(m, bp)
                                ELSE NULL]
  <2> SUFFICES ASSUME NEW n \in 0 .. N
               PROVE  f[n] = IF n = 0 THEN FirstFree(m, i)
                             ELSE IF f[n - 1] # NULL /\ ~Allocated(m, f[n - 1])
                             THEN NextFree(m, f[n - 1]) ELSE NULL
    BY <1>7
  <2>1. CASE n = 0
    BY <1>1, <1>7, <2>1
  <2>2. CASE n # 0
    <3>1. n \in 1 .. N /\ n - 1 \in 0 .. N
      BY <1>5, <2>2
    <3>2. f[n] = step[f[n - 1]] /\ f[n - 1] \in S
      BY <1>7, <3>1 DEF Walks
    <3> HIDE DEF S, step
    <3> QED BY <1>4, <2>2, <3>2
  <2> QED BY <2>1, <2>2
<1>9. node = [n \in 0 .. N |-> LET bp == node[n - 1]
                               IN  IF n = 0 THEN FirstFree(m, i)
                                   ELSE IF bp # NULL /\ ~Allocated(m, bp) THEN NextFree(m, bp)
                                   ELSE NULL]
  BY <1>5, <1>8 DEF Room
<1> HIDE DEF node
<1>10. DOMAIN node = 0 .. N /\ node[0] = hd[i]
  BY <1>1, <1>5, <1>9
<1>11. ASSUME NEW n \in 1 .. N, node[n - 1] \in S PROVE node[n] = step[node[n - 1]]
  <2>0. n \in 0 .. N /\ n # 0
    BY <1>5
  <2>1. node[n] = IF node[n - 1] # NULL /\ ~Allocated(m, node[n - 1])
                  THEN NextFree(m, node[n - 1]) ELSE NULL
    BY <1>9, <2>0
  <2> HIDE DEF S, step
  <2> QED BY <1>4, <1>11, <2>1
<1>12. Walks(node, N, S, step)
  <2> HIDE DEF S, step
  <2>1. StepsIn(node, N, S, step)
    BY <1>3, <1>10, <1>11 DEF StepsIn
  <2> QED BY <1>3, <2>1, Followed
<1> QED BY <1>5, <1>6, <1>10, <1>12

\* A list ends before the steps run out.
LEMMA ChainEnds ==
  ASSUME NEW brk, NEW sz, Shape(brk, sz), NEW F, F \subseteq DOMAIN sz \ {HeapList},
         NEW hd, NEW nx, NEW pv, NEW rk, Chained(F, sz, hd, nx, pv, rk),
         NEW N \in Nat, N = Room, NEW S, S \subseteq F,
         NEW c, Walks(c, N, S \cup {NULL}, Onward(F, nx))
  PROVE  c[N] = NULL
<1> SUFFICES ASSUME c[N] # NULL PROVE FALSE
  OBVIOUS
<1>0. NULL \notin F
  BY LinkCells
<1>1. /\ \A n \in 0 .. N : c[n] \in F \cup {NULL}
      /\ \A n \in 1 .. N : c[n] = IF c[n - 1] = NULL THEN NULL ELSE nx[c[n - 1]]
  <2>1. \A n \in 0 .. N : c[n] \in F \cup {NULL}
    BY DEF Walks
  <2>2. ASSUME NEW n \in 1 .. N PROVE c[n] = IF c[n - 1] = NULL THEN NULL ELSE nx[c[n - 1]]
    <3>1. n - 1 \in 0 .. N
      OBVIOUS
    <3>2. c[n - 1] \in F \cup {NULL} /\ c[n] = Onward(F, nx)[c[n - 1]]
      BY <2>1, <3>1 DEF Walks
    <3> QED BY <3>2 DEF Onward
  <2> QED BY <2>1, <2>2
<1>2. \A n \in 0 .. N : c[n] # NULL
  <2> DEFINE T == {k \in Nat : k <= N /\ c[N - k] = NULL}
  <2>1. T = {}
    <3> SUFFICES ASSUME T # {} PROVE FALSE
      OBVIOUS
    <3>1. PICK k \in T : \A j \in T : k <= j
      BY NatLeast
    <3>2. k \in Nat /\ k <= N /\ c[N - k] = NULL
      OBVIOUS
    <3>3. k # 0
      <4>1. N - 0 = N
        OBVIOUS
      <4> QED BY <3>2, <4>1
    <3>4. /\ k - 1 \in Nat /\ k - 1 < k /\ N - (k - 1) \in 1 .. N
          /\ (N - (k - 1)) - 1 = N - k /\ k - 1 <= N
      BY <3>2, <3>3
    <3>5. k - 1 \notin T
      <4> HIDE DEF T
      <4> QED BY <3>1, <3>2, <3>4
    <3>6. c[N - (k - 1)] # NULL
      BY <3>4, <3>5
    <3> QED BY <1>1, <3>2, <3>4, <3>6
  <2> SUFFICES ASSUME NEW n \in 0 .. N PROVE c[n] # NULL
    OBVIOUS
  <2>2. N - n \in Nat /\ N - n <= N /\ N - (N - n) = n
    OBVIOUS
  <2>3. N - n \notin T
    <3> HIDE DEF T
    <3> QED BY <2>1
  <2> QED BY <2>2, <2>3
<1>3. Walks(c, N, F, nx)
  <2>1. ASSUME NEW n \in 1 .. N PROVE c[n] = nx[c[n - 1]]
    <3>1. n - 1 \in 0 .. N
      OBVIOUS
    <3> QED BY <1>1, <1>2, <3>1
  <2>2. \A n \in 0 .. N : c[n] \in F
    BY <1>1, <1>2
  <2> QED BY <2>1, <2>2 DEF Walks
<1> DEFINE rank == [b \in F |-> -rk[b]]
           w == [n \in 0 .. N |-> rank[c[n]]]
<1>4. Rises(w, N)
  <2>1. ASSUME NEW n \in 0 .. N PROVE w[n] = -rk[c[n]] /\ rk[c[n]] \in Nat /\ c[n] \in F
    BY <1>3 DEF Chained, Walks
  <2>2. ASSUME NEW n \in 1 .. N PROVE w[n - 1] < w[n]
    <3>1. n \in 0 .. N /\ n - 1 \in 0 .. N
      OBVIOUS
    <3>2. c[n] = nx[c[n - 1]] /\ c[n - 1] \in F /\ c[n] # NULL
      BY <1>0, <1>3, <2>1, <3>1 DEF Walks
    <3>3. rk[c[n]] < rk[c[n - 1]]
      BY <3>2 DEF Chained
    <3> HIDE DEF w
    <3> QED BY <2>1, <3>1, <3>3
  <2> HIDE DEF w
  <2>3. \A n \in 0 .. N : w[n] \in Int
    BY <2>1
  <2> QED BY <2>2, <2>3 DEF Rises
<1> HIDE DEF rank
<1> QED BY <1>3, <1>4, NoLongWalk

\* A free block that its list does not come to would have another before it,
\* to which the list does not come either, and so on without end.
LEMMA ChainCovers ==
  ASSUME NEW brk, NEW sz, Shape(brk, sz), NEW F, F \subseteq DOMAIN sz \ {HeapList},
         NEW hd, NEW nx, NEW pv, NEW rk, Chained(F, sz, hd, nx, pv, rk),
         NEW N \in Nat, N = Room, NEW i \in Lists,
         NEW c, c[0] = hd[i], Walks(c, N, OfList(F, sz, i) \cup {NULL}, Onward(F, nx)),
         NEW b \in OfList(F, sz, i)
  PROVE  \E n \in 0 .. N : c[n] = b
<1> DEFINE S == OfList(F, sz, i)
           T == {x \in S : ~ \E n \in 0 .. N : c[n] = x}
<1> SUFFICES ASSUME b \in T PROVE FALSE
  OBVIOUS
<1>0. NULL \notin F /\ S \subseteq F /\ N >= 1
  BY LinkCells, RoomFacts DEF OfList
<1>1. c[N] = NULL
  <2>1. Walks(c, N, S \cup {NULL}, Onward(F, nx))
    OBVIOUS
  <2>2. S \subseteq F
    BY <1>0
  <2> HIDE DEF S, T
  <2> QED BY <2>1, <2>2, ChainEnds
<1>2. ASSUME NEW x \in T PROVE pv[x] \in T /\ rk[x] < rk[pv[x]] /\ rk[x] \in Nat
  <2>1. x \in F /\ ListIndex(sz[x]) = i /\ ~ \E n \in 0 .. N : c[n] = x
    BY DEF OfList
  <2>2. /\ rk[x] \in Nat
        /\ IF pv[x] = NULL THEN hd[i] = x
           ELSE pv[x] \in F /\ ListIndex(sz[pv[x]]) = i /\ nx[pv[x]] = x
    BY <2>1 DEF Chained
  <2>3. pv[x] # NULL
    <3>1. 0 \in 0 .. N
      BY <1>0
    <3> QED BY <2>1, <2>2, <3>1
  <2>4. pv[x] \in S /\ nx[pv[x]] = x
    BY <2>2, <2>3 DEF OfList
  <2>5. rk[x] < rk[pv[x]]
    <3>1. pv[x] \in F /\ nx[pv[x]] # NULL
      BY <1>0, <2>1, <2>4
    <3>2. rk[nx[pv[x]]] < rk[pv[x]]
      BY <3>1 DEF Chained
    <3> QED BY <2>4, <3>2
  <2>6. ASSUME NEW n \in 0 .. N, c[n] = pv[x] PROVE FALSE
    <3>1. n # N
      BY <1>1, <2>3, <2>6
    <3>2. n + 1 \in 1 .. N /\ (n + 1) - 1 = n /\ n + 1 \in 0 .. N
      BY <3>1
    <3>3. c[n + 1] = Onward(F, nx)[c[n]]
      BY <3>2 DEF Walks
    <3>4. Onward(F, nx)[pv[x]] = x
      BY <1>0, <2>3, <2>4 DEF Onward
    <3> QED BY <2>1, <2>6, <3>2, <3>3, <3>4
  <2> QED BY <2>2, <2>4, <2>5, <2>6
<1>3. Stays(T, pv)
  <2> HIDE DEF T
  <2> QED BY <1>2 DEF Stays
<1>4. T \subseteq F
  BY <1>0
<1> HIDE DEF T
<1>5. PICK f : Walks(f, N, T, pv)
  BY <1>3, Iterated
<1>6. Rises([k \in 0 .. N |-> rk[f[k]]], N)
  <2> DEFINE w == [k \in 0 .. N |-> rk[f[k]]]
  <2>1. \A k \in 0 .. N : f[k] \in T /\ w[k] = rk[f[k]] /\ rk[f[k]] \in Nat
    BY <1>2, <1>5 DEF Walks
  <2>2. ASSUME NEW k \in 1 .. N PROVE w[k - 1] < w[k]
    <3>1. k \in 0 .. N /\ k - 1 \in 0 .. N
      OBVIOUS
    <3>2. f[k] = pv[f[k - 1]] /\ f[k - 1] \in T
      BY <1>5, <3>1 DEF Walks
    <3>3. rk[f[k - 1]] < rk[f[k]]
      BY <1>2, <3>2
    <3> HIDE DEF w
    <3> QED BY <2>1, <3>1, <3>3
  <2> HIDE DEF w
  <2>3. Rises(w, N)
    BY <2>1, <2>2 DEF Rises
  <2> QED BY <2>3 DEF w
<1>7. T \subseteq DOMAIN sz \ {HeapList}
  BY <1>4
<1> QED BY <1>5, <1>6, <1>7, NoLongWalk

-----------------------------------------------------------------------------
(* What holds of the heap at any time.                                      *)

LEMMA InOrder ==
  ASSUME IInv
  PROVE  \E sz, U : /\ Good(heap.mem, heap.brk, sz, U)
                    /\ verdict = "valid" => U = Busy(blocks, Live) /\ Held(heap.mem, sz, blocks, Live)
BY DEF IInv, Accounts

LEMMA SeenWhole ==
  ASSUME NEW sz, NEW U, Good(heap.mem, heap.brk, sz, U)
  PROVE  /\ Walk(heap) = DOMAIN sz
         /\ BlocksOf(heap) = DOMAIN sz \ {HeapList}
         /\ FreeBlocks(heap) = DOMAIN sz \ U
         /\ \A b \in DOMAIN sz : Size(heap.mem, b) = sz[b] /\ NextBlk(heap.mem, b) = b + sz[b]
<1>1. /\ Heap(heap.mem, heap.brk, sz, U, DOMAIN sz \ U) /\ Shape(heap.brk, sz)
      /\ Marked(heap.mem, heap.brk, sz, U) /\ HeapList \in U
  BY DEF Good, Heap
<1>2. Walk(heap) = DOMAIN sz
  <2> DEFINE F == DOMAIN sz \ U
  <2> HIDE DEF F
  <2>1. Heap(heap.mem, heap.brk, sz, U, F)
    BY <1>1 DEF F
  <2> QED BY <2>1, Walked
<1>3. \A b \in DOMAIN sz : /\ Size(heap.mem, b) = sz[b] /\ NextBlk(heap.mem, b) = b + sz[b]
                           /\ Allocated(heap.mem, b) <=> b \in U
  BY <1>1, ReadTags
<1>4. BlocksOf(heap) = DOMAIN sz \ {HeapList}
  BY <1>2 DEF BlocksOf, Prologue
<1>5. FreeBlocks(heap) = DOMAIN sz \ U
  BY <1>1, <1>3, <1>4 DEF FreeBlocks
<1> QED BY <1>2, <1>3, <1>4, <1>5

\* The blocks tile the heap up to the epilogue, and every block has the same tag
\* in its header and its footer.
THEOREM HeapTiled == SteadySpec => []BlocksTileHeap
<1>1. ASSUME IInv PROVE BlocksTileHeap
  <2>1. PICK sz, U : Good(heap.mem, heap.brk, sz, U)
    BY <1>1, InOrder
  <2> DEFINE m == heap.mem
  <2>2. Shape(heap.brk, sz) /\ Marked(m, heap.brk, sz, U)
    BY <2>1 DEF Good, Heap
  <2>3. /\ Walk(heap) = DOMAIN sz /\ BlocksOf(heap) = DOMAIN sz \ {HeapList}
        /\ \A b \in DOMAIN sz : Size(m, b) = sz[b] /\ NextBlk(m, b) = b + sz[b]
    BY <2>1, SeenWhole
  <2>4. ASSUME NEW bp \in BlocksOf(heap)
        PROVE  /\ Size(m, bp) >= 2 * DSIZE
               /\ bp % 8 = 0
               /\ NextBlk(m, bp) \in Walk(heap) \cup {heap.brk}
               /\ m[bp - WSIZE] = m[bp + Size(m, bp) - DSIZE]
    <3>1. bp \in DOMAIN sz \ {HeapList} /\ Size(m, bp) = sz[bp] /\ NextBlk(m, bp) = bp + sz[bp]
      BY <2>3
    <3>2. sz[bp] >= 16 /\ bp % 8 = 0 /\ bp + sz[bp] \in DOMAIN sz \cup {heap.brk}
      BY <2>2, <3>1, BlockFacts
    <3>3. m[bp - 4] = m[bp + sz[bp] - 8]
      BY <2>2, <3>1 DEF Marked
    <3> QED BY <2>3, <3>1, <3>2, <3>3
  <2>5. NextBlk(m, Prologue) \in Walk(heap) \cup {heap.brk}
    BY <2>2, <2>3 DEF Prologue, Shape
  <2>6. m[heap.brk - WSIZE] = PACK(0, 1)
    BY <2>2 DEF Marked, PACK
  <2> QED BY <2>4, <2>5, <2>6 DEF BlocksTileHeap
<1> QED BY <1>1, Invariance, PTL

\* The blocks in use are those the client holds, each with room for its payload,
\* and no free block is followed by another.
THEOREM NothingIsWasted == SteadySpec => []NothingWasted
<1>1. ASSUME IInv PROVE NothingWasted
  <2>1. PICK sz, U : /\ Good(heap.mem, heap.brk, sz, U)
                     /\ verdict = "valid" => /\ U = Busy(blocks, Live)
                                             /\ Held(heap.mem, sz, blocks, Live)
    BY <1>1, InOrder
  <2> DEFINE m == heap.mem
  <2>2. /\ Shape(heap.brk, sz) /\ Marked(m, heap.brk, sz, U) /\ U \subseteq DOMAIN sz
        /\ \A b \in DOMAIN sz \ U : b + sz[b] \in U \cup {heap.brk}
    BY <2>1 DEF Good, Heap
  <2>3. /\ FreeBlocks(heap) = DOMAIN sz \ U /\ BlocksOf(heap) = DOMAIN sz \ {HeapList}
        /\ \A b \in DOMAIN sz : Size(m, b) = sz[b] /\ NextBlk(m, b) = b + sz[b]
    BY <2>1, SeenWhole
  <2>4. ASSUME verdict = "valid"
        PROVE  /\ {blocks[i][1] : i \in Live} = BlocksOf(heap) \ FreeBlocks(heap)
               /\ \A i \in Live : Size(m, blocks[i][1]) >= ALIGN(blocks[i][2]) + DSIZE
    <3>1. \A i \in Live : /\ blocks[i][1] \in DOMAIN sz \ {HeapList}
                          /\ sz[blocks[i][1]] >= ALIGN(blocks[i][2]) + 8
      BY <2>1, <2>4 DEF Held
    <3>2. U \ {HeapList} = {blocks[i][1] : i \in Live}
      BY <2>1, <2>4, <3>1 DEF Busy
    <3>3. BlocksOf(heap) \ FreeBlocks(heap) = U \ {HeapList}
      BY <2>2, <2>3
    <3> QED BY <2>3, <3>1, <3>2, <3>3
  <2>5. ASSUME NEW bp \in FreeBlocks(heap) PROVE Allocated(m, NextBlk(m, bp))
    <3>1. bp \in DOMAIN sz \ U /\ NextBlk(m, bp) = bp + sz[bp]
      BY <2>3
    <3>2. bp + sz[bp] \in U \cup {heap.brk}
      BY <2>2, <3>1
    <3>3. \A c \in U \cup {heap.brk} : Allocated(m, c)
      BY <2>2, ReadTags, ReadEpilogue
    <3> QED BY <3>1, <3>2, <3>3
  <2> QED BY <2>4, <2>5 DEF NothingWasted
<1> QED BY <1>1, Invariance, PTL

LEMMA ListsSeen ==
  ASSUME IInv
  PROVE  \E sz, F, hd, nx, pv, rk :
           /\ F = FreeBlocks(heap) /\ Shape(heap.brk, sz) /\ F \subseteq DOMAIN sz \ {HeapList}
           /\ Links(heap.mem, F, sz, hd, nx, pv, rk)
           /\ \A b \in F : Size(heap.mem, b) = sz[b]
           /\ \A i \in Lists : /\ DOMAIN Chain(heap.mem, i) = 0 .. Room
                               /\ Chain(heap.mem, i)[0] = hd[i]
                               /\ Walks(Chain(heap.mem, i), Room,
                                        OfList(F, sz, i) \cup {NULL}, Onward(F, nx))
<1>1. PICK sz, U : Good(heap.mem, heap.brk, sz, U)
  BY InOrder
<1> DEFINE F == DOMAIN sz \ U
           m == heap.mem
<1>2. Heap(m, heap.brk, sz, U, F) /\ Shape(heap.brk, sz) /\ F \subseteq DOMAIN sz \ {HeapList}
  BY <1>1 DEF Good, Heap
<1>3. F = FreeBlocks(heap) /\ \A b \in F : Size(m, b) = sz[b]
  BY <1>1, SeenWhole
<1> HIDE DEF F, m
<1>4. PICK hd, nx, pv, rk : Links(m, F, sz, hd, nx, pv, rk)
  BY <1>2, ReadLinks DEF Links
<1>5. \A i \in Lists : /\ DOMAIN Chain(m, i) = 0 .. Room /\ Chain(m, i)[0] = hd[i]
                       /\ Walks(Chain(m, i), Room, OfList(F, sz, i) \cup {NULL}, Onward(F, nx))
  BY <1>2, <1>4, ChainWalks
<1> QED BY <1>2, <1>3, <1>4, <1>5 DEF m

\* Every pointer in a free list leads to a free block, which is on the list for
\* its size.
THEOREM ListsAreFree == SteadySpec => []ListsHoldFreeBlocks
<1>1. ASSUME IInv PROVE ListsHoldFreeBlocks
  <2>1. PICK sz, F, hd, nx, pv, rk :
          /\ F = FreeBlocks(heap)
          /\ \A b \in F : Size(heap.mem, b) = sz[b]
          /\ \A i \in Lists : /\ DOMAIN Chain(heap.mem, i) = 0 .. Room
                              /\ Walks(Chain(heap.mem, i), Room,
                                       OfList(F, sz, i) \cup {NULL}, Onward(F, nx))
    BY <1>1, ListsSeen
  <2>2. ASSUME NEW i \in Lists, NEW bp \in OnList(heap.mem, i)
        PROVE  bp \in FreeBlocks(heap) /\ ListIndex(Size(heap.mem, bp)) = i
    <3> DEFINE c == Chain(heap.mem, i)
               S == OfList(F, sz, i) \cup {NULL}
    <3>1. DOMAIN c = 0 .. Room /\ \A n \in 0 .. Room : c[n] \in S
      BY <2>1 DEF Walks
    <3>2. bp # NULL /\ \E n \in DOMAIN c : bp = c[n]
      BY DEF OnList
    <3> HIDE DEF c
    <3>3. bp \in OfList(F, sz, i)
      BY <3>1, <3>2
    <3> QED BY <2>1, <3>3 DEF OfList
  <2> QED BY <2>2 DEF ListsHoldFreeBlocks
<1> QED BY <1>1, Invariance, PTL

\* Every free block is on a free list, and the backward links mirror the
\* forward links.
THEOREM FreeBlocksAreListed == SteadySpec => []FreeBlocksListed
<1>1. ASSUME IInv PROVE FreeBlocksListed
  <2> DEFINE m == heap.mem
  <2>1. PICK sz, F, hd, nx, pv, rk :
          /\ F = FreeBlocks(heap) /\ Shape(heap.brk, sz) /\ F \subseteq DOMAIN sz \ {HeapList}
          /\ Links(m, F, sz, hd, nx, pv, rk)
          /\ \A i \in Lists : /\ DOMAIN Chain(m, i) = 0 .. Room
                              /\ Chain(m, i)[0] = hd[i]
                              /\ Walks(Chain(m, i), Room,
                                       OfList(F, sz, i) \cup {NULL}, Onward(F, nx))
    BY <1>1, ListsSeen
  <2>2. PICK N \in Nat : N = Room
    BY RoomFacts
  <2>3. /\ NULL \notin F /\ Chained(F, sz, hd, nx, pv, rk)
        /\ \A b \in F : Address(m[b]) = pv[b]
    BY <2>1, LinkCells DEF Links
  <2> HIDE DEF m
  <2>4. ASSUME NEW b \in F PROVE \E i \in Lists : b \in OnList(m, i)
    <3> DEFINE i == ListIndex(sz[b])
    <3>1. i \in Lists /\ b \in OfList(F, sz, i)
      BY ListIndexFacts DEF OfList
    <3> HIDE DEF i
    <3> DEFINE c == Chain(m, i)
    <3>2. /\ DOMAIN c = 0 .. N /\ c[0] = hd[i]
          /\ Walks(c, N, OfList(F, sz, i) \cup {NULL}, Onward(F, nx))
      BY <2>1, <2>2, <3>1
    <3> HIDE DEF c
    <3>3. \E n \in 0 .. N : c[n] = b
      BY <2>1, <2>2, <2>3, <3>1, <3>2, ChainCovers
    <3>4. b \in OnList(m, i)
      BY <2>3, <3>2, <3>3 DEF OnList, c
    <3> QED BY <3>1, <3>4
  <2>5. ASSUME NEW i \in Lists, NEW n \in DOMAIN Chain(m, i), Chain(m, i)[n] # NULL
        PROVE  Address(m[Chain(m, i)[n]]) = IF n = 0 THEN NULL ELSE Chain(m, i)[n - 1]
    <3> DEFINE c == Chain(m, i)
    <3>1. /\ DOMAIN c = 0 .. N /\ c[0] = hd[i]
          /\ Walks(c, N, OfList(F, sz, i) \cup {NULL}, Onward(F, nx))
      BY <2>1, <2>2
    <3> HIDE DEF c
    <3>2. n \in 0 .. N /\ c[n] # NULL
      BY <2>5, <3>1 DEF c
    <3>3. \A k \in 0 .. N : c[k] \in F \cup {NULL}
      <4>1. OfList(F, sz, i) \subseteq F
        BY DEF OfList
      <4> QED BY <3>1, <4>1 DEF Walks
    <3>4. Address(m[c[n]]) = pv[c[n]] /\ c[n] \in F
      BY <2>3, <3>2, <3>3
    <3>5. CASE n = 0
      <4>1. pv[hd[i]] = NULL
        BY <2>3, <3>1, <3>2, <3>5 DEF Chained
      <4> QED BY <3>1, <3>4, <3>5, <4>1 DEF c
    <3>6. CASE n # 0
      <4>1. n \in 1 .. N /\ n - 1 \in 0 .. N
        BY <3>2, <3>6
      <4>2. c[n] = Onward(F, nx)[c[n - 1]] /\ c[n - 1] \in F \cup {NULL}
        BY <3>1, <3>3, <4>1 DEF Walks
      <4>3. c[n - 1] \in F /\ c[n] = nx[c[n - 1]]
        <5> DEFINE d == c[n - 1]
        <5>1. d \in F \cup {NULL} /\ c[n] = IF d = NULL THEN NULL ELSE nx[d]
          BY <4>2 DEF Onward
        <5> HIDE DEF d
        <5>2. d \in F /\ c[n] = nx[d]
          BY <3>2, <5>1
        <5> QED BY <5>2 DEF d
      <4>4. pv[nx[c[n - 1]]] = c[n - 1]
        BY <2>3, <3>2, <4>3 DEF Chained
      <4> QED BY <3>4, <3>6, <4>3, <4>4 DEF c
    <3> QED BY <3>5, <3>6
  <2>6. FreeBlocks(heap) \subseteq UNION {OnList(m, i) : i \in Lists}
    BY <2>1, <2>4
  <2> QED BY <2>5, <2>6 DEF FreeBlocksListed, m
<1> QED BY <1>1, Invariance, PTL

-----------------------------------------------------------------------------
(* No free block with room is missed.                                       *)

\* A smaller number stays the smaller one when both are shifted.
LEMMA Shifts ==
  ASSUME NEW x \in Nat, NEW y \in Nat, x <= y, NEW k \in Nat
  PROVE  /\ Shifted(x, k) \in Nat /\ Shifted(y, k) \in Nat
         /\ Shifted(x, k) <= Shifted(y, k)
<1> DEFINE step == [s \in Nat |-> s \div 2]
<1>1. Stays(Nat, step)
  BY DEF Stays
<1>2. ASSUME NEW z \in Nat
      PROVE  \E f : Shifted(z, k) = f[k] /\ f[0] = z /\ Walks(f, k, Nat, step)
  <2> DEFINE half[n \in 0 .. k] == IF n = 0 THEN z ELSE half[n - 1] \div 2
  <2>1. Shifted(z, k) = half[k]
    BY DEF Shifted
  <2>2. PICK f : /\ DOMAIN f = 0 .. k /\ f = [n \in 0 .. k |-> f[n]] /\ f[0] = z
                 /\ Walks(f, k, Nat, step)
    <3> HIDE DEF half, step
    <3> QED BY <1>1, Iterated
  <2>3. f = [n \in 0 .. k |-> IF n = 0 THEN z ELSE f[n - 1] \div 2]
    <3> SUFFICES ASSUME NEW n \in 0 .. k
                 PROVE  f[n] = IF n = 0 THEN z ELSE f[n - 1] \div 2
      BY <2>2
    <3>1. CASE n = 0
      BY <2>2, <3>1
    <3>2. CASE n # 0
      <4>1. n \in 1 .. k /\ n - 1 \in 0 .. k
        BY <3>2
      <4>2. f[n] = step[f[n - 1]] /\ f[n - 1] \in Nat
        BY <2>2, <4>1 DEF Walks
      <4> QED BY <3>2, <4>2
    <3> QED BY <3>1, <3>2
  <2>4. half = [n \in 0 .. k |-> IF n = 0 THEN z ELSE half[n - 1] \div 2]
    BY <2>3
  <2> HIDE DEF half
  <2>5. half[0] = z
    BY <2>4
  <2>6. ASSUME NEW n \in 1 .. k, half[n - 1] \in Nat PROVE half[n] = step[half[n - 1]]
    <3>1. n \in 0 .. k /\ n # 0
      OBVIOUS
    <3> QED BY <2>4, <2>6, <3>1
  <2>7. Walks(half, k, Nat, step)
    <3> HIDE DEF step
    <3>1. StepsIn(half, k, Nat, step)
      BY <2>5, <2>6 DEF StepsIn
    <3> QED BY <1>1, <3>1, Followed
  <2> QED BY <2>1, <2>5, <2>7
<1>3. PICK f : Shifted(x, k) = f[k] /\ f[0] = x /\ Walks(f, k, Nat, step)
  BY <1>2
<1>4. PICK g : Shifted(y, k) = g[k] /\ g[0] = y /\ Walks(g, k, Nat, step)
  BY <1>2
<1>5. /\ \A n \in 0 .. k : f[n] \in Nat /\ g[n] \in Nat
      /\ \A n \in 1 .. k : f[n] = f[n - 1] \div 2 /\ g[n] = g[n - 1] \div 2
  <2>1. \A n \in 0 .. k : f[n] \in Nat /\ g[n] \in Nat
    BY <1>3, <1>4 DEF Walks
  <2>2. ASSUME NEW n \in 1 .. k PROVE f[n] = f[n - 1] \div 2 /\ g[n] = g[n - 1] \div 2
    <3>1. n - 1 \in 0 .. k
      OBVIOUS
    <3> QED BY <1>3, <1>4, <2>1, <3>1 DEF Walks
  <2> QED BY <2>1, <2>2
<1> DEFINE T == {n \in Nat : n <= k /\ ~(f[n] <= g[n])}
<1>6. T = {}
  <2> SUFFICES ASSUME T # {} PROVE FALSE
    OBVIOUS
  <2>1. PICK n \in T : \A j \in T : n <= j
    BY NatLeast
  <2>2. n \in Nat /\ n <= k /\ ~(f[n] <= g[n])
    OBVIOUS
  <2>3. n # 0
    BY <1>3, <1>4, <2>2
  <2>4. n - 1 \in Nat /\ n - 1 < n /\ n \in 1 .. k /\ n - 1 \in 0 .. k
    BY <2>2, <2>3
  <2>5. n - 1 \notin T
    <3> HIDE DEF T
    <3> QED BY <2>1, <2>2, <2>4
  <2>6. f[n - 1] <= g[n - 1]
    BY <2>4, <2>5
  <2> DEFINE p == f[n - 1]
             q == g[n - 1]
  <2>7. p \in Nat /\ q \in Nat /\ p <= q /\ f[n] = p \div 2 /\ g[n] = q \div 2
    BY <1>5, <2>4, <2>6
  <2> HIDE DEF p, q
  <2>8. p \div 2 <= q \div 2
    BY <2>7
  <2> QED BY <2>2, <2>7, <2>8
<1>7. k \in 0 .. k /\ f[k] <= g[k]
  <2>1. k \notin T
    <3> HIDE DEF T
    <3> QED BY <1>6
  <2> QED BY <2>1
<1> QED BY <1>3, <1>4, <1>5, <1>7

\* A larger block is on the same list or on a later one.
LEMMA LaterList ==
  ASSUME NEW a \in Nat, a >= 16, NEW s \in Nat, a <= s
  PROVE  ListIndex(a) <= ListIndex(s)
<1> DEFINE linear(x) == x \div DSIZE - 2
           shorter(x) == {i \in LINEARMAX .. LISTLENGTH - 2 :
                            Shifted(x - 1, LINEARLENGTH + i - LINEARMAX) = 0}
           least(x) == CHOOSE i \in shorter(x) : \A j \in shorter(x) : i <= j
<1>0. /\ LISTLENGTH \in Nat /\ LINEARMAX \in Nat /\ LINEARLENGTH \in Nat
      /\ LINEARMAX <= LISTLENGTH - 1
  BY ListAssumption
<1>1. /\ linear(a) \in Nat /\ linear(s) \in Nat /\ linear(a) <= linear(s)
      /\ a - 1 \in Nat /\ s - 1 \in Nat /\ a - 1 <= s - 1
  OBVIOUS
<1>2. shorter(s) \subseteq shorter(a)
  <2> SUFFICES ASSUME NEW i \in LINEARMAX .. LISTLENGTH - 2,
                      Shifted(s - 1, LINEARLENGTH + i - LINEARMAX) = 0
               PROVE  Shifted(a - 1, LINEARLENGTH + i - LINEARMAX) = 0
    OBVIOUS
  <2> DEFINE k == LINEARLENGTH + i - LINEARMAX
             x == a - 1
             y == s - 1
  <2>1. k \in Nat /\ x \in Nat /\ y \in Nat /\ x <= y
    BY <1>0, <1>1
  <2>2. Shifted(y, k) = 0
    OBVIOUS
  <2> HIDE DEF k, x, y
  <2>3. Shifted(x, k) \in Nat /\ Shifted(x, k) <= Shifted(y, k)
    BY <2>1, Shifts
  <2>4. Shifted(x, k) = 0
    BY <2>2, <2>3
  <2> QED BY <2>4 DEF k, x
<1>3. \A x : /\ shorter(x) \subseteq Nat /\ shorter(x) \subseteq LINEARMAX .. LISTLENGTH - 2
             /\ ListIndex(x) = IF linear(x) \in 0 .. LINEARMAX - 1 THEN linear(x)
                               ELSE IF shorter(x) = {} THEN LISTLENGTH - 1 ELSE least(x)
  BY <1>0 DEF ListIndex
<1> HIDE DEF linear, shorter
<1>4. ASSUME NEW x, shorter(x) # {}
      PROVE  least(x) \in shorter(x) /\ \A j \in shorter(x) : least(x) <= j
  <2> DEFINE S == shorter(x)
  <2>1. S \subseteq Nat /\ S # {}
    BY <1>3, <1>4
  <2> HIDE DEF S
  <2>2. \E i \in S : \A j \in S : i <= j
    BY <2>1, NatLeast
  <2> QED BY <2>2 DEF S
<1> HIDE DEF least
<1>5. ListIndex(a) \in 0 .. LISTLENGTH - 1 /\ ListIndex(s) \in 0 .. LISTLENGTH - 1
  BY ListIndexFacts DEF Lists
<1>6. ASSUME linear(s) \notin 0 .. LINEARMAX - 1 PROVE ListIndex(s) >= LINEARMAX
  <2>1. CASE shorter(s) = {}
    BY <1>0, <1>3, <1>6, <2>1
  <2>2. CASE shorter(s) # {}
    <3>1. ListIndex(s) \in LINEARMAX .. LISTLENGTH - 2
      BY <1>3, <1>4, <1>6, <2>2
    <3> QED BY <1>0, <3>1
  <2> QED BY <2>1, <2>2
<1>7. CASE linear(a) \in 0 .. LINEARMAX - 1
  <2>1. ListIndex(a) = linear(a)
    BY <1>3, <1>7
  <2>2. CASE linear(s) \in 0 .. LINEARMAX - 1
    BY <1>1, <1>3, <2>1, <2>2
  <2>3. CASE linear(s) \notin 0 .. LINEARMAX - 1
    BY <1>0, <1>5, <1>6, <1>7, <2>1, <2>3
  <2> QED BY <2>2, <2>3
<1>8. CASE linear(a) \notin 0 .. LINEARMAX - 1
  <2>1. linear(s) \notin 0 .. LINEARMAX - 1
    BY <1>0, <1>1, <1>8
  <2>2. CASE shorter(s) = {}
    <3>1. ListIndex(s) = LISTLENGTH - 1
      BY <1>3, <2>1, <2>2
    <3> QED BY <1>0, <1>5, <3>1
  <2>3. CASE shorter(s) # {}
    <3>1. shorter(a) # {}
      BY <1>2, <2>3
    <3>2. ListIndex(s) = least(s) /\ ListIndex(a) = least(a)
      BY <1>3, <1>8, <2>1, <2>3, <3>1
    <3>3. least(s) \in shorter(a)
      BY <1>2, <1>4, <2>3
    <3> QED BY <1>4, <3>1, <3>2, <3>3
  <2> QED BY <2>2, <2>3
<1> QED BY <1>7, <1>8

\* The search of the list that has a block with room finds some block.
LEMMA FirstFitMissesNone ==
  ASSUME NEW m, NEW brk, NEW sz, NEW U, NEW F, Heap(m, brk, sz, U, F),
         NEW asize \in Nat, NEW b \in F, sz[b] >= asize,
         NEW i, i = ListIndex(sz[b])
  PROVE  FirstFit(m, i, asize) # NULL
<1>0. /\ Shape(brk, sz) /\ F \subseteq DOMAIN sz \ {HeapList} /\ NULL \notin F /\ i \in Lists
  <2>1. Shape(brk, sz) /\ F \subseteq DOMAIN sz \ {HeapList}
    BY DEF Heap
  <2> QED BY <2>1, LinkCells, ListIndexFacts
<1>1. PICK hd, nx, pv, rk : Links(m, F, sz, hd, nx, pv, rk)
  BY ReadLinks DEF Links
<1>2. PICK N \in Nat : N = Room
  BY RoomFacts
<1>3. PICK f : Search(f, m, i, F, sz, hd, nx, asize)
  BY <1>0, <1>1, FirstFitWalks
<1> DEFINE S == OfList(F, sz, i) \cup {NULL}
           step == Sought(F, sz, nx, asize)
           Passed(x) == x = NULL \/ ~(sz[x] >= asize)
<1>4. FirstFit(m, i, asize) = f[N] /\ f[0] = hd[i] /\ Walks(f, N, F \cup {NULL}, step)
  BY <1>2, <1>3 DEF Search
<1> SUFFICES ASSUME f[N] = NULL PROVE FALSE
  BY <1>4
<1>5. ASSUME NEW n \in 1 .. N
      PROVE  /\ n - 1 \in 0 .. N /\ f[n - 1] \in F \cup {NULL}
             /\ f[n] = IF f[n - 1] = NULL \/ sz[f[n - 1]] >= asize THEN f[n - 1] ELSE nx[f[n - 1]]
  <2>1. n - 1 \in 0 .. N
    OBVIOUS
  <2>2. f[n - 1] \in F \cup {NULL} /\ f[n] = step[f[n - 1]]
    BY <1>4, <2>1 DEF Walks
  <2> QED BY <2>1, <2>2 DEF Sought
<1>6. \A n \in 0 .. N : Passed(f[n])
  <2> DEFINE T == {k \in Nat : k <= N /\ ~Passed(f[N - k])}
  <2>1. T = {}
    <3> SUFFICES ASSUME T # {} PROVE FALSE
      OBVIOUS
    <3>1. PICK k \in T : \A j \in T : k <= j
      BY NatLeast
    <3>2. k \in Nat /\ k <= N /\ ~Passed(f[N - k])
      OBVIOUS
    <3>3. k # 0
      <4>1. N - 0 = N /\ Passed(f[N])
        OBVIOUS
      <4> HIDE DEF Passed
      <4> QED BY <3>2, <4>1
    <3>4. /\ k - 1 \in Nat /\ k - 1 < k /\ N - (k - 1) \in 1 .. N
          /\ (N - (k - 1)) - 1 = N - k /\ k - 1 <= N
      BY <3>2, <3>3
    <3>5. k - 1 \notin T
      <4> HIDE DEF T
      <4> QED BY <3>1, <3>2, <3>4
    <3> DEFINE x == f[N - (k - 1)]
               y == f[N - k]
    <3>6. Passed(x) /\ ~Passed(y)
      BY <3>2, <3>4, <3>5
    <3>7. x = IF y = NULL \/ sz[y] >= asize THEN y ELSE nx[y]
      BY <1>5, <3>4
    <3> HIDE DEF x, y
    <3> QED BY <3>6, <3>7
  <2> SUFFICES ASSUME NEW n \in 0 .. N PROVE Passed(f[n])
    OBVIOUS
  <2>2. N - n \in Nat /\ N - n <= N /\ N - (N - n) = n
    OBVIOUS
  <2>3. N - n \notin T
    <3> HIDE DEF T
    <3> QED BY <2>1
  <2> HIDE DEF Passed
  <2> QED BY <2>2, <2>3
<1>7. /\ hd[i] \in S /\ Stays(S, Onward(F, nx)) /\ Chained(F, sz, hd, nx, pv, rk)
  BY <1>0, <1>1, OnwardStays DEF Links
<1>8. ASSUME NEW n \in 1 .. N PROVE f[n] = Onward(F, nx)[f[n - 1]]
  <2> DEFINE x == f[n - 1]
  <2>1. x \in F \cup {NULL} /\ Passed(x)
    BY <1>5, <1>6
  <2>2. f[n] = IF x = NULL \/ sz[x] >= asize THEN x ELSE nx[x]
    BY <1>5
  <2> HIDE DEF x
  <2>3. f[n] = IF x = NULL THEN NULL ELSE nx[x]
    BY <2>1, <2>2
  <2>4. f[n] = Onward(F, nx)[x]
    BY <2>1, <2>3 DEF Onward
  <2> QED BY <2>4 DEF x
<1>9. Walks(f, N, S, Onward(F, nx))
  <2> HIDE DEF S
  <2>1. StepsIn(f, N, S, Onward(F, nx))
    BY <1>4, <1>7, <1>8 DEF StepsIn
  <2> QED BY <1>7, <2>1, Followed
<1>10. b \in OfList(F, sz, i)
  BY DEF OfList
<1>11. \E n \in 0 .. N : f[n] = b
  <2> HIDE DEF Passed, step
  <2> QED BY <1>0, <1>2, <1>4, <1>7, <1>9, <1>10, ChainCovers
<1> QED BY <1>0, <1>6, <1>11

LEMMA FindFitMissesNone ==
  ASSUME NEW m, NEW brk, NEW sz, NEW U, NEW F, Heap(m, brk, sz, U, F),
         NEW asize \in Nat, asize >= 16, NEW b \in F, sz[b] >= asize
  PROVE  FindFit(m, asize) # NULL
<1> DEFINE lists == {i \in ListIndex(asize) .. LISTLENGTH - 1 : FirstFit(m, i, asize) # NULL}
           first == CHOOSE i \in lists : \A j \in lists : i <= j
           k == ListIndex(sz[b])
<1>1. sz[b] \in Nat /\ asize <= sz[b]
  <2>1. Shape(brk, sz) /\ b \in DOMAIN sz
    BY DEF Heap
  <2> QED BY <2>1, ShapeFacts
<1>2. ListIndex(asize) <= k
  <2> DEFINE s == sz[b]
  <2> HIDE DEF s
  <2>1. s \in Nat /\ asize <= s
    BY <1>1 DEF s
  <2>2. ListIndex(asize) <= ListIndex(s)
    BY <2>1, LaterList
  <2> QED BY <2>2 DEF s
<1>3. ListIndex(asize) \in Lists /\ k \in Lists
  BY ListIndexFacts
<1>4. FirstFit(m, k, asize) # NULL
  <2> HIDE DEF k
  <2>1. k = ListIndex(sz[b])
    BY DEF k
  <2> QED BY <2>1, FirstFitMissesNone
<1> DEFINE low == ListIndex(asize)
<1> HIDE DEF k, low
<1>5. low \in Nat /\ k \in low .. LISTLENGTH - 1
  BY <1>2, <1>3, ListAssumption DEF Lists, low
<1>6. k \in lists /\ lists \subseteq Nat
  BY <1>4, <1>5 DEF low
<1>7. FindFit(m, asize) = FirstFit(m, first, asize)
  BY <1>6 DEF FindFit
<1>8. \E i \in lists : \A j \in lists : i <= j
  <2> HIDE DEF lists
  <2> QED BY <1>6, NatLeast
<1>9. first \in lists
  <2> HIDE DEF lists
  <2> QED BY <1>8
<1> QED BY <1>7, <1>9

\* A block that is found is used, and the heap stays as large as it is.
LEMMA FitIsUsed ==
  ASSUME NEW h, NEW sz, NEW U, Good(h.mem, h.brk, sz, U),
         NEW asize \in Nat, asize % 8 = 0, asize >= 16,
         NEW fit, fit = FindFit(h.mem, asize), fit # NULL,
         NEW r, r = PlacedAt(h, fit, asize)
  PROVE  r.ptr # NULL /\ r.brk = h.brk
<1> DEFINE F == DOMAIN sz \ U
<1>1. Heap(h.mem, h.brk, sz, U, F) /\ Shape(h.brk, sz)
  BY DEF Good, Heap
<1> HIDE DEF F
<1>2. fit \in F /\ sz[fit] >= asize
  BY <1>1, FindFitFinds
<1>3. fit \in DOMAIN sz \ U
  BY <1>2 DEF F
<1>4. sz[fit] \in Nat
  BY <1>1, <1>3, ShapeFacts
<1>5. asize <= sz[fit]
  BY <1>2, <1>4
<1>6. Gives(h.mem, sz, r, U, r.ptr, asize) /\ r.ptr # NULL /\ r.brk = h.brk
  BY <1>3, <1>5, PlacedAtFacts
<1> QED BY <1>6

\* The heap grows, and a request is refused, only if no free block has room.
THEOREM GrowthIsNeeded == SteadySpec => GrowsOnlyWhenFull
<1>1. ASSUME IInv,
             NEW i \in Indices, NEW size \in Sizes \ {0}, Alloc(i, size),
             heap'.brk > heap.brk \/ verdict' # "valid"
      PROVE  FitsNowhere(heap, ALIGN(size) + DSIZE)
  <2> DEFINE asize == ALIGN(size) + DSIZE
             r == MmMalloc(heap, size)
             fit == FindFit(heap.mem, asize)
  <2>0. size \in Nat /\ size > 0
    BY SizeAssumption
  <2>1. asize \in Nat /\ asize >= 16 /\ asize % 8 = 0
    <3>1. ALIGN(size) \in Nat /\ ALIGN(size) % 8 = 0 /\ size <= ALIGN(size)
      BY <2>0, RoundedUp
    <3> DEFINE t == ALIGN(size)
    <3> HIDE DEF t
    <3>2. t \in Nat /\ t % 8 = 0 /\ size <= t
      BY <3>1 DEF t
    <3>3. t + 8 \in Nat /\ t + 8 >= 16 /\ (t + 8) % 8 = 0
      BY <2>0, <3>2
    <3> QED BY <3>3 DEF t
  <2>2. PICK sz : Accounts(sz)
    BY <1>1 DEF IInv, Alloc
  <2> DEFINE U == Busy(blocks, Live)
  <2>3. Good(heap.mem, heap.brk, sz, U)
    BY <2>2 DEF Accounts
  <2> DEFINE F == DOMAIN sz \ U
  <2>4. Heap(heap.mem, heap.brk, sz, U, F) /\ Shape(heap.brk, sz)
    BY <2>3 DEF Good, Heap
  <2>5. /\ FreeBlocks(heap) = F
        /\ \A c \in DOMAIN sz : Size(heap.mem, c) = sz[c] /\ sz[c] \in Nat
    BY <2>3, <2>4, SeenWhole, ShapeFacts
  <2>6. r = IF fit # NULL THEN PlacedAt(heap, fit, asize)
            ELSE PlacedInGrown(ExtendHeap(heap, MaxOf(asize, CHUNKSIZE)), asize)
    BY <2>0 DEF MmMalloc
  <2>7. IF r.ptr = NULL THEN Fail(r, "mm_malloc failed")
        ELSE IF ~RangeOk(r.ptr, size, r.brk, ranges) THEN Fail(r, "bad range")
        ELSE Remember(i, r, size, ranges)
    BY <1>1 DEF Alloc
  <2> HIDE DEF asize, r, fit, U
  <2> SUFFICES ASSUME NEW b \in F, sz[b] >= asize PROVE FALSE
    <3> SUFFICES ASSUME NEW b \in FreeBlocks(heap) PROVE Size(heap.mem, b) < asize
      BY DEF FitsNowhere, asize
    <3>1. ~(sz[b] >= asize) /\ sz[b] \in Nat /\ Size(heap.mem, b) = sz[b]
      BY <2>5
    <3> QED BY <2>1, <3>1
  <2> HIDE DEF F
  <2>8. fit # NULL
    BY <2>1, <2>4, FindFitMissesNone DEF fit
  <2>10. r.ptr # NULL /\ r.brk = heap.brk
    <3>1. r = PlacedAt(heap, fit, asize) /\ fit = FindFit(heap.mem, asize)
      BY <2>6, <2>8 DEF fit
    <3> QED BY <2>1, <2>3, <2>8, <3>1, FitIsUsed
  <2>11. heap'.brk = heap.brk /\ verdict' \in {"bad range", verdict}
    <3>1. CASE Fail(r, "bad range")
      BY <2>10, <3>1 DEF Fail
    <3>2. CASE Remember(i, r, size, ranges)
      BY <2>10, <3>2 DEF Remember
    <3> QED BY <2>7, <2>10, <3>1, <3>2
  <2>12. verdict' = "valid"
    <3>1. PICK r0 : Granted(i, size, r0) \/ Refused(size, r0)
      BY <1>1, AllocOutcome
    <3>2. CASE Granted(i, size, r0)
      BY <3>2 DEF Granted, Remember
    <3>3. CASE Refused(size, r0)
      <4>1. verdict' \in {"mm_malloc failed", "mm_realloc failed"}
        BY <3>3 DEF Refused, Fail
      <4>2. verdict = "valid"
        BY <3>3 DEF Refused
      <4> QED BY <2>11, <4>1, <4>2
    <3> QED BY <3>1, <3>2, <3>3
  <2>13. heap.brk \in Nat
    BY <2>4, ShapeFacts
  <2> QED BY <1>1, <2>11, <2>12, <2>13
<1> DEFINE Needed == \A i \in Indices, size \in Sizes \ {0} :
                       Alloc(i, size) /\ (heap'.brk > heap.brk \/ verdict' # "valid")
                         => FitsNowhere(heap, ALIGN(size) + DSIZE)
<1>2. IInv => Needed
  BY <1>1
<1>3. GrowsOnlyWhenFull <=> [][Needed]_vars
  BY DEF GrowsOnlyWhenFull
<1> HIDE DEF Needed
<1> QED BY <1>2, <1>3, Invariance, PTL
=============================================================================
