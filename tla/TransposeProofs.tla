-------------------------- MODULE TransposeProofs --------------------------
(***************************************************************************)
(* transpose_submit() of lab8/trans.c transposes, and stays inside its      *)
(* matrices, for every size up to 256 x 256 (about module Transpose).       *)
(*                                                                          *)
(* The program is one long sequence of accesses for every size.  What makes *)
(* a tile right is said of its accesses alone, without running it: Sound.   *)
(* Every tile is shown to be sound, and the tiles of a size to reach every  *)
(* element; the invariant of a run then only carries a sound tile along.    *)
(***************************************************************************)
EXTENDS Transpose, TLAPS, WellFoundedInduction, SequenceTheorems

\* Every nonempty set of natural numbers has a least element.
LEMMA NatLeast ==
  ASSUME NEW T, T \subseteq Nat, T # {}
  PROVE  \E x \in T : \A y \in T : x <= y
<1> DEFINE Below == {p \in Nat \X Nat : p[1] < p[2]}
<1>1. IsWellFoundedOn(Below, Nat)
  BY NatLessThanWellFounded DEF OpToRel
<1>2. PICK x \in T : \A y \in T : <<y, x>> \notin Below
  BY <1>1, WFMin
<1>3. ASSUME NEW y \in T
      PROVE  x <= y
  <2>1. x \in Nat /\ y \in Nat
    OBVIOUS
  <2>2. <<y, x>> \notin Below
    BY <1>2
  <2> QED BY <2>1, <2>2
<1> QED BY <1>3

-----------------------------------------------------------------------------
(* What FlattenSeq makes of sequences.                                      *)

\* f does what the recursion in FlattenSeq asks of it, up to n.
Joins(f, seqs, n) ==
  f = [i \in 1 .. n |-> IF i = 1 THEN seqs[i] ELSE f[i - 1] \o seqs[i]]

\* There is such an f: otherwise there would be a least n for which there is none.
LEMMA Joinable ==
  ASSUME NEW seqs, NEW m \in Nat
  PROVE  \A n \in 1 .. m : \E f : Joins(f, seqs, n)
<1> SUFFICES ASSUME NEW k \in 1 .. m, ~\E f : Joins(f, seqs, k)
             PROVE  FALSE
  OBVIOUS
<1> DEFINE Bad == {n \in 1 .. m : ~\E f : Joins(f, seqs, n)}
<1>1. Bad \subseteq Nat /\ Bad # {}
  OBVIOUS
<1>2. PICK n \in Bad : \A x \in Bad : n <= x
  <2> HIDE DEF Bad
  <2> QED BY <1>1, NatLeast
<1>3. CASE n = 1
  <2> DEFINE g == [i \in 1 .. 1 |-> seqs[1]]
  <2>1. Joins(g, seqs, 1)
    BY DEF Joins
  <2> QED BY <2>1, <1>2, <1>3
<1>4. CASE n # 1
  <2>0. n \in 1 .. m /\ n \in Nat
    BY <1>2
  <2>1. n - 1 \in 1 .. m /\ n - 1 \notin Bad
    BY <1>2, <1>4
  <2>2. PICK f : Joins(f, seqs, n - 1)
    BY <2>1
  <2> DEFINE g == [i \in 1 .. n |-> IF i = n THEN f[n - 1] \o seqs[n] ELSE f[i]]
  <2>3. \A i \in 1 .. n : g[i] = IF i = 1 THEN seqs[i] ELSE g[i - 1] \o seqs[i]
    <3> SUFFICES ASSUME NEW i \in 1 .. n
                 PROVE  g[i] = IF i = 1 THEN seqs[i] ELSE g[i - 1] \o seqs[i]
      OBVIOUS
    <3>1. CASE i = n
      <4>1. n \in Nat /\ n - 1 \in 1 .. n /\ n - 1 # n /\ i # 1
        <5> HIDE DEF g, Bad
        <5> QED BY <3>1, <2>0, <1>4
      <4>2. n \in 1 .. n
        BY <4>1
      <4>3. g[n - 1] = f[n - 1] /\ g[n] = f[n - 1] \o seqs[n]
        <5> HIDE DEF Bad
        <5> QED BY <4>1, <4>2
      <4> HIDE DEF g
      <4> QED BY <3>1, <4>1, <4>3
    <3>2. CASE i # n
      <4>1. i \in 1 .. n - 1 /\ n \in Nat
        BY <3>2, <1>2
      <4>2. f[i] = IF i = 1 THEN seqs[i] ELSE f[i - 1] \o seqs[i]
        BY <4>1, <2>2 DEF Joins
      <4>3. g[i] = f[i] /\ (i # 1 => g[i - 1] = f[i - 1])
        BY <4>1
      <4> QED BY <4>2, <4>3
    <3> QED BY <3>1, <3>2
  <2>4. Joins(g, seqs, n)
    <3> DEFINE h == [i \in 1 .. n |-> IF i = 1 THEN seqs[i] ELSE g[i - 1] \o seqs[i]]
    <3>1. DOMAIN g = 1 .. n /\ DOMAIN h = 1 .. n
      OBVIOUS
    <3>2. \A i \in 1 .. n : g[i] = h[i]
      BY <2>3
    <3>3. g = [i \in 1 .. n |-> g[i]] /\ h = [i \in 1 .. n |-> h[i]]
      OBVIOUS
    <3>4. g = h
      <4> HIDE DEF g, h
      <4> QED BY <3>2, <3>3
    <3> QED BY <3>4 DEF Joins
  <2> QED BY <2>4, <1>2
<1> QED BY <1>3, <1>4

\* Two sequences, one after the other.
LEMMA Concatenated ==
  ASSUME NEW S, NEW s \in Seq(S), NEW r \in Seq(S)
  PROVE  /\ s \o r \in Seq(S) /\ Len(s) \in Nat /\ Len(r) \in Nat
         /\ Len(s \o r) = Len(s) + Len(r)
         /\ \A x \in 1 .. Len(s) : (s \o r)[x] = s[x]
         /\ \A y \in Nat : y \in 1 .. Len(r) => (s \o r)[Len(s) + y] = r[y]
OBVIOUS

\* at tells where each of the sequences begins in the flat one, flat.
Laid(flat, seqs, at) ==
  /\ at \in [1 .. Len(seqs) + 1 -> Nat]
  /\ at[1] = 0 /\ at[Len(seqs) + 1] = Len(flat)
  /\ \A i \in 1 .. Len(seqs) : at[i + 1] = at[i] + Len(seqs[i])
  /\ \A i \in 1 .. Len(seqs) : at[i + 1] <= Len(flat)
  /\ \A i \in 1 .. Len(seqs), y \in Nat : y \in 1 .. Len(seqs[i]) => flat[at[i] + y] = seqs[i][y]
  /\ \A x \in 1 .. Len(flat) : \E i \in 1 .. Len(seqs), y \in Nat :
       y \in 1 .. Len(seqs[i]) /\ x = at[i] + y

\* FlattenSeq lays its sequences out one after the other.
LEMMA Flattened ==
  ASSUME NEW S, NEW seqs \in Seq(Seq(S)), seqs # <<>>
  PROVE  FlattenSeq(seqs) \in Seq(S) /\ \E at : Laid(FlattenSeq(seqs), seqs, at)
<1> DEFINE m == Len(seqs)
           f == CHOOSE flatten : flatten = [i \in 1 .. m |->
                  IF i = 1 THEN seqs[i] ELSE flatten[i - 1] \o seqs[i]]
<1>1. m \in Nat /\ m > 0 /\ \A i \in 1 .. m : seqs[i] \in Seq(S)
  OBVIOUS
<1>2. FlattenSeq(seqs) = f[m]
  BY <1>1 DEF FlattenSeq
<1>3. \E g : g = [i \in 1 .. m |-> IF i = 1 THEN seqs[i] ELSE g[i - 1] \o seqs[i]]
  <2>1. m \in 1 .. m
    BY <1>1
  <2> HIDE DEF m
  <2>2. \E g : Joins(g, seqs, m)
    BY <1>1, <2>1, Joinable
  <2> QED BY <2>2 DEF Joins
<1>4. f = [i \in 1 .. m |-> IF i = 1 THEN seqs[i] ELSE f[i - 1] \o seqs[i]]
  BY <1>3
<1> HIDE DEF f
<1>5. f[1] = seqs[1] /\ \A i \in 2 .. m : f[i] = f[i - 1] \o seqs[i]
  <2> HIDE DEF m
  <2> DEFINE h == [i \in 1 .. m |-> IF i = 1 THEN seqs[i] ELSE f[i - 1] \o seqs[i]]
  <2>1. \A i \in 1 .. m : h[i] = IF i = 1 THEN seqs[i] ELSE f[i - 1] \o seqs[i]
    OBVIOUS
  <2>2. f = h
    BY <1>4
  <2>3. \A i \in 1 .. m : f[i] = IF i = 1 THEN seqs[i] ELSE f[i - 1] \o seqs[i]
    <3> HIDE DEF h
    <3> QED BY <2>1, <2>2
  <2>4. 1 \in 1 .. m /\ \A i \in 2 .. m : i \in 1 .. m /\ i # 1
    BY <1>1
  <2> QED BY <2>3, <2>4
<1> HIDE DEF m
<1> DEFINE at == [i \in 1 .. m + 1 |-> IF i = 1 THEN 0 ELSE Len(f[i - 1])]
           Upto(n) == /\ f[n] \in Seq(S)
                      /\ \A i \in 1 .. n : /\ at[i] \in Nat
                                           /\ at[i + 1] = at[i] + Len(seqs[i])
                                           /\ at[i + 1] <= Len(f[n])
                      /\ \A i \in 1 .. n, y \in Nat : y \in 1 .. Len(seqs[i]) => f[n][at[i] + y] = seqs[i][y]
                      /\ \A x \in 1 .. Len(f[n]) : \E i \in 1 .. n, y \in Nat :
                           y \in 1 .. Len(seqs[i]) /\ x = at[i] + y
<1>6. at[1] = 0 /\ \A i \in 1 .. m : at[i + 1] = Len(f[i])
  BY <1>1
<1> HIDE DEF at
<1>7. Upto(1)
  <2>1. \A y \in Nat : at[1] + y = y
    BY <1>6
  <2>2. at[2] = Len(seqs[1]) /\ f[1] = seqs[1] /\ f[1] \in Seq(S) /\ Len(f[1]) \in Nat
    BY <1>1, <1>5, <1>6
  <2>3. \A i \in 1 .. 1 : i = 1
    OBVIOUS
  <2>4. \A x \in 1 .. Len(f[1]) : x \in 1 .. Len(seqs[1]) /\ x = at[1] + x /\ x \in Nat
    BY <2>1, <2>2
  <2> QED BY <1>6, <2>1, <2>2, <2>3, <2>4
<1>8. ASSUME NEW n \in 1 .. m - 1, Upto(n)
      PROVE  Upto(n + 1)
  <2> DEFINE l == Len(seqs[n + 1])
  <2>1. n \in Nat /\ n + 1 \in 2 .. m /\ n + 1 \in 1 .. m /\ n \in 1 .. m /\ (n + 1) - 1 = n
    <3> HIDE DEF Upto
    <3> QED BY <1>1
  <2>a. f[n] \in Seq(S)
    BY <1>8
  <2>b. /\ \A i \in 1 .. n : /\ at[i] \in Nat
                            /\ at[i + 1] = at[i] + Len(seqs[i])
                            /\ at[i + 1] <= Len(f[n])
    BY <1>8
  <2>c. \A i \in 1 .. n, y \in Nat : y \in 1 .. Len(seqs[i]) => f[n][at[i] + y] = seqs[i][y]
    BY <1>8
  <2>d. \A x \in 1 .. Len(f[n]) : \E i \in 1 .. n, y \in Nat :
          y \in 1 .. Len(seqs[i]) /\ x = at[i] + y
    BY <1>8
  <2>e. f[n + 1] = f[(n + 1) - 1] \o seqs[n + 1]
    <3> HIDE DEF Upto
    <3> QED BY <2>1, <1>5
  <2> HIDE DEF Upto
  <2>2. f[n + 1] = f[n] \o seqs[n + 1] /\ f[n] \in Seq(S) /\ seqs[n + 1] \in Seq(S)
    BY <2>1, <2>a, <2>e, <1>1
  <2>3. /\ f[n + 1] \in Seq(S) /\ l \in Nat /\ Len(f[n]) \in Nat
        /\ Len(f[n + 1]) = Len(f[n]) + l
        /\ \A x \in 1 .. Len(f[n]) : f[n + 1][x] = f[n][x]
        /\ \A y \in Nat : y \in 1 .. l => f[n + 1][Len(f[n]) + y] = seqs[n + 1][y]
    <3>1. \A s, r \in Seq(S) :
             /\ s \o r \in Seq(S) /\ Len(s) \in Nat /\ Len(r) \in Nat
             /\ Len(s \o r) = Len(s) + Len(r)
             /\ \A x \in 1 .. Len(s) : (s \o r)[x] = s[x]
             /\ \A y \in Nat : y \in 1 .. Len(r) => (s \o r)[Len(s) + y] = r[y]
      BY Concatenated
    <3> DEFINE s == f[n]
               r == seqs[n + 1]
    <3>2. s \in Seq(S) /\ r \in Seq(S) /\ f[n + 1] = s \o r
      BY <2>2
    <3> HIDE DEF s, r
    <3>3. /\ s \o r \in Seq(S) /\ Len(s) \in Nat /\ Len(r) \in Nat
          /\ Len(s \o r) = Len(s) + Len(r)
          /\ \A x \in 1 .. Len(s) : (s \o r)[x] = s[x]
          /\ \A y \in Nat : y \in 1 .. Len(r) => (s \o r)[Len(s) + y] = r[y]
      BY <3>1, <3>2
    <3> QED BY <3>2, <3>3 DEF s, r
  <2>4. at[n + 1] = Len(f[n]) /\ at[n + 2] = Len(f[n + 1])
    BY <2>1, <1>6
  <2> HIDE DEF l
  <2>5. \A i \in 1 .. n + 1 : /\ at[i] \in Nat
                              /\ at[i + 1] = at[i] + Len(seqs[i])
                              /\ at[i + 1] <= Len(f[n + 1])
    <3> SUFFICES ASSUME NEW i \in 1 .. n + 1
                 PROVE  /\ at[i] \in Nat
                        /\ at[i + 1] = at[i] + Len(seqs[i])
                        /\ at[i + 1] <= Len(f[n + 1])
      OBVIOUS
    <3>1. CASE i = n + 1
      <4>1. i + 1 = n + 2
        BY <3>1, <2>1
      <4>2. at[i] = Len(f[n]) /\ at[i + 1] = Len(f[n + 1]) /\ Len(seqs[i]) = l
        BY <3>1, <4>1, <2>4 DEF l
      <4>3. Len(f[n + 1]) = Len(f[n]) + l /\ Len(f[n]) \in Nat /\ l \in Nat
        BY <2>3
      <4> HIDE DEF l
      <4> QED BY <4>2, <4>3
    <3>2. CASE i # n + 1
      <4>1. i \in 1 .. n /\ i \in 1 .. m
        BY <3>2, <2>1, <1>1
      <4>2. Len(seqs[i]) \in Nat /\ at[i + 1] <= Len(f[n]) /\ Len(f[n]) <= Len(f[n + 1])
        BY <4>1, <1>1, <2>b, <2>3
      <4>3. at[i] \in Nat /\ at[i + 1] = at[i] + Len(seqs[i])
        BY <4>1, <2>b
      <4> DEFINE a == at[i]
                 b == at[i + 1]
                 c == Len(seqs[i])
                 d == Len(f[n])
                 e == Len(f[n + 1])
      <4>4. a \in Nat /\ b = a + c /\ c \in Nat /\ b <= d /\ d <= e /\ d \in Nat /\ e \in Nat
        BY <4>2, <4>3, <2>3
      <4> HIDE DEF a, b, c, d, e
      <4>5. b <= e
        BY <4>4
      <4> QED BY <4>4, <4>5 DEF a, b, c, e
    <3> QED BY <3>1, <3>2
  <2>6. ASSUME NEW i \in 1 .. n + 1, NEW y \in Nat, y \in 1 .. Len(seqs[i])
        PROVE  f[n + 1][at[i] + y] = seqs[i][y]
    <3>1. CASE i = n + 1
      BY <3>1, <2>3, <2>4, <2>6 DEF l
    <3>2. CASE i # n + 1
      <4>1. i \in 1 .. n /\ i \in 1 .. m
        BY <3>2, <2>1, <1>1
      <4>2. Len(seqs[i]) \in Nat
        BY <4>1, <1>1
      <4>3. at[i] + y \in 1 .. Len(f[n])
        <5>1. at[i] \in Nat /\ at[i + 1] = at[i] + Len(seqs[i]) /\ at[i + 1] <= Len(f[n])
          BY <4>1, <2>b
        <5> DEFINE a == at[i]
                   b == at[i + 1]
                   c == Len(seqs[i])
                   d == Len(f[n])
        <5>2. a \in Nat /\ b = a + c /\ c \in Nat /\ b <= d /\ d \in Nat /\ y \in Nat /\ y \in 1 .. c
          BY <4>2, <5>1, <2>3, <2>6
        <5> HIDE DEF a, b, c, d
        <5>3. a + y \in 1 .. d
          BY <5>2
        <5> QED BY <5>3 DEF a, d
      <4> QED BY <4>1, <4>3, <2>3, <2>6, <2>c
    <3> QED BY <3>1, <3>2
  <2>7. ASSUME NEW x \in 1 .. Len(f[n + 1])
        PROVE  \E i \in 1 .. n + 1, y \in Nat : y \in 1 .. Len(seqs[i]) /\ x = at[i] + y
    <3>1. CASE x <= Len(f[n])
      <4>1. x \in 1 .. Len(f[n])
        BY <3>1, <2>3
      <4>2. PICK i \in 1 .. n, y \in Nat : y \in 1 .. Len(seqs[i]) /\ x = at[i] + y
        BY <4>1, <2>d
      <4>3. i \in 1 .. n + 1
        BY <2>1
      <4> QED BY <4>2, <4>3
    <3>2. CASE x > Len(f[n])
      <4> DEFINE y == x - Len(f[n])
      <4>1. y \in Nat /\ y \in 1 .. l /\ x = Len(f[n]) + y
        BY <3>2, <2>3
      <4>2. n + 1 \in 1 .. n + 1
        BY <2>1
      <4> HIDE DEF y
      <4> QED BY <4>1, <4>2, <2>4 DEF l
    <3> QED BY <3>1, <3>2, <2>3
  <2> QED BY <2>3, <2>5, <2>6, <2>7 DEF Upto
<1> DEFINE Bad == {n \in 1 .. m : ~Upto(n)}
<1>9. Bad = {}
  <2> SUFFICES ASSUME Bad # {}
               PROVE  FALSE
    OBVIOUS
  <2>1. Bad \subseteq Nat
    BY <1>1
  <2>2. PICK n \in Bad : \A x \in Bad : n <= x
    <3> HIDE DEF Bad
    <3> QED BY <2>1, NatLeast
  <2>3. n \in 1 .. m /\ ~Upto(n)
    BY <2>2
  <2> HIDE DEF Upto
  <2>4. n # 1
    BY <2>3, <1>7
  <2>5. n - 1 \in 1 .. m - 1 /\ n - 1 \in 1 .. m
    BY <2>3, <2>4, <1>1
  <2>6. n - 1 \notin Bad
    BY <2>2, <2>3
  <2>7. Upto(n - 1)
    BY <2>5, <2>6
  <2>8. Upto((n - 1) + 1)
    BY <2>5, <2>7, <1>8
  <2> QED BY <2>8, <2>3
<1>10. Upto(m)
  <2> HIDE DEF Upto
  <2> QED BY <1>1, <1>9
<1>11. at \in [1 .. m + 1 -> Nat]
  <2>1. \A i \in 1 .. m + 1 : at[i] \in Nat
    <3> SUFFICES ASSUME NEW i \in 1 .. m + 1
                 PROVE  at[i] \in Nat
      OBVIOUS
    <3>1. CASE i \in 1 .. m
      BY <3>1, <1>10
    <3>2. CASE i = m + 1
      <4>1. f[m] \in Seq(S) /\ m \in 1 .. m
        BY <1>1, <1>10
      <4> QED BY <3>2, <4>1, <1>6
    <3> QED BY <3>1, <3>2, <1>1
  <2> QED BY <2>1 DEF at
<1>12. at[m + 1] = Len(f[m])
  BY <1>1, <1>6
<1>13. Laid(f[m], seqs, at)
  BY <1>6, <1>10, <1>11, <1>12 DEF Laid, m
<1> QED BY <1>2, <1>10, <1>13

-----------------------------------------------------------------------------
(* What is asked of a tile, its accesses taken one by one.                  *)

Accesses == [op : {"load", "store"}, matrix : {"A", "B"}, row : Nat, col : Nat, tmp : 0 .. 7]

\* a is an access to an element of A, n x m, or of B, m x n, which alone is written.
Fits(a, m, n) ==
  /\ a.row < (IF a.matrix = "A" THEN n ELSE m)
  /\ a.col < (IF a.matrix = "A" THEN m ELSE n)
  /\ a.op = "store" => a.matrix = "B"

Stores(a, row, col) == a.op = "store" /\ a.row = row /\ a.col = col

Loads(a, t) == a.op = "load" /\ a.tmp = t

\* In a tile that begins at column j of A, an element of the upper right quarter
\* waits at a's place in B for the row of B that it belongs to.
Waits(a, j) == a.row < j + 4 /\ a.tmp >= 4

\* The element of A that a moves.
Moved(a, j, m) ==
  IF a.matrix = "A" THEN a.row * m + a.col
  ELSE IF Waits(a, j) THEN (a.col - 4) * m + (a.row + 4)
  ELSE a.col * m + a.row

\* T[q] is the access that T[p] takes its element from: the load that a store's
\* tmp was last used for, or the store before a load from B.
Fetches(T, q, p, j, m) ==
  /\ Loads(T[q], T[p].tmp) /\ Moved(T[q], j, m) = Moved(T[p], j, m)
  /\ \A r \in q + 1 .. p - 1 : ~Loads(T[r], T[p].tmp)

Leaves(T, q, p, j, m) ==
  /\ Stores(T[q], T[p].row, T[p].col) /\ Moved(T[q], j, m) = Moved(T[p], j, m)
  /\ \A r \in q + 1 .. p - 1 : ~Stores(T[r], T[p].row, T[p].col)

\* Every element stored and every element read back is the one it should be, and
\* what waits is written over in the end.
Sound(T, j, m, n) ==
  /\ T \in Seq(Accesses) /\ T # <<>>
  /\ \A p \in 1 .. Len(T) : Fits(T[p], m, n)
  /\ \A p \in 1 .. Len(T) : T[p].op = "store" => \E q \in 1 .. p - 1 : Fetches(T, q, p, j, m)
  /\ \A p \in 1 .. Len(T) :
       T[p].op = "load" /\ T[p].matrix = "B" => \E q \in 1 .. p - 1 : Leaves(T, q, p, j, m)
  /\ \A p \in 1 .. Len(T) : T[p].op = "store" /\ Waits(T[p], j) =>
       \E q \in p + 1 .. Len(T) : Stores(T[q], T[p].row, T[p].col)

\* T[s] is the last store to (row, col) among the first p accesses.
LastStore(T, s, p, row, col) ==
  Stores(T[s], row, col) /\ \A r \in s + 1 .. p : ~Stores(T[r], row, col)

\* After p accesses of T, tm in tmp0 to tmp7 and b in B: what was last loaded or
\* stored is still there, and the elements that T has not stored are right.
Carried(T, j, m, n, p, tm, b) ==
  /\ \A q \in 1 .. p : T[q].op = "load" /\ (\A r \in q + 1 .. p : ~Loads(T[r], T[q].tmp)) =>
       tm[T[q].tmp] = Moved(T[q], j, m)
  /\ \A s \in 1 .. p : LastStore(T, s, p, T[s].row, T[s].col) =>
       b[T[s].row * n + T[s].col] = Moved(T[s], j, m)
  /\ \A s \in 1 .. p : T[s].op = "store" => T[s].row * n + T[s].col \in DOMAIN b
  /\ \A row \in 0 .. m - 1, col \in 0 .. n - 1 : row * n + col \in DOMAIN b =>
       \/ b[row * n + col] = col * m + row
       \/ \E s \in 1 .. p : LastStore(T, s, p, row, col)

\* Two elements have two indices.
LEMMA Injective ==
  ASSUME NEW n \in Nat, NEW r1 \in Nat, NEW r2 \in Nat, NEW c1 \in 0 .. n - 1, NEW c2 \in 0 .. n - 1,
         r1 * n + c1 = r2 * n + c2
  PROVE  r1 = r2 /\ c1 = c2
<1>1. ASSUME NEW x \in Nat, NEW y \in Nat, x < y
      PROVE  x * n + n <= y * n
  <2>1. PICK d \in Nat : y = x + 1 + d
    <3>1. y - x - 1 \in Nat /\ y = x + 1 + (y - x - 1)
      BY <1>1
    <3> QED BY <3>1
  <2>2. y * n = x * n + n + d * n
    BY <2>1
  <2>3. d * n \in Nat /\ x * n \in Nat /\ y * n \in Nat
    OBVIOUS
  <2> QED BY <2>2, <2>3
<1>2. r1 * n \in Nat /\ r2 * n \in Nat
  OBVIOUS
<1>3. ~(r1 < r2)
  <2>1. r1 < r2 => r1 * n + n <= r2 * n
    BY <1>1
  <2> QED BY <2>1, <1>2
<1>4. ~(r2 < r1)
  <2>1. r2 < r1 => r2 * n + n <= r1 * n
    BY <1>1
  <2> QED BY <2>1, <1>2
<1>5. r1 = r2
  BY <1>3, <1>4
<1> QED BY <1>5, <1>2

\* The numbers up to p, and up to the one before it.
LEMMA UpTo ==
  ASSUME NEW p \in Nat
  PROVE  /\ \A q \in 1 .. p : q # p => q \in 1 .. p - 1
         /\ \A q \in 1 .. p - 1 : q \in 1 .. p /\ q \in Nat /\ p \in q + 1 .. p
         /\ \A q \in 1 .. p - 1 : \A r \in q + 1 .. p - 1 : r \in q + 1 .. p
<1>1. \A q \in 1 .. p : q # p => q \in 1 .. p - 1
  OBVIOUS
<1>2. \A q \in 1 .. p - 1 : q \in 1 .. p /\ q \in Nat /\ p \in q + 1 .. p
  OBVIOUS
<1>3. \A q \in 1 .. p - 1 : \A r \in q + 1 .. p - 1 : r \in q + 1 .. p
  OBVIOUS
<1> QED BY <1>1, <1>2, <1>3

\* One load.
LEMMA LoadCarries ==
  ASSUME NEW m \in Nat, NEW n \in Nat, NEW j \in Nat, NEW T, Sound(T, j, m, n),
         NEW p \in 1 .. Len(T), T[p].op = "load",
         NEW tm, DOMAIN tm = 0 .. 7, NEW b, Carried(T, j, m, n, p - 1, tm, b),
         NEW new, new = [tm EXCEPT ![T[p].tmp] =
                           IF T[p].matrix = "A" THEN T[p].row * m + T[p].col
                                                ELSE b[T[p].row * n + T[p].col]]
  PROVE  Carried(T, j, m, n, p, new, b) /\ DOMAIN new = 0 .. 7
<1>1. /\ p \in Nat /\ T[p] \in Accesses /\ T[p].tmp \in 0 .. 7 /\ T[p].matrix \in {"A", "B"}
      /\ \A q \in 1 .. p : q # p => q \in 1 .. p - 1
      /\ \A q \in 1 .. p - 1 : q \in 1 .. p /\ q \in Nat /\ p \in q + 1 .. p
      /\ \A q \in 1 .. p - 1 : \A r \in q + 1 .. p - 1 : r \in q + 1 .. p
      /\ \A q \in 1 .. p : T[q] \in Accesses /\ T[q].tmp \in 0 .. 7
  <2>1. T \in Seq(Accesses) /\ Len(T) \in Nat
    BY DEF Sound
  <2>2. p \in Nat /\ p <= Len(T)
    BY <2>1
  <2>3. \A q \in 1 .. p : q \in 1 .. Len(T) /\ T[q] \in Accesses
    BY <2>1, <2>2
  <2>4. \A q \in 1 .. p : T[q].tmp \in 0 .. 7 /\ T[q].matrix \in {"A", "B"}
    BY <2>3 DEF Accesses
  <2>5. p \in 1 .. p
    BY <2>2
  <2>6. p \in Nat /\ T[p] \in Accesses /\ T[p].tmp \in 0 .. 7 /\ T[p].matrix \in {"A", "B"}
    BY <2>2, <2>3, <2>4, <2>5, Zenon
  <2>7. \A q \in 1 .. p : T[q] \in Accesses /\ T[q].tmp \in 0 .. 7
    BY <2>3, <2>4, Zenon
  <2> QED BY <2>6, <2>7, UpTo, Zenon
<1>2. /\ DOMAIN new = 0 .. 7
      /\ \A t \in 0 .. 7 : t # T[p].tmp => new[t] = tm[t]
      /\ new[T[p].tmp] = IF T[p].matrix = "A" THEN T[p].row * m + T[p].col
                                              ELSE b[T[p].row * n + T[p].col]
  BY <1>1
<1>3. ASSUME NEW q \in 1 .. p, T[q].op = "load", \A r \in q + 1 .. p : ~Loads(T[r], T[q].tmp)
      PROVE  new[T[q].tmp] = Moved(T[q], j, m)
  <2>1. CASE q # p
    <3>1. q \in 1 .. p - 1 /\ p \in q + 1 .. p
      BY <1>1, <2>1
    <3>2. T[q].tmp # T[p].tmp
      BY <3>1, <1>3 DEF Loads
    <3>3. \A r \in q + 1 .. p - 1 : ~Loads(T[r], T[q].tmp)
      BY <3>1, <1>1, <1>3
    <3>4. tm[T[q].tmp] = Moved(T[q], j, m)
      BY <3>1, <3>3, <1>3 DEF Carried
    <3> QED BY <3>2, <3>4, <1>1, <1>2
  <2>2. CASE q = p /\ T[p].matrix = "A"
    BY <2>2, <1>2 DEF Moved
  <2>3. CASE q = p /\ T[p].matrix = "B"
    <3>1. PICK s \in 1 .. p - 1 : Leaves(T, s, p, j, m)
      BY <2>3 DEF Sound
    <3>2. LastStore(T, s, p - 1, T[s].row, T[s].col)
      BY <3>1 DEF Leaves, LastStore, Stores
    <3>3. b[T[s].row * n + T[s].col] = Moved(T[s], j, m)
      BY <3>2 DEF Carried
    <3>4. T[s].row = T[p].row /\ T[s].col = T[p].col /\ Moved(T[s], j, m) = Moved(T[p], j, m)
      BY <3>1 DEF Leaves, Stores
    <3>5. new[T[p].tmp] = b[T[p].row * n + T[p].col]
      BY <2>3, <1>2
    <3> QED BY <3>3, <3>4, <3>5, <2>3
  <2> QED BY <1>1, <2>1, <2>2, <2>3
<1>4. \A s \in 1 .. p : T[s].op = "store" => s \in 1 .. p - 1
  BY <1>1
<1>5. \A s \in 1 .. p - 1 : \A row, col : LastStore(T, s, p - 1, row, col) <=> LastStore(T, s, p, row, col)
  <2> SUFFICES ASSUME NEW s \in 1 .. p - 1, NEW row, NEW col
               PROVE  LastStore(T, s, p - 1, row, col) <=> LastStore(T, s, p, row, col)
    OBVIOUS
  <2>1. \A r \in s + 1 .. p : r = p \/ r \in s + 1 .. p - 1
    BY <1>1
  <2>2. ~Stores(T[p], row, col)
    BY DEF Stores
  <2> QED BY <2>1, <2>2, <1>1 DEF LastStore
<1>6. ASSUME NEW s \in 1 .. p, LastStore(T, s, p, T[s].row, T[s].col)
      PROVE  b[T[s].row * n + T[s].col] = Moved(T[s], j, m)
  <2>1. s \in 1 .. p - 1
    BY <1>4, <1>6 DEF LastStore, Stores
  <2> QED BY <2>1, <1>5, <1>6 DEF Carried
<1>7. ASSUME NEW row \in 0 .. m - 1, NEW col \in 0 .. n - 1, row * n + col \in DOMAIN b,
             b[row * n + col] # col * m + row
      PROVE  \E s \in 1 .. p : LastStore(T, s, p, row, col)
  <2>1. PICK s \in 1 .. p - 1 : LastStore(T, s, p - 1, row, col)
    BY <1>7 DEF Carried
  <2> QED BY <2>1, <1>1, <1>5
<1>8. \A s \in 1 .. p : T[s].op = "store" => T[s].row * n + T[s].col \in DOMAIN b
  BY <1>4 DEF Carried
<1> QED BY <1>2, <1>3, <1>6, <1>7, <1>8 DEF Carried

\* One store.
LEMMA StoreCarries ==
  ASSUME NEW m \in Nat, NEW n \in Nat, NEW j \in Nat, NEW T, Sound(T, j, m, n),
         NEW p \in 1 .. Len(T), T[p].op = "store",
         NEW tm, NEW b, Carried(T, j, m, n, p - 1, tm, b),
         NEW new, new = [y \in DOMAIN b \cup {T[p].row * n + T[p].col} |->
                             IF y = T[p].row * n + T[p].col THEN tm[T[p].tmp] ELSE b[y]]
  PROVE  Carried(T, j, m, n, p, tm, new) /\ DOMAIN b \subseteq DOMAIN new
<1>1. /\ p \in Nat
      /\ \A q \in 1 .. p : q # p => q \in 1 .. p - 1
      /\ \A q \in 1 .. p - 1 : q \in 1 .. p /\ q \in Nat /\ p \in q + 1 .. p
      /\ \A q \in 1 .. p - 1 : \A r \in q + 1 .. p - 1 : r \in q + 1 .. p
      /\ \A q \in 1 .. p : T[q] \in Accesses /\ T[q].row \in Nat /\ T[q].col \in Nat
      /\ \A q \in 1 .. p : T[q].op = "store" => T[q].matrix = "B" /\ T[q].row < m /\ T[q].col < n
      /\ p \in 1 .. p
  <2>1. T \in Seq(Accesses) /\ Len(T) \in Nat
    BY DEF Sound
  <2>2. p \in Nat /\ p <= Len(T)
    BY <2>1
  <2>3. \A q \in 1 .. p : q \in 1 .. Len(T) /\ T[q] \in Accesses /\ Fits(T[q], m, n)
    BY <2>1, <2>2 DEF Sound
  <2>4. \A q \in 1 .. p : T[q].row \in Nat /\ T[q].col \in Nat
    BY <2>3 DEF Accesses
  <2>5. \A q \in 1 .. p : T[q].op = "store" => T[q].matrix = "B" /\ T[q].row < m /\ T[q].col < n
    BY <2>3 DEF Fits
  <2>6. p \in 1 .. p /\ p \in Nat
    BY <2>2
  <2>7. \A q \in 1 .. p : T[q] \in Accesses /\ T[q].row \in Nat /\ T[q].col \in Nat
    BY <2>3, <2>4, Zenon
  <2> QED BY <2>5, <2>6, <2>7, UpTo, Zenon
<1> DEFINE x == T[p].row * n + T[p].col
<1>2. /\ x \in DOMAIN new /\ new[x] = tm[T[p].tmp]
      /\ \A y \in DOMAIN b : y \in DOMAIN new
      /\ \A y \in DOMAIN new : y # x => y \in DOMAIN b /\ new[y] = b[y]
  <2> HIDE DEF x
  <2>1. new = [y \in DOMAIN b \cup {x} |-> IF y = x THEN tm[T[p].tmp] ELSE b[y]]
    BY DEF x
  <2> QED BY <2>1
<1>3. \A row \in 0 .. m - 1, col \in 0 .. n - 1 : row * n + col = x => Stores(T[p], row, col)
  <2> SUFFICES ASSUME NEW row \in 0 .. m - 1, NEW col \in 0 .. n - 1, row * n + col = x
               PROVE  Stores(T[p], row, col)
    OBVIOUS
  <2>1. T[p].row \in Nat /\ T[p].col \in 0 .. n - 1 /\ row \in Nat
    BY <1>1
  <2>2. row * n + col = T[p].row * n + T[p].col
    BY DEF x
  <2>3. row = T[p].row /\ col = T[p].col
    <3> DEFINE r == T[p].row
               c == T[p].col
    <3>1. r \in Nat /\ c \in 0 .. n - 1 /\ row \in Nat /\ row * n + col = r * n + c
      BY <2>1, <2>2
    <3> HIDE DEF r, c, x
    <3>2. \A r1 \in Nat, r2 \in Nat, c1 \in 0 .. n - 1, c2 \in 0 .. n - 1 :
            r1 * n + c1 = r2 * n + c2 => r1 = r2 /\ c1 = c2
      BY Injective
    <3>3. row = r /\ col = c
      BY <3>1, <3>2
    <3> QED BY <3>3 DEF r, c
  <2> QED BY <2>3 DEF Stores
<1> HIDE DEF x
<1>4. ASSUME NEW q \in 1 .. p, T[q].op = "load", \A r \in q + 1 .. p : ~Loads(T[r], T[q].tmp)
      PROVE  tm[T[q].tmp] = Moved(T[q], j, m)
  <2>1. q \in 1 .. p - 1
    BY <1>1, <1>4
  <2>2. \A r \in q + 1 .. p - 1 : ~Loads(T[r], T[q].tmp)
    BY <2>1, <1>1, <1>4
  <2> QED BY <2>1, <2>2, <1>4 DEF Carried
<1>5. ASSUME NEW s \in 1 .. p, LastStore(T, s, p, T[s].row, T[s].col)
      PROVE  new[T[s].row * n + T[s].col] = Moved(T[s], j, m)
  <2>1. CASE s = p
    <3>1. PICK q \in 1 .. p - 1 : Fetches(T, q, p, j, m)
      BY DEF Sound
    <3>2. /\ T[q].op = "load" /\ T[q].tmp = T[p].tmp /\ Moved(T[q], j, m) = Moved(T[p], j, m)
          /\ \A r \in q + 1 .. p - 1 : ~Loads(T[r], T[q].tmp)
      BY <3>1 DEF Fetches, Loads
    <3>3. tm[T[p].tmp] = Moved(T[p], j, m)
      BY <3>2 DEF Carried
    <3> QED BY <2>1, <3>3, <1>2 DEF x
  <2>2. CASE s # p
    <3>1. s \in 1 .. p - 1 /\ p \in s + 1 .. p
      BY <1>1, <2>2
    <3>2. ~Stores(T[p], T[s].row, T[s].col) /\ T[s].op = "store"
      BY <3>1, <1>5 DEF LastStore, Stores
    <3>3. T[s].row \in 0 .. m - 1 /\ T[s].col \in 0 .. n - 1
      BY <3>2, <1>1
    <3>4. T[s].row * n + T[s].col # x
      BY <3>2, <3>3, <1>3
    <3>5. LastStore(T, s, p - 1, T[s].row, T[s].col)
      BY <3>1, <1>1, <1>5 DEF LastStore
    <3>6. /\ b[T[s].row * n + T[s].col] = Moved(T[s], j, m)
          /\ T[s].row * n + T[s].col \in DOMAIN b
      BY <3>1, <3>2, <3>5 DEF Carried
    <3> QED BY <3>4, <3>6, <1>2
  <2> QED BY <2>1, <2>2
<1>6. ASSUME NEW s \in 1 .. p, T[s].op = "store"
      PROVE  T[s].row * n + T[s].col \in DOMAIN new
  <2>1. CASE s = p
    BY <2>1, <1>2 DEF x
  <2>2. CASE s # p
    <3>1. s \in 1 .. p - 1
      BY <1>1, <2>2
    <3>2. T[s].row * n + T[s].col \in DOMAIN b
      BY <3>1, <1>6 DEF Carried
    <3> QED BY <3>2, <1>2
  <2> QED BY <2>1, <2>2
<1>7. ASSUME NEW row \in 0 .. m - 1, NEW col \in 0 .. n - 1, row * n + col \in DOMAIN new,
             new[row * n + col] # col * m + row
      PROVE  \E s \in 1 .. p : LastStore(T, s, p, row, col)
  <2>1. CASE Stores(T[p], row, col)
    <3>1. \A r \in p + 1 .. p : FALSE
      BY <1>1
    <3>2. LastStore(T, p, p, row, col)
      BY <2>1, <3>1 DEF LastStore
    <3> QED BY <3>2, <1>1
  <2>2. CASE ~Stores(T[p], row, col)
    <3>1. row * n + col \in DOMAIN b /\ new[row * n + col] = b[row * n + col]
      BY <2>2, <1>2, <1>3, <1>7
    <3>2. PICK s \in 1 .. p - 1 : LastStore(T, s, p - 1, row, col)
      BY <3>1, <1>7 DEF Carried
    <3>3. \A r \in s + 1 .. p : r = p \/ r \in s + 1 .. p - 1
      BY <1>1
    <3>4. LastStore(T, s, p, row, col)
      BY <3>2, <3>3, <2>2 DEF LastStore
    <3> QED BY <3>2, <3>4, <1>1
  <2> QED BY <2>1, <2>2
<1>8. DOMAIN b \subseteq DOMAIN new
  BY <1>2
<1> QED BY <1>4, <1>5, <1>6, <1>7, <1>8 DEF Carried

\* Whatever is in b is right.
AllRight(m, n, b) ==
  \A row \in 0 .. m - 1, col \in 0 .. n - 1 :
    row * n + col \in DOMAIN b => b[row * n + col] = col * m + row

\* The end of a tile.
LEMMA TileCarries ==
  ASSUME NEW m \in Nat, NEW n \in Nat, NEW j \in Nat, NEW T, Sound(T, j, m, n),
         NEW tm, NEW b, Carried(T, j, m, n, Len(T), tm, b)
  PROVE  AllRight(m, n, b)
<1> SUFFICES ASSUME NEW row \in 0 .. m - 1, NEW col \in 0 .. n - 1, row * n + col \in DOMAIN b
             PROVE  b[row * n + col] = col * m + row
  BY DEF AllRight
<1> SUFFICES ASSUME NEW s \in 1 .. Len(T), LastStore(T, s, Len(T), row, col)
             PROVE  b[row * n + col] = col * m + row
  BY DEF Carried
<1>1. T[s].row = row /\ T[s].col = col /\ T[s].op = "store"
  BY DEF LastStore, Stores
<1>2. b[row * n + col] = Moved(T[s], j, m)
  BY <1>1 DEF Carried
<1>3. ~Waits(T[s], j)
  BY <1>1 DEF Sound, LastStore
<1>4. T[s].matrix = "B"
  BY <1>1 DEF Sound, Fits
<1> QED BY <1>1, <1>2, <1>3, <1>4 DEF Moved

-----------------------------------------------------------------------------
(* Tiles that load up to eight elements and store them.                     *)

\* Sequences of one length L, laid out one after the other.
Evenly(flat, seqs, L) ==
  /\ Len(flat) = Len(seqs) * L
  /\ \A q \in 0 .. Len(seqs) - 1, y \in 1 .. L : flat[q * L + y] = seqs[q + 1][y]
  /\ \A x \in 1 .. Len(flat) : \E q \in 0 .. Len(seqs) - 1, y \in 1 .. L : x = q * L + y

\* FlattenSeq lays sequences of one length out at its multiples.
LEMMA LaidEvenly ==
  ASSUME NEW S, NEW seqs \in Seq(Seq(S)), seqs # <<>>, NEW L \in Nat \ {0},
         \A i \in 1 .. Len(seqs) : Len(seqs[i]) = L
  PROVE  FlattenSeq(seqs) \in Seq(S) /\ Evenly(FlattenSeq(seqs), seqs, L)
<1> DEFINE flat == FlattenSeq(seqs)
           k == Len(seqs)
<1>1. flat \in Seq(S) /\ k \in Nat /\ k > 0
  BY Flattened
<1>2. PICK at : Laid(flat, seqs, at)
  BY Flattened
<1>3. \A i \in 1 .. k : Len(seqs[i]) = L
  OBVIOUS
<1> HIDE DEF flat, k
<1>4. /\ at[1] = 0 /\ at[k + 1] = Len(flat)
      /\ \A i \in 1 .. k : at[i] \in Nat /\ at[i + 1] = at[i] + L
      /\ \A i \in 1 .. k, y \in 1 .. L : flat[at[i] + y] = seqs[i][y]
      /\ \A x \in 1 .. Len(flat) : \E i \in 1 .. k, y \in 1 .. L : x = at[i] + y
  <2>1. /\ at[1] = 0 /\ at[k + 1] = Len(flat) /\ at \in [1 .. k + 1 -> Nat]
        /\ \A i \in 1 .. k : at[i + 1] = at[i] + Len(seqs[i])
        /\ \A i \in 1 .. k, y \in Nat : y \in 1 .. Len(seqs[i]) => flat[at[i] + y] = seqs[i][y]
        /\ \A x \in 1 .. Len(flat) : \E i \in 1 .. k, y \in Nat :
             y \in 1 .. Len(seqs[i]) /\ x = at[i] + y
    BY <1>2 DEF Laid, k
  <2>2. \A i \in 1 .. k : i \in 1 .. k + 1
    BY <1>1
  <2>3. \A y \in 1 .. L : y \in Nat
    OBVIOUS
  <2>4. ASSUME NEW x \in 1 .. Len(flat)
        PROVE  \E i \in 1 .. k, y \in 1 .. L : x = at[i] + y
    <3>1. PICK i \in 1 .. k, y \in Nat : y \in 1 .. Len(seqs[i]) /\ x = at[i] + y
      BY <2>1
    <3>2. y \in 1 .. L
      BY <3>1, <1>3
    <3> QED BY <3>1, <3>2
  <2>5. \A i \in 1 .. k, y \in 1 .. L : flat[at[i] + y] = seqs[i][y]
    BY <2>1, <2>3, <1>3
  <2>6. \A i \in 1 .. k : at[i] \in Nat /\ at[i + 1] = at[i] + L
    BY <2>1, <2>2, <1>3
  <2> QED BY <2>1, <2>4, <2>5, <2>6
<1> DEFINE Bad == {i \in 1 .. k + 1 : at[i] # (i - 1) * L}
<1>5. Bad = {}
  <2> SUFFICES ASSUME Bad # {}
               PROVE  FALSE
    OBVIOUS
  <2>1. Bad \subseteq Nat
    BY <1>1
  <2>2. PICK i \in Bad : \A x \in Bad : i <= x
    <3> HIDE DEF Bad
    <3> QED BY <2>1, NatLeast
  <2>3. i \in 1 .. k + 1 /\ at[i] # (i - 1) * L
    BY <2>2
  <2>4. CASE i = 1
    BY <2>3, <2>4, <1>4
  <2>5. CASE i # 1
    <3>1. i - 1 \in 1 .. k /\ i - 1 \notin Bad /\ i - 1 \in 1 .. k + 1 /\ i \in Nat
      BY <2>2, <2>3, <2>5, <1>1
    <3> DEFINE d == i - 2
    <3>2. d \in Nat /\ at[i - 1] = d * L /\ at[(i - 1) + 1] = at[i - 1] + L
      BY <3>1, <2>5, <2>3, <1>4
    <3>3. (i - 1) + 1 = i /\ (i - 1) * L = d * L + L
      BY <3>1
    <3> QED BY <3>2, <3>3, <2>3
  <2> QED BY <2>4, <2>5
<1>6. \A i \in 1 .. k + 1 : at[i] = (i - 1) * L
  BY <1>5
<1> HIDE DEF Bad
<1>7. Len(flat) = k * L
  <2>1. k + 1 \in 1 .. k + 1 /\ (k + 1) - 1 = k
    BY <1>1
  <2> QED BY <2>1, <1>4, <1>6
<1>8. ASSUME NEW q \in 0 .. k - 1, NEW y \in 1 .. L
      PROVE  flat[q * L + y] = seqs[q + 1][y]
  <2>1. q + 1 \in 1 .. k /\ q + 1 \in 1 .. k + 1 /\ (q + 1) - 1 = q
    BY <1>1
  <2>2. at[q + 1] = q * L
    BY <2>1, <1>6
  <2> QED BY <2>1, <2>2, <1>4
<1>9. ASSUME NEW x \in 1 .. Len(flat)
      PROVE  \E q \in 0 .. k - 1, y \in 1 .. L : x = q * L + y
  <2>1. PICK i \in 1 .. k, y \in 1 .. L : x = at[i] + y
    BY <1>4
  <2>2. i - 1 \in 0 .. k - 1 /\ i \in 1 .. k + 1
    BY <1>1
  <2>3. x = (i - 1) * L + y
    BY <2>1, <2>2, <1>6
  <2> QED BY <2>2, <2>3
<1> QED BY <1>1, <1>7, <1>8, <1>9 DEF Evenly, flat, k

\* T loads w elements, stores them, and does so h times.
Copies(T, h, w, j, m, n) ==
  /\ T \in Seq(Accesses) /\ h \in Nat \ {0} /\ w \in 1 .. 8
  /\ Len(T) = h * (2 * w)
  /\ \A q \in 0 .. h - 1, t \in 0 .. w - 1 : \E row \in 0 .. n - 1, col \in 0 .. m - 1 :
       /\ T[q * (2 * w) + (t + 1)] = ReadA(row, col, t)
       /\ T[q * (2 * w) + (w + t + 1)] = WriteB(col, row, t)
       /\ t >= 4 => col >= j + 4
  /\ \A x \in 1 .. Len(T) : \E q \in 0 .. h - 1, y \in 1 .. 2 * w : x = q * (2 * w) + y

\* Loading elements into temporaries of their own and storing them is sound.
LEMMA CopiesSound ==
  ASSUME NEW T, NEW h, NEW w, NEW j \in Nat, NEW m \in Nat, NEW n \in Nat, Copies(T, h, w, j, m, n)
  PROVE  Sound(T, j, m, n)
<1>1. /\ T \in Seq(Accesses) /\ h \in Nat /\ h >= 1 /\ w \in 1 .. 8 /\ Len(T) = h * (2 * w)
  BY DEF Copies
<1>2. T # <<>>
  <2>1. Len(T) >= 1
    BY <1>1
  <2> QED BY <2>1
<1>3. ASSUME NEW q \in 0 .. h - 1
      PROVE  q * (2 * w) \in Nat
  BY <1>1
<1>4. ASSUME NEW x \in 1 .. Len(T)
      PROVE  \E q \in 0 .. h - 1, t \in 0 .. w - 1 :
               x = q * (2 * w) + (t + 1) \/ x = q * (2 * w) + (w + t + 1)
  <2>1. PICK q \in 0 .. h - 1, y \in 1 .. 2 * w : x = q * (2 * w) + y
    BY DEF Copies
  <2>2. CASE y <= w
    <3>1. y - 1 \in 0 .. w - 1 /\ y = (y - 1) + 1
      BY <2>2, <1>1
    <3> QED BY <2>1, <3>1
  <2>3. CASE y > w
    <3>1. y - w - 1 \in 0 .. w - 1 /\ y = w + (y - w - 1) + 1
      BY <2>3, <1>1
    <3> QED BY <2>1, <3>1
  <2> QED BY <2>2, <2>3, <1>1
<1>5. ASSUME NEW x \in 1 .. Len(T)
      PROVE  /\ Fits(T[x], m, n) /\ ~(T[x].op = "load" /\ T[x].matrix = "B")
             /\ T[x].op = "store" => ~Waits(T[x], j) /\ \E q \in 1 .. x - 1 : Fetches(T, q, x, j, m)
  <2>1. PICK q \in 0 .. h - 1, t \in 0 .. w - 1 :
               x = q * (2 * w) + (t + 1) \/ x = q * (2 * w) + (w + t + 1)
    BY <1>4
  <2>2. PICK row \in 0 .. n - 1, col \in 0 .. m - 1 :
          /\ T[q * (2 * w) + (t + 1)] = ReadA(row, col, t)
          /\ T[q * (2 * w) + (w + t + 1)] = WriteB(col, row, t)
          /\ t >= 4 => col >= j + 4
    BY DEF Copies
  <2>3. row \in Nat /\ col \in Nat /\ row < n /\ col < m /\ t \in Nat
    BY <1>1
  <2>4. CASE x = q * (2 * w) + (t + 1)
    BY <2>2, <2>3, <2>4 DEF Fits, ReadA
  <2>5. CASE x = q * (2 * w) + (w + t + 1)
    <3>1. /\ T[x].op = "store" /\ T[x].matrix = "B" /\ T[x].row = col /\ T[x].col = row /\ T[x].tmp = t
      <4>1. T[x] = WriteB(col, row, t)
        BY <2>2, <2>5
      <4> QED BY <4>1 DEF WriteB
    <3>2. ~Waits(T[x], j)
      BY <3>1, <2>2, <2>3 DEF Waits
    <3> DEFINE base == q * (2 * w)
               s == base + (t + 1)
    <3>3. base \in Nat
      BY <1>3
    <3>4. T[s].op = "load" /\ T[s].matrix = "A" /\ T[s].row = row /\ T[s].col = col /\ T[s].tmp = t
      BY <2>2 DEF ReadA
    <3>5. ASSUME NEW u \in 0 .. w - 1
          PROVE  /\ Loads(T[base + (u + 1)], t) => u = t
                 /\ ~Loads(T[base + (w + u + 1)], t)
      <4>1. PICK row2 \in 0 .. n - 1, col2 \in 0 .. m - 1 :
              /\ T[base + (u + 1)] = ReadA(row2, col2, u)
              /\ T[base + (w + u + 1)] = WriteB(col2, row2, u)
        BY DEF Copies
      <4> HIDE DEF base
      <4> QED BY <4>1 DEF Loads, ReadA, WriteB
    <3> HIDE DEF base
    <3>6. x = base + (w + t + 1)
      BY <2>5 DEF base
    <3>7. s \in 1 .. x - 1
      BY <3>3, <3>6, <2>3, <1>1
    <3>8. ASSUME NEW r \in s + 1 .. x - 1
          PROVE  ~Loads(T[r], t)
      <4>1. CASE r <= base + w
        <5> DEFINE u == r - base - 1
        <5>1. u \in 0 .. w - 1 /\ u # t /\ r = base + (u + 1)
          BY <4>1, <3>3, <3>6, <2>3, <1>1
        <5> QED BY <5>1, <3>5
      <4>2. CASE r > base + w
        <5> DEFINE u == r - base - w - 1
        <5>1. u \in 0 .. w - 1 /\ r = base + (w + u + 1)
          BY <4>2, <3>3, <3>6, <2>3, <1>1
        <5> QED BY <5>1, <3>5
      <4> QED BY <4>1, <4>2, <3>3, <3>6, <2>3, <1>1
    <3>9. Moved(T[s], j, m) = Moved(T[x], j, m)
      BY <3>1, <3>2, <3>4 DEF Moved
    <3>10. Fetches(T, s, x, j, m)
      BY <3>1, <3>4, <3>8, <3>9 DEF Fetches, Loads
    <3> HIDE DEF s
    <3>11. Fits(T[x], m, n)
      BY <3>1, <2>3 DEF Fits
    <3> QED BY <3>1, <3>2, <3>7, <3>10, <3>11
  <2> QED BY <2>1, <2>4, <2>5
<1> QED BY <1>1, <1>2, <1>5 DEF Sound

\* A row of A that becomes a column of B.
LEMMA RowToColumnIs ==
  \A k \in Nat, j \in Nat, w \in 1 .. 8 :
    /\ RowToColumn(k, j, w) \in Seq(Accesses)
    /\ Len(RowToColumn(k, j, w)) = 2 * w
    /\ \A t \in 0 .. w - 1 : /\ RowToColumn(k, j, w)[t + 1] = ReadA(k, j + t, t)
                             /\ RowToColumn(k, j, w)[w + t + 1] = WriteB(j + t, k, t)
<1> SUFFICES ASSUME NEW k \in Nat, NEW j \in Nat, NEW w \in 1 .. 8
             PROVE  /\ RowToColumn(k, j, w) \in Seq(Accesses)
                    /\ Len(RowToColumn(k, j, w)) = 2 * w
                    /\ \A t \in 0 .. w - 1 :
                         /\ RowToColumn(k, j, w)[t + 1] = ReadA(k, j + t, t)
                         /\ RowToColumn(k, j, w)[w + t + 1] = WriteB(j + t, k, t)
  OBVIOUS
<1> DEFINE s == [t \in 1 .. w |-> ReadA(k, j + (t - 1), t - 1)]
           r == [t \in 1 .. w |-> WriteB(j + (t - 1), k, t - 1)]
<1>1. RowToColumn(k, j, w) = s \o r
  BY DEF RowToColumn, Each
<1>2. \A t \in 1 .. w : ReadA(k, j + (t - 1), t - 1) \in Accesses
  BY DEF ReadA, Accesses
<1>3. \A t \in 1 .. w : WriteB(j + (t - 1), k, t - 1) \in Accesses
  BY DEF WriteB, Accesses
<1>4. s \in Seq(Accesses) /\ r \in Seq(Accesses) /\ Len(s) = w /\ Len(r) = w
  BY <1>2, <1>3
<1>5. ASSUME NEW t \in 0 .. w - 1
      PROVE  /\ t + 1 \in 1 .. w /\ t + 1 \in Nat /\ s[t + 1] = ReadA(k, j + t, t)
             /\ r[t + 1] = WriteB(j + t, k, t) /\ w + t + 1 = w + (t + 1)
  <2>1. t + 1 \in 1 .. w /\ (t + 1) - 1 = t
    OBVIOUS
  <2> QED BY <2>1
<1> HIDE DEF s, r
<1>6. /\ s \o r \in Seq(Accesses) /\ Len(s \o r) = 2 * w
      /\ \A x \in 1 .. w : (s \o r)[x] = s[x]
      /\ \A y \in Nat : y \in 1 .. w => (s \o r)[w + y] = r[y]
  BY <1>4, Concatenated
<1> QED BY <1>1, <1>5, <1>6

\* The stores of T make rows i, i + 1, ... of A columns of B.
Turns(T, i, j, h, w) ==
  \A q \in 0 .. h - 1, t \in 0 .. w - 1 : T[q * (2 * w) + (w + t + 1)] = WriteB(j + t, i + q, t)

\* The rows from i to before e.
LEMMA RowsCopy ==
  ASSUME NEW m \in Nat, NEW n \in Nat, NEW i \in Nat, NEW e \in Nat, NEW j \in Nat, NEW w \in 1 .. 8,
         i < e, e <= n, j + w <= m
  PROVE  LET T == For(i, 1, e, LAMBDA k : RowToColumn(k, j, w))
         IN  Copies(T, e - i, w, j, m, n) /\ Turns(T, i, j, e - i, w)
<1> DEFINE T == For(i, 1, e, LAMBDA k : RowToColumn(k, j, w))
           h == e - i
           seqs == [x \in 1 .. h |-> RowToColumn(i + (x - 1) * 1, j, w)]
<1>1. h \in Nat \ {0} /\ (e - i + 1 - 1) \div 1 = h
  OBVIOUS
<1>2. T = FlattenSeq(seqs)
  BY <1>1 DEF For
<1>3. ASSUME NEW x \in 1 .. h
      PROVE  /\ i + (x - 1) * 1 = i + (x - 1) /\ i + (x - 1) \in Nat
             /\ seqs[x] = RowToColumn(i + (x - 1), j, w)
  BY <1>1
<1>4. seqs \in Seq(Seq(Accesses)) /\ Len(seqs) = h /\ seqs # <<>>
  <2>1. \A x \in 1 .. h : RowToColumn(i + (x - 1) * 1, j, w) \in Seq(Accesses)
    BY <1>3, RowToColumnIs
  <2> QED BY <2>1, <1>1
<1>5. ASSUME NEW x \in 1 .. Len(seqs)
      PROVE  Len(seqs[x]) = 2 * w
  <2>1. x \in 1 .. h
    BY <1>4
  <2> HIDE DEF seqs
  <2>2. i + (x - 1) \in Nat /\ seqs[x] = RowToColumn(i + (x - 1), j, w)
    BY <2>1, <1>3
  <2> DEFINE l == i + (x - 1)
  <2> HIDE DEF l
  <2>3. l \in Nat /\ seqs[x] = RowToColumn(l, j, w)
    BY <2>2 DEF l
  <2>4. Len(RowToColumn(l, j, w)) = 2 * w
    BY <2>3, RowToColumnIs
  <2> QED BY <2>3, <2>4
<1> HIDE DEF T, h, seqs
<1>6. /\ T \in Seq(Accesses) /\ Len(T) = h * (2 * w)
      /\ \A q \in 0 .. h - 1, y \in 1 .. 2 * w : T[q * (2 * w) + y] = seqs[q + 1][y]
      /\ \A x \in 1 .. Len(T) : \E q \in 0 .. h - 1, y \in 1 .. 2 * w : x = q * (2 * w) + y
  <2>1. 2 * w \in Nat \ {0}
    OBVIOUS
  <2>2. T \in Seq(Accesses) /\ Evenly(T, seqs, 2 * w)
    BY <2>1, <1>2, <1>4, <1>5, LaidEvenly
  <2> QED BY <2>2, <1>4 DEF Evenly
<1>7. ASSUME NEW q \in 0 .. h - 1, NEW t \in 0 .. w - 1
      PROVE  /\ T[q * (2 * w) + (t + 1)] = ReadA(i + q, j + t, t)
             /\ T[q * (2 * w) + (w + t + 1)] = WriteB(j + t, i + q, t)
             /\ i + q \in 0 .. n - 1 /\ j + t \in 0 .. m - 1 /\ (t >= 4 => j + t >= j + 4)
  <2>1. q + 1 \in 1 .. h /\ (q + 1) - 1 = q /\ i + q \in Nat
    BY <1>1
  <2>2. seqs[q + 1] = RowToColumn(i + q, j, w)
    BY <2>1, <1>3
  <2>3. t + 1 \in 1 .. 2 * w /\ w + t + 1 \in 1 .. 2 * w
    OBVIOUS
  <2>4. /\ T[q * (2 * w) + (t + 1)] = seqs[q + 1][t + 1]
        /\ T[q * (2 * w) + (w + t + 1)] = seqs[q + 1][w + t + 1]
    BY <2>3, <1>6
  <2>5. i + q \in 0 .. n - 1 /\ j + t \in 0 .. m - 1 /\ (t >= 4 => j + t >= j + 4)
    BY DEF h
  <2> DEFINE r == RowToColumn(i + q, j, w)
  <2>6. r[t + 1] = ReadA(i + q, j + t, t) /\ r[w + t + 1] = WriteB(j + t, i + q, t)
    BY <2>1, RowToColumnIs
  <2> QED BY <2>2, <2>4, <2>5, <2>6
<1>8. Copies(T, h, w, j, m, n)
  BY <1>1, <1>6, <1>7 DEF Copies
<1>9. Turns(T, i, j, h, w)
  BY <1>7 DEF Turns
<1> QED BY <1>8, <1>9 DEF T, h

\* One row, and one column of 61 x 168 from row 64 on.
LEMMA RowCopies ==
  ASSUME NEW m \in Nat, NEW n \in Nat, NEW k \in Nat, NEW j \in Nat, NEW w \in 1 .. 8,
         k < n, j + w <= m
  PROVE  Copies(RowToColumn(k, j, w), 1, w, j, m, n) /\ Turns(RowToColumn(k, j, w), k, j, 1, w)
<1> DEFINE T == RowToColumn(k, j, w)
<1>1. /\ T \in Seq(Accesses) /\ Len(T) = 2 * w
      /\ \A t \in 0 .. w - 1 : T[t + 1] = ReadA(k, j + t, t) /\ T[w + t + 1] = WriteB(j + t, k, t)
  BY RowToColumnIs
<1> HIDE DEF T
<1>2. \A q \in 0 .. 1 - 1 : q = 0 /\ q * (2 * w) = 0
  OBVIOUS
<1>3. ASSUME NEW q \in 0 .. 1 - 1, NEW t \in 0 .. w - 1
      PROVE  \E row \in 0 .. n - 1, col \in 0 .. m - 1 :
               /\ T[q * (2 * w) + (t + 1)] = ReadA(row, col, t)
               /\ T[q * (2 * w) + (w + t + 1)] = WriteB(col, row, t)
               /\ t >= 4 => col >= j + 4
  <2>1. q * (2 * w) + (t + 1) = t + 1 /\ q * (2 * w) + (w + t + 1) = w + t + 1
    BY <1>2
  <2>2. k \in 0 .. n - 1 /\ j + t \in 0 .. m - 1 /\ (t >= 4 => j + t >= j + 4)
    OBVIOUS
  <2> QED BY <2>1, <2>2, <1>1
<1>4. ASSUME NEW x \in 1 .. Len(T)
      PROVE  \E q \in 0 .. 1 - 1, y \in 1 .. 2 * w : x = q * (2 * w) + y
  <2>1. x \in 1 .. 2 * w /\ 0 \in 0 .. 1 - 1 /\ x = 0 * (2 * w) + x
    BY <1>1
  <2> QED BY <2>1
<1>5. Len(T) = 1 * (2 * w) /\ 1 \in Nat \ {0}
  BY <1>1
<1>6. Copies(T, 1, w, j, m, n)
  BY <1>1, <1>3, <1>4, <1>5 DEF Copies
<1>7. ASSUME NEW q \in 0 .. 1 - 1, NEW t \in 0 .. w - 1
      PROVE  T[q * (2 * w) + (w + t + 1)] = WriteB(j + t, k + q, t)
  <2>1. q * (2 * w) + (w + t + 1) = w + t + 1 /\ k + q = k
    BY <1>2
  <2> QED BY <2>1, <1>1
<1>8. Turns(T, k, j, 1, w)
  BY <1>7 DEF Turns
<1> QED BY <1>6, <1>8 DEF T

LEMMA ColumnCopies ==
  ASSUME NEW j \in 0 .. 60
  PROVE  LET T == Each(3, LAMBDA t : ReadA(64 + t, j, t)) \o Each(3, LAMBDA t : WriteB(j, 64 + t, t))
         IN  Copies(T, 1, 3, j, 61, 168) /\ \A t \in 0 .. 2 : T[t + 4] = WriteB(j, 64 + t, t)
<1> DEFINE s == [t \in 1 .. 3 |-> ReadA(64 + (t - 1), j, t - 1)]
           r == [t \in 1 .. 3 |-> WriteB(j, 64 + (t - 1), t - 1)]
           T == s \o r
<1>1. s \in Seq(Accesses) /\ r \in Seq(Accesses) /\ Len(s) = 3 /\ Len(r) = 3
  <2>1. \A t \in 1 .. 3 : ReadA(64 + (t - 1), j, t - 1) \in Accesses
    BY DEF ReadA, Accesses
  <2>2. \A t \in 1 .. 3 : WriteB(j, 64 + (t - 1), t - 1) \in Accesses
    BY DEF WriteB, Accesses
  <2> QED BY <2>1, <2>2
<1>2. ASSUME NEW t \in 0 .. 2
      PROVE  /\ t + 1 \in 1 .. 3 /\ t + 1 \in Nat /\ s[t + 1] = ReadA(64 + t, j, t)
             /\ r[t + 1] = WriteB(j, 64 + t, t)
  <2>1. t + 1 \in 1 .. 3 /\ (t + 1) - 1 = t
    OBVIOUS
  <2> QED BY <2>1
<1> HIDE DEF s, r
<1>3. /\ T \in Seq(Accesses) /\ Len(T) = 6
      /\ \A x \in 1 .. 3 : T[x] = s[x]
      /\ \A y \in Nat : y \in 1 .. 3 => T[3 + y] = r[y]
  <2> HIDE DEF T
  <2>1. T = s \o r
    BY DEF T
  <2>2. /\ s \o r \in Seq(Accesses) /\ Len(s \o r) = Len(s) + Len(r)
        /\ \A x \in 1 .. Len(s) : (s \o r)[x] = s[x]
        /\ \A y \in Nat : y \in 1 .. Len(r) => (s \o r)[Len(s) + y] = r[y]
    <3>1. \A a, b \in Seq(Accesses) :
             /\ a \o b \in Seq(Accesses) /\ Len(a \o b) = Len(a) + Len(b)
             /\ \A x \in 1 .. Len(a) : (a \o b)[x] = a[x]
             /\ \A y \in Nat : y \in 1 .. Len(b) => (a \o b)[Len(a) + y] = b[y]
      BY Concatenated
    <3> QED BY <3>1, <1>1
  <2> QED BY <2>1, <2>2, <1>1
<1> HIDE DEF T
<1>4. ASSUME NEW t \in 0 .. 2
      PROVE  T[t + 1] = ReadA(64 + t, j, t) /\ T[t + 4] = WriteB(j, 64 + t, t)
  <2>1. T[t + 1] = s[t + 1] /\ T[3 + (t + 1)] = r[t + 1]
    BY <1>2, <1>3
  <2>2. 3 + (t + 1) = t + 4
    OBVIOUS
  <2>3. s[t + 1] = ReadA(64 + t, j, t) /\ r[t + 1] = WriteB(j, 64 + t, t)
    BY <1>2
  <2>4. T[3 + (t + 1)] = T[t + 4]
    BY <2>2
  <2> QED BY <2>1, <2>3, <2>4
<1>5. ASSUME NEW q \in 0 .. 1 - 1, NEW t \in 0 .. 3 - 1
      PROVE  \E row \in 0 .. 168 - 1, col \in 0 .. 61 - 1 :
               /\ T[q * (2 * 3) + (t + 1)] = ReadA(row, col, t)
               /\ T[q * (2 * 3) + (3 + t + 1)] = WriteB(col, row, t)
               /\ t >= 4 => col >= j + 4
  <2>1. q * (2 * 3) + (t + 1) = t + 1 /\ q * (2 * 3) + (3 + t + 1) = t + 4 /\ t \in 0 .. 2
    OBVIOUS
  <2>2. 64 + t \in 0 .. 168 - 1 /\ j \in 0 .. 61 - 1 /\ ~(t >= 4)
    OBVIOUS
  <2>3. T[t + 1] = ReadA(64 + t, j, t) /\ T[t + 4] = WriteB(j, 64 + t, t)
    BY <2>1, <1>4
  <2> DEFINE a == q * (2 * 3) + (t + 1)
             b == q * (2 * 3) + (3 + t + 1)
  <2>4. T[a] = ReadA(64 + t, j, t) /\ T[b] = WriteB(j, 64 + t, t)
    <3> HIDE DEF a, b
    <3>1. a = t + 1 /\ b = t + 4
      BY <2>1 DEF a, b
    <3> QED BY <2>3, <3>1
  <2> QED BY <2>2, <2>4
<1>6. ASSUME NEW x \in 1 .. Len(T)
      PROVE  \E q \in 0 .. 1 - 1, y \in 1 .. 2 * 3 : x = q * (2 * 3) + y
  <2>1. x \in 1 .. 2 * 3 /\ 0 \in 0 .. 1 - 1 /\ x = 0 * (2 * 3) + x
    BY <1>3
  <2> QED BY <2>1
<1>7. Len(T) = 1 * (2 * 3) /\ 1 \in Nat \ {0} /\ 3 \in 1 .. 8
  BY <1>3
<1>8. Copies(T, 1, 3, j, 61, 168)
  BY <1>3, <1>5, <1>6, <1>7 DEF Copies
<1>9. T = Each(3, LAMBDA t : ReadA(64 + t, j, t)) \o Each(3, LAMBDA t : WriteB(j, 64 + t, t))
  BY DEF T, s, r, Each
<1> QED BY <1>4, <1>8, <1>9

-----------------------------------------------------------------------------
(* Tiles in quarters.                                                       *)

\* The accesses of a tile in quarters that begins at row i and column j of A.
InQuarters(T, i, j) ==
  /\ T \in Seq(Accesses) /\ Len(T) = 160
  /\ \A q \in 0 .. 3, t \in 0 .. 7 : T[16 * q + (t + 1)] = ReadA(i + q, j + t, t)
  /\ \A q \in 0 .. 3, t \in 0 .. 3 :
       /\ T[16 * q + (t + 9)] = WriteB(j + t, i + q, t)
       /\ T[16 * q + (t + 13)] = WriteB(j + t, i + q + 4, t + 4)
       /\ T[64 + (16 * q + (t + 1))] = ReadA(i + 4 + t, j + q, t)
       /\ T[64 + (16 * q + (t + 5))] = ReadB(j + q, i + 4 + t, t + 4)
       /\ T[64 + (16 * q + (t + 9))] = WriteB(j + q, i + 4 + t, t)
       /\ T[64 + (16 * q + (t + 13))] = WriteB(j + q + 4, i + t, t + 4)
       /\ T[128 + (8 * q + (2 * t + 1))] = ReadA(i + 4 + q, j + 4 + t, 0)
       /\ T[128 + (8 * q + (2 * t + 2))] = WriteB(j + 4 + t, i + 4 + q, 0)

\* The eight rounds of eight loads and eight stores, and the elements on their own.
LoadAt(T, c, u) == T[16 * c + (u + 1)]
StoreAt(T, c, u) == T[16 * c + (u + 9)]
LoneLoad(T, q, t) == T[128 + (8 * q + (2 * t + 1))]
LoneStore(T, q, t) == T[128 + (8 * q + (2 * t + 2))]

\* A tile in quarters is sound, although its upper right quarter waits in B: it is
\* read back before it is written over.
LEMMA QuartersSound ==
  ASSUME NEW T, NEW i \in Nat, NEW j \in Nat, NEW m \in Nat, NEW n \in Nat,
         i + 8 <= n, j + 8 <= m, InQuarters(T, i, j)
  PROVE  Sound(T, j, m, n)
<1>a. T \in Seq(Accesses) /\ Len(T) = 160
  BY Zenon DEF InQuarters
<1>b. \A q \in 0 .. 3, t \in 0 .. 7 : T[16 * q + (t + 1)] = ReadA(i + q, j + t, t)
  BY Zenon DEF InQuarters
<1>c. \A q \in 0 .. 3, t \in 0 .. 3 :
        /\ T[16 * q + (t + 9)] = WriteB(j + t, i + q, t)
        /\ T[16 * q + (t + 13)] = WriteB(j + t, i + q + 4, t + 4)
        /\ T[64 + (16 * q + (t + 1))] = ReadA(i + 4 + t, j + q, t)
        /\ T[64 + (16 * q + (t + 5))] = ReadB(j + q, i + 4 + t, t + 4)
        /\ T[64 + (16 * q + (t + 9))] = WriteB(j + q, i + 4 + t, t)
        /\ T[64 + (16 * q + (t + 13))] = WriteB(j + q + 4, i + t, t + 4)
        /\ T[128 + (8 * q + (2 * t + 1))] = ReadA(i + 4 + q, j + 4 + t, 0)
        /\ T[128 + (8 * q + (2 * t + 2))] = WriteB(j + 4 + t, i + 4 + q, 0)
  BY Zenon DEF InQuarters
<1>1. T \in Seq(Accesses) /\ Len(T) = 160 /\ T # <<>>
  <2>1. Len(<<>>) = 0 /\ Len(T) # 0
    BY <1>a
  <2> QED BY <1>a, <2>1
<1>2. ASSUME NEW c \in 0 .. 7, NEW u \in 0 .. 7
      PROVE  /\ LoadAt(T, c, u).op = "load" /\ LoadAt(T, c, u).tmp = u
             /\ StoreAt(T, c, u).op = "store" /\ StoreAt(T, c, u).tmp = u
             /\ Moved(LoadAt(T, c, u), j, m) = Moved(StoreAt(T, c, u), j, m)
             /\ Fits(LoadAt(T, c, u), m, n) /\ Fits(StoreAt(T, c, u), m, n)
  <2>1. CASE c \in 0 .. 3 /\ u \in 0 .. 3
    <3>1. /\ LoadAt(T, c, u) = ReadA(i + c, j + u, u)
          /\ StoreAt(T, c, u) = WriteB(j + u, i + c, u)
      BY <2>1, <1>b, <1>c DEF LoadAt, StoreAt, LoneLoad, LoneStore
    <3>2. Moved(LoadAt(T, c, u), j, m) = Moved(StoreAt(T, c, u), j, m)
      BY <2>1, <3>1 DEF Moved, Waits, ReadA, WriteB
    <3> QED BY <3>1, <3>2, <2>1 DEF ReadA, WriteB, Fits
  <2>2. CASE c \in 0 .. 3 /\ u \notin 0 .. 3
    <3> DEFINE t == u - 4
    <3>0. t \in 0 .. 3 /\ u = t + 4 /\ u + 9 = t + 13
      BY <2>2
    <3>1. /\ LoadAt(T, c, u) = ReadA(i + c, j + u, u)
          /\ StoreAt(T, c, u) = WriteB(j + t, i + c + 4, u)
      BY <2>2, <3>0, <1>b, <1>c DEF LoadAt, StoreAt, LoneLoad, LoneStore
    <3>2. /\ Moved(LoadAt(T, c, u), j, m) = (i + c) * m + (j + u)
          /\ Moved(StoreAt(T, c, u), j, m) = ((i + c + 4) - 4) * m + (j + t + 4)
      BY <2>2, <3>0, <3>1 DEF Moved, Waits, ReadA, WriteB
    <3>3. (i + c + 4) - 4 = i + c /\ j + t + 4 = j + u
      BY <3>0
    <3> QED BY <3>0, <3>1, <3>2, <3>3, <2>2 DEF ReadA, WriteB, Fits
  <2>3. CASE c \notin 0 .. 3 /\ u \in 0 .. 3
    <3> DEFINE q == c - 4
    <3>0. /\ q \in 0 .. 3 /\ 16 * c + (u + 1) = 64 + (16 * q + (u + 1))
          /\ 16 * c + (u + 9) = 64 + (16 * q + (u + 9))
      BY <2>3
    <3>1. /\ LoadAt(T, c, u) = ReadA(i + 4 + u, j + q, u)
          /\ StoreAt(T, c, u) = WriteB(j + q, i + 4 + u, u)
      BY <2>3, <3>0, <1>b, <1>c DEF LoadAt, StoreAt, LoneLoad, LoneStore
    <3>2. Moved(LoadAt(T, c, u), j, m) = Moved(StoreAt(T, c, u), j, m)
      BY <2>3, <3>0, <3>1 DEF Moved, Waits, ReadA, WriteB
    <3> QED BY <3>0, <3>1, <3>2, <2>3 DEF ReadA, WriteB, Fits
  <2>4. CASE c \notin 0 .. 3 /\ u \notin 0 .. 3
    <3> DEFINE q == c - 4
               t == u - 4
    <3>0. /\ q \in 0 .. 3 /\ t \in 0 .. 3 /\ u = t + 4
          /\ 16 * c + (u + 1) = 64 + (16 * q + (t + 5))
          /\ 16 * c + (u + 9) = 64 + (16 * q + (t + 13))
      BY <2>4
    <3>1. /\ LoadAt(T, c, u) = ReadB(j + q, i + 4 + t, u)
          /\ StoreAt(T, c, u) = WriteB(j + q + 4, i + t, u)
      BY <3>0, <1>b, <1>c DEF LoadAt, StoreAt, LoneLoad, LoneStore
    <3>2. /\ Moved(LoadAt(T, c, u), j, m) = ((i + 4 + t) - 4) * m + (j + q + 4)
          /\ Moved(StoreAt(T, c, u), j, m) = (i + t) * m + (j + q + 4)
      BY <3>0, <3>1 DEF Moved, Waits, ReadB, WriteB
    <3>3. (i + 4 + t) - 4 = i + t
      BY <3>0
    <3> QED BY <3>0, <3>1, <3>2, <3>3 DEF ReadB, WriteB, Fits
  <2> QED BY <2>1, <2>2, <2>3, <2>4
\* Sixteen elements on their own.
<1>3. ASSUME NEW q \in 0 .. 3, NEW t \in 0 .. 3
      PROVE  /\ Loads(LoneLoad(T, q, t), 0)
             /\ LoneLoad(T, q, t).matrix = "A"
             /\ LoneStore(T, q, t).op = "store" /\ LoneStore(T, q, t).tmp = 0
             /\ Moved(LoneLoad(T, q, t), j, m) = Moved(LoneStore(T, q, t), j, m)
             /\ Fits(LoneLoad(T, q, t), m, n)
             /\ Fits(LoneStore(T, q, t), m, n)
  <2>1. /\ LoneLoad(T, q, t) = ReadA(i + 4 + q, j + 4 + t, 0)
        /\ LoneStore(T, q, t) = WriteB(j + 4 + t, i + 4 + q, 0)
    BY <1>b, <1>c DEF LoadAt, StoreAt, LoneLoad, LoneStore
  <2>2. /\ Moved(LoneLoad(T, q, t), j, m) = Moved(LoneStore(T, q, t), j, m)
    BY <2>1 DEF Moved, Waits, ReadA, WriteB
  <2> QED BY <2>1, <2>2 DEF ReadA, WriteB, Fits, Loads
\* Where an access is.
<1>4. ASSUME NEW x \in 1 .. Len(T)
      PROVE  \/ \E c \in 0 .. 7, u \in 0 .. 7 :
                  \/ x = 16 * c + (u + 1) /\ T[x] = LoadAt(T, c, u)
                  \/ x = 16 * c + (u + 9) /\ T[x] = StoreAt(T, c, u)
             \/ \E q \in 0 .. 3, t \in 0 .. 3 :
                  \/ x = 128 + (8 * q + (2 * t + 1)) /\ T[x] = LoneLoad(T, q, t)
                  \/ x = 128 + (8 * q + (2 * t + 2)) /\ T[x] = LoneStore(T, q, t)
  <2>1. CASE x <= 128
    <3> DEFINE c == (x - 1) \div 16
               y == (x - 1) % 16
    <3>1. c \in 0 .. 7 /\ y \in 0 .. 15 /\ x = 16 * c + (y + 1)
      BY <2>1, <1>1
    <3> HIDE DEF c, y
    <3>2. CASE y \in 0 .. 7
      <4>1. x = 16 * c + (y + 1) /\ c \in 0 .. 7
        BY <3>1
      <4>2. T[x] = LoadAt(T, c, y)
        BY <4>1 DEF LoadAt
      <4>3. \E d \in 0 .. 7, v \in 0 .. 7 : x = 16 * d + (v + 1) /\ T[x] = LoadAt(T, d, v)
        BY <4>1, <4>2, <3>2
      <4> QED BY <4>3
    <3>3. CASE y \notin 0 .. 7
      <4> DEFINE w == y - 8
      <4>1. w \in 0 .. 7 /\ x = 16 * c + (w + 9)
        BY <3>1, <3>3
      <4> HIDE DEF w
      <4>2. T[x] = StoreAt(T, c, w)
        BY <4>1 DEF StoreAt
      <4> QED BY <4>1, <4>2, <3>1
    <3> QED BY <3>2, <3>3
  <2>2. CASE x > 128
    <3> DEFINE q == (x - 129) \div 8
               t == ((x - 129) % 8) \div 2
    <3>1. q \in 0 .. 3 /\ t \in 0 .. 3
          /\ (x = 128 + (8 * q + (2 * t + 1)) \/ x = 128 + (8 * q + (2 * t + 2)))
      BY <2>2, <1>1
    <3> HIDE DEF q, t
    <3> QED BY <3>1 DEF LoneLoad, LoneStore
  <2>3. x <= 128 \/ x > 128
    BY <1>1
  <2> QED BY <2>1, <2>2, <2>3
<1>5. ASSUME NEW x \in 1 .. Len(T)
      PROVE  Fits(T[x], m, n)
  <2>1. \A c \in 0 .. 7, u \in 0 .. 7 : Fits(LoadAt(T, c, u), m, n) /\ Fits(StoreAt(T, c, u), m, n)
    BY <1>2
  <2>2. \A q \in 0 .. 3, t \in 0 .. 3 : Fits(LoneLoad(T, q, t), m, n) /\ Fits(LoneStore(T, q, t), m, n)
    BY <1>3
  <2> QED BY <2>1, <2>2, <1>4
<1>6. ASSUME NEW x \in 1 .. Len(T), T[x].op = "store"
      PROVE  \E q \in 1 .. x - 1 : Fetches(T, q, x, j, m)
  <2>1. ASSUME NEW c \in 0 .. 7, NEW u \in 0 .. 7, x = 16 * c + (u + 9)
        PROVE  \E q \in 1 .. x - 1 : Fetches(T, q, x, j, m)
    <3> DEFINE s == 16 * c + (u + 1)
    <3>1. s \in 1 .. x - 1 /\ s \in Nat
      BY <2>1
    <3>2. ASSUME NEW r \in s + 1 .. x - 1
          PROVE  ~Loads(T[r], u)
      <4> DEFINE v == r - 16 * c
      <4>1. v \in 2 .. 16 /\ r = 16 * c + v /\ v # u + 1 /\ r \in Nat
        BY <2>1
      <4>2. CASE v <= 8
        <5> DEFINE w == v - 1
        <5>1. w \in 0 .. 7 /\ r = 16 * c + (w + 1) /\ w # u
          BY <4>1, <4>2
        <5> HIDE DEF w
        <5>2. T[r] = LoadAt(T, c, w)
          BY <5>1 DEF LoadAt
        <5>3. LoadAt(T, c, w).tmp = w
          BY <5>1, <1>2
        <5> QED BY <5>1, <5>2, <5>3 DEF Loads
      <4>3. CASE v > 8
        <5> DEFINE w == v - 9
        <5>1. w \in 0 .. 7 /\ r = 16 * c + (w + 9)
          BY <4>1, <4>3
        <5> HIDE DEF w
        <5>2. T[r] = StoreAt(T, c, w)
          BY <5>1 DEF StoreAt
        <5>3. StoreAt(T, c, w).op = "store"
          BY <5>1, <1>2
        <5> QED BY <5>2, <5>3 DEF Loads
      <4> QED BY <4>1, <4>2, <4>3
    <3>3. T[s] = LoadAt(T, c, u) /\ T[x] = StoreAt(T, c, u)
      BY <2>1 DEF LoadAt, StoreAt
    <3> HIDE DEF s
    <3>a. /\ T[s].op = "load" /\ T[s].tmp = u /\ T[x].tmp = u
          /\ Moved(T[s], j, m) = Moved(T[x], j, m)
      <4>1. /\ LoadAt(T, c, u).op = "load" /\ LoadAt(T, c, u).tmp = u /\ StoreAt(T, c, u).tmp = u
            /\ Moved(LoadAt(T, c, u), j, m) = Moved(StoreAt(T, c, u), j, m)
        BY <1>2
      <4> QED BY <3>3, <4>1
    <3>4. Fetches(T, s, x, j, m)
      BY <3>2, <3>a DEF Fetches, Loads
    <3> QED BY <3>1, <3>4
  <2>2. ASSUME NEW q \in 0 .. 3, NEW t \in 0 .. 3, x = 128 + (8 * q + (2 * t + 2))
        PROVE  \E y \in 1 .. x - 1 : Fetches(T, y, x, j, m)
    <3> DEFINE s == 128 + (8 * q + (2 * t + 1))
    <3>1. s \in 1 .. x - 1 /\ \A r \in s + 1 .. x - 1 : FALSE
      BY <2>2
    <3>2. T[s] = LoneLoad(T, q, t) /\ T[x] = LoneStore(T, q, t)
      BY <2>2 DEF LoneLoad, LoneStore
    <3> HIDE DEF s
    <3>3. Fetches(T, s, x, j, m)
      BY <3>1, <3>2, <1>3 DEF Fetches
    <3> QED BY <3>1, <3>3
  <2>3. /\ \A c \in 0 .. 7, u \in 0 .. 7 : T[x] # LoadAt(T, c, u)
        /\ \A q \in 0 .. 3, t \in 0 .. 3 : T[x] # LoneLoad(T, q, t)
    BY <1>2, <1>3, <1>6 DEF Loads
  <2> QED BY <2>1, <2>2, <2>3, <1>4
\* What the stores of the eight rounds write.
<1>7. ASSUME NEW c \in 0 .. 7, NEW u \in 0 .. 7
      PROVE  /\ StoreAt(T, c, u).row = IF c < 4 THEN IF u < 4 THEN j + u ELSE j + u - 4
                                                    ELSE IF u < 4 THEN j + c - 4 ELSE j + c
             /\ StoreAt(T, c, u).col = IF c < 4 THEN IF u < 4 THEN i + c ELSE i + c + 4
                                                    ELSE IF u < 4 THEN i + 4 + u ELSE i + u - 4
  <2>1. CASE c \in 0 .. 3 /\ u \in 0 .. 3
    <3>1. StoreAt(T, c, u) = WriteB(j + u, i + c, u)
      BY <2>1, <1>b, <1>c DEF LoadAt, StoreAt, LoneLoad, LoneStore
    <3> QED BY <2>1, <3>1 DEF WriteB
  <2>2. CASE c \in 0 .. 3 /\ u \notin 0 .. 3
    <3> DEFINE t == u - 4
    <3>1. t \in 0 .. 3 /\ u + 9 = t + 13 /\ j + t = j + u - 4
      BY <2>2
    <3>2. StoreAt(T, c, u) = WriteB(j + t, i + c + 4, t + 4)
      BY <2>2, <3>1, <1>b, <1>c DEF LoadAt, StoreAt, LoneLoad, LoneStore
    <3> QED BY <2>2, <3>1, <3>2 DEF WriteB
  <2>3. CASE c \notin 0 .. 3 /\ u \in 0 .. 3
    <3> DEFINE q == c - 4
    <3>1. q \in 0 .. 3 /\ 16 * c + (u + 9) = 64 + (16 * q + (u + 9)) /\ j + q = j + c - 4
      BY <2>3
    <3>2. StoreAt(T, c, u) = WriteB(j + q, i + 4 + u, u)
      BY <2>3, <3>1, <1>b, <1>c DEF LoadAt, StoreAt, LoneLoad, LoneStore
    <3> QED BY <2>3, <3>1, <3>2 DEF WriteB
  <2>4. CASE c \notin 0 .. 3 /\ u \notin 0 .. 3
    <3> DEFINE q == c - 4
               t == u - 4
    <3>1. /\ q \in 0 .. 3 /\ t \in 0 .. 3 /\ 16 * c + (u + 9) = 64 + (16 * q + (t + 13))
          /\ j + q + 4 = j + c /\ i + t = i + u - 4
      BY <2>4
    <3>2. StoreAt(T, c, u) = WriteB(j + q + 4, i + t, t + 4)
      BY <3>1, <1>b, <1>c DEF LoadAt, StoreAt, LoneLoad, LoneStore
    <3> QED BY <2>4, <3>1, <3>2 DEF WriteB
  <2> QED BY <2>1, <2>2, <2>3, <2>4
<1>8. ASSUME NEW x \in 1 .. Len(T), T[x].op = "load", T[x].matrix = "B"
      PROVE  \E q \in 1 .. x - 1 : Leaves(T, q, x, j, m)
  <2>1. PICK c \in 0 .. 7, u \in 0 .. 7 : x = 16 * c + (u + 1) /\ T[x] = LoadAt(T, c, u)
    <3>1. /\ \A c \in 0 .. 7, u \in 0 .. 7 : T[x] # StoreAt(T, c, u)
          /\ \A q \in 0 .. 3, t \in 0 .. 3 : T[x] # LoneLoad(T, q, t) /\ T[x] # LoneStore(T, q, t)
      BY <1>2, <1>3, <1>8
    <3> QED BY <3>1, <1>4
  <2>2. c \notin 0 .. 3 /\ u \notin 0 .. 3
    <3>1. CASE c \in 0 .. 3
      <4>1. T[x] = ReadA(i + c, j + u, u)
        BY <2>1, <3>1, <1>b, <1>c DEF LoadAt, StoreAt, LoneLoad, LoneStore
      <4> QED BY <4>1, <1>8 DEF ReadA
    <3>2. CASE c \notin 0 .. 3 /\ u \in 0 .. 3
      <4> DEFINE q == c - 4
      <4>1. q \in 0 .. 3 /\ x = 64 + (16 * q + (u + 1))
        BY <2>1, <3>2
      <4>2. T[x] = ReadA(i + 4 + u, j + q, u)
        BY <3>2, <4>1, <1>b, <1>c DEF LoadAt, StoreAt, LoneLoad, LoneStore
      <4> QED BY <4>2, <1>8 DEF ReadA
    <3> QED BY <3>1, <3>2
  <2> DEFINE q == c - 4
             t == u - 4
             s == 16 * t + (q + 13)
  <2>3. /\ q \in 0 .. 3 /\ t \in 0 .. 3 /\ c = q + 4 /\ u = t + 4
        /\ x = 64 + (16 * q + (t + 5)) /\ s \in 1 .. x - 1
    BY <2>1, <2>2
  <2>4. T[x] = ReadB(j + q, i + 4 + t, t + 4) /\ T[s] = WriteB(j + q, i + t + 4, q + 4)
    BY <2>3, <1>b, <1>c DEF LoadAt, StoreAt, LoneLoad, LoneStore
  <2> HIDE DEF q, t, s
  <2>5. i + t + 4 = i + 4 + t
    BY <2>3
  <2>6. Moved(T[s], j, m) = Moved(T[x], j, m)
    <3>1. /\ Moved(T[x], j, m) = ((i + 4 + t) - 4) * m + (j + q + 4)
          /\ Moved(T[s], j, m) = ((i + 4 + t) - 4) * m + (j + q + 4)
      <4>1. /\ T[x].matrix = "B" /\ T[x].row = j + q /\ T[x].col = i + 4 + t /\ T[x].tmp = t + 4
            /\ T[s].matrix = "B" /\ T[s].row = j + q /\ T[s].col = i + 4 + t /\ T[s].tmp = q + 4
        BY <2>4, <2>5 DEF ReadB, WriteB
      <4>2. Waits(T[x], j) /\ Waits(T[s], j)
        BY <4>1, <2>3 DEF Waits
      <4> QED BY <4>1, <4>2 DEF Moved
    <3> QED BY <3>1
  <2>7. ASSUME NEW r \in s + 1 .. x - 1, Stores(T[r], j + q, i + 4 + t)
        PROVE  FALSE
    <3>1. r \in 1 .. Len(T) /\ r <= 128
      BY <2>3, <1>1
    <3>2. PICK d \in 0 .. 7, v \in 0 .. 7 : r = 16 * d + (v + 9) /\ T[r] = StoreAt(T, d, v)
      <4>1. \A d \in 0 .. 7, v \in 0 .. 7 : LoadAt(T, d, v).op = "load"
        BY <1>2
      <4>2. \A d \in 0 .. 7, v \in 0 .. 7 : T[r] # LoadAt(T, d, v)
        BY <2>7, <4>1 DEF Stores
      <4>3. \/ \E d \in 0 .. 7, v \in 0 .. 7 :
                 \/ r = 16 * d + (v + 1) /\ T[r] = LoadAt(T, d, v)
                 \/ r = 16 * d + (v + 9) /\ T[r] = StoreAt(T, d, v)
            \/ \E a \in 0 .. 3, b \in 0 .. 3 :
                 \/ r = 128 + (8 * a + (2 * b + 1)) /\ T[r] = LoneLoad(T, a, b)
                 \/ r = 128 + (8 * a + (2 * b + 2)) /\ T[r] = LoneStore(T, a, b)
        <5> HIDE DEF s
        <5>1. r \in 1 .. Len(T)
          BY <3>1
        <5> QED BY <5>1, <1>4
      <4>4. \A a \in 0 .. 3, b \in 0 .. 3 : r # 128 + (8 * a + (2 * b + 1)) /\ r # 128 + (8 * a + (2 * b + 2))
        BY <3>1
      <4> QED BY <4>2, <4>3, <4>4
    <3>3. T[r].row = j + q /\ T[r].col = i + 4 + t
      BY <2>7 DEF Stores
    <3>a. /\ T[r].row = IF d < 4 THEN IF v < 4 THEN j + v ELSE j + v - 4
                                 ELSE IF v < 4 THEN j + d - 4 ELSE j + d
          /\ T[r].col = IF d < 4 THEN IF v < 4 THEN i + d ELSE i + d + 4
                                 ELSE IF v < 4 THEN i + 4 + v ELSE i + v - 4
      <4>1. /\ StoreAt(T, d, v).row = IF d < 4 THEN IF v < 4 THEN j + v ELSE j + v - 4
                                           ELSE IF v < 4 THEN j + d - 4 ELSE j + d
            /\ StoreAt(T, d, v).col = IF d < 4 THEN IF v < 4 THEN i + d ELSE i + d + 4
                                           ELSE IF v < 4 THEN i + 4 + v ELSE i + v - 4
        BY <1>7
      <4> QED BY <3>2, <4>1
    <3>4. CASE d < 4
      <4>1. v >= 4 /\ j + v - 4 = j + q /\ i + d + 4 = i + 4 + t
        BY <3>3, <3>a, <3>4, <2>3
      <4>2. r = s
        BY <3>2, <4>1, <2>3 DEF s
      <4> QED BY <4>2, <2>3
    <3>5. CASE d >= 4
      <4>1. v < 4 /\ j + d - 4 = j + q /\ i + 4 + v = i + 4 + t
        BY <3>3, <3>a, <3>5, <2>3
      <4>2. r = 64 + (16 * q + (t + 9))
        BY <3>2, <4>1, <2>3
      <4> QED BY <4>2, <2>3
    <3> QED BY <3>4, <3>5
  <2>8. Leaves(T, s, x, j, m)
    BY <2>4, <2>5, <2>6, <2>7 DEF Leaves, Stores, ReadB, WriteB
  <2> QED BY <2>3, <2>8
<1>9. ASSUME NEW x \in 1 .. Len(T), T[x].op = "store", Waits(T[x], j)
      PROVE  \E q \in x + 1 .. Len(T) : Stores(T[q], T[x].row, T[x].col)
  <2>1. PICK c \in 0 .. 7, u \in 0 .. 7 : x = 16 * c + (u + 9) /\ T[x] = StoreAt(T, c, u)
    <3>1. \A c \in 0 .. 7, u \in 0 .. 7 : T[x] # LoadAt(T, c, u)
      <4>1. \A c \in 0 .. 7, u \in 0 .. 7 : LoadAt(T, c, u).op = "load"
        BY <1>2
      <4> QED BY <4>1, <1>9
    <3>2. \A q \in 0 .. 3, t \in 0 .. 3 : T[x] # LoneLoad(T, q, t) /\ T[x] # LoneStore(T, q, t)
      <4>1. \A q \in 0 .. 3, t \in 0 .. 3 : LoneLoad(T, q, t).op = "load" /\ LoneStore(T, q, t).tmp = 0
        BY <1>3 DEF Loads
      <4> QED BY <4>1, <1>9 DEF Waits
    <3> QED BY <3>1, <3>2, <1>4
  <2>a. /\ T[x].tmp = u
        /\ T[x].row = IF c < 4 THEN IF u < 4 THEN j + u ELSE j + u - 4
                               ELSE IF u < 4 THEN j + c - 4 ELSE j + c
        /\ T[x].col = IF c < 4 THEN IF u < 4 THEN i + c ELSE i + c + 4
                               ELSE IF u < 4 THEN i + 4 + u ELSE i + u - 4
    <3>1. StoreAt(T, c, u).tmp = u
      BY <1>2
    <3>2. /\ StoreAt(T, c, u).row = IF c < 4 THEN IF u < 4 THEN j + u ELSE j + u - 4
                                         ELSE IF u < 4 THEN j + c - 4 ELSE j + c
          /\ StoreAt(T, c, u).col = IF c < 4 THEN IF u < 4 THEN i + c ELSE i + c + 4
                                         ELSE IF u < 4 THEN i + 4 + u ELSE i + u - 4
      BY <1>7
    <3> QED BY <2>1, <3>1, <3>2
  <2>2. u >= 4
    BY <2>a, <1>9 DEF Waits
  <2>3. c < 4
    BY <2>a, <2>2, <1>9 DEF Waits
  <2> DEFINE y == 16 * u + (c + 9)
  <2>4. y \in x + 1 .. Len(T)
    BY <2>1, <2>2, <2>3, <1>1
  <2>5. T[x].row = j + u - 4 /\ T[x].col = i + c + 4
    BY <2>a, <2>2, <2>3
  <2>6. T[y].row = j + u - 4 /\ T[y].col = i + 4 + c /\ T[y].op = "store"
    <3>1. T[y] = StoreAt(T, u, c)
      BY DEF StoreAt
    <3>2. u \in 0 .. 7 /\ c \in 0 .. 7 /\ ~(u < 4)
      BY <2>2
    <3>3. StoreAt(T, u, c).op = "store"
      BY <1>2
    <3>4. /\ StoreAt(T, u, c).row = IF c < 4 THEN j + u - 4 ELSE j + u
          /\ StoreAt(T, u, c).col = IF c < 4 THEN i + 4 + c ELSE i + c - 4
      BY <3>2, <1>7
    <3> QED BY <3>1, <3>3, <3>4, <2>3
  <2>7. Stores(T[y], T[x].row, T[x].col)
    <3>1. i + c + 4 = i + 4 + c
      OBVIOUS
    <3> HIDE DEF y
    <3> QED BY <3>1, <2>5, <2>6 DEF Stores
  <2> HIDE DEF y
  <2> QED BY <2>4, <2>7
<1> QED BY <1>1, <1>5, <1>6, <1>8, <1>9 DEF Sound

\* Four sequences of one length.
LEMMA FourLaid ==
  ASSUME NEW S, NEW seqs \in Seq(Seq(S)), Len(seqs) = 4, NEW L \in Nat \ {0},
         \A x \in 1 .. 4 : Len(seqs[x]) = L
  PROVE  /\ FlattenSeq(seqs) \in Seq(S) /\ Len(FlattenSeq(seqs)) = 4 * L
         /\ \A q \in 0 .. 3, y \in 1 .. L : FlattenSeq(seqs)[q * L + y] = seqs[q + 1][y]
<1>1. seqs # <<>>
  <2>1. Len(<<>>) = 0 /\ Len(seqs) # 0
    OBVIOUS
  <2> QED BY <2>1
<1>2. FlattenSeq(seqs) \in Seq(S) /\ Evenly(FlattenSeq(seqs), seqs, L)
  BY <1>1, LaidEvenly
<1>3. 4 - 1 = 3
  OBVIOUS
<1> QED BY <1>2, <1>3 DEF Evenly

\* One row of the upper half.
LEMMA UpperRow ==
  ASSUME NEW k \in Nat, NEW j \in Nat
  PROVE  LET R == [t \in 1 .. 8 |-> ReadA(k, j + (t - 1), t - 1)]
                    \o [t \in 1 .. 8 |-> IF t - 1 < 4 THEN WriteB(j + (t - 1), k, t - 1)
                                         ELSE WriteB(j + (t - 1) - 4, k + 4, t - 1)]
         IN  /\ R \in Seq(Accesses) /\ Len(R) = 16
             /\ \A t \in 0 .. 7 : R[t + 1] = ReadA(k, j + t, t)
             /\ \A t \in 0 .. 3 : /\ R[t + 9] = WriteB(j + t, k, t)
                                  /\ R[t + 13] = WriteB(j + t, k + 4, t + 4)
<1> DEFINE s == [t \in 1 .. 8 |-> ReadA(k, j + (t - 1), t - 1)]
           r == [t \in 1 .. 8 |-> IF t - 1 < 4 THEN WriteB(j + (t - 1), k, t - 1)
                                  ELSE WriteB(j + (t - 1) - 4, k + 4, t - 1)]
           R == s \o r
<1>1. s \in Seq(Accesses) /\ r \in Seq(Accesses) /\ Len(s) = 8 /\ Len(r) = 8
  <2>1. \A t \in 1 .. 8 : ReadA(k, j + (t - 1), t - 1) \in Accesses
    BY DEF ReadA, Accesses
  <2>2. \A t \in 1 .. 8 : t - 1 < 4 => WriteB(j + (t - 1), k, t - 1) \in Accesses
    BY DEF WriteB, Accesses
  <2>3. \A t \in 1 .. 8 : ~(t - 1 < 4) => WriteB(j + (t - 1) - 4, k + 4, t - 1) \in Accesses
    BY DEF WriteB, Accesses
  <2>4. \A t \in 1 .. 8 : (IF t - 1 < 4 THEN WriteB(j + (t - 1), k, t - 1)
                           ELSE WriteB(j + (t - 1) - 4, k + 4, t - 1)) \in Accesses
    BY <2>2, <2>3
  <2> QED BY <2>1, <2>4
<1>2. ASSUME NEW t \in 0 .. 7
      PROVE  t + 1 \in 1 .. 8 /\ s[t + 1] = ReadA(k, j + t, t)
  <2>1. t + 1 \in 1 .. 8 /\ (t + 1) - 1 = t
    OBVIOUS
  <2> QED BY <2>1
<1>3. ASSUME NEW t \in 0 .. 3
      PROVE  t + 1 \in 1 .. 8 /\ r[t + 1] = WriteB(j + t, k, t)
  <2>1. t + 1 \in 1 .. 8 /\ (t + 1) - 1 = t /\ t < 4
    OBVIOUS
  <2> QED BY <2>1
<1>4. ASSUME NEW t \in 0 .. 3
      PROVE  t + 5 \in 1 .. 8 /\ r[t + 5] = WriteB(j + t, k + 4, t + 4)
  <2>1. t + 5 \in 1 .. 8 /\ (t + 5) - 1 = t + 4 /\ ~(t + 4 < 4) /\ j + (t + 4) - 4 = j + t
    OBVIOUS
  <2> QED BY <2>1
<1> HIDE DEF s, r
<1>5. /\ s \o r \in Seq(Accesses) /\ Len(s \o r) = 16
      /\ \A x \in 1 .. 8 : (s \o r)[x] = s[x]
      /\ \A y \in Nat : y \in 1 .. 8 => (s \o r)[8 + y] = r[y]
  <2>1. \A a, b \in Seq(Accesses) :
           /\ a \o b \in Seq(Accesses) /\ Len(a \o b) = Len(a) + Len(b)
           /\ \A x \in 1 .. Len(a) : (a \o b)[x] = a[x]
           /\ \A y \in Nat : y \in 1 .. Len(b) => (a \o b)[Len(a) + y] = b[y]
    BY Concatenated
  <2> DEFINE z == s \o r
  <2>2. /\ z \in Seq(Accesses) /\ Len(z) = Len(s) + Len(r)
        /\ \A x \in 1 .. Len(s) : z[x] = s[x]
        /\ \A y \in Nat : y \in 1 .. Len(r) => z[Len(s) + y] = r[y]
    BY <2>1, <1>1
  <2> HIDE DEF z
  <2>3. z \in Seq(Accesses) /\ Len(z) = 16
    BY <2>2, <1>1
  <2>4. /\ \A x \in 1 .. 8 : z[x] = s[x]
        /\ \A y \in Nat : y \in 1 .. 8 => z[8 + y] = r[y]
    BY <2>2, <1>1
  <2> QED BY <2>3, <2>4 DEF z
<1>6. R = s \o r
  OBVIOUS
<1> HIDE DEF R
<1>7. ASSUME NEW t \in 0 .. 7
      PROVE  R[t + 1] = ReadA(k, j + t, t)
  BY <1>2, <1>5, <1>6
<1>8. ASSUME NEW t \in 0 .. 3
      PROVE  R[t + 9] = WriteB(j + t, k, t) /\ R[t + 13] = WriteB(j + t, k + 4, t + 4)
  <2>1. t + 1 \in Nat /\ t + 5 \in Nat /\ 8 + (t + 1) = t + 9 /\ 8 + (t + 5) = t + 13
    OBVIOUS
  <2>2. R[8 + (t + 1)] = r[t + 1] /\ R[8 + (t + 5)] = r[t + 5]
    BY <2>1, <1>3, <1>4, <1>5, <1>6
  <2>3. R[8 + (t + 1)] = R[t + 9] /\ R[8 + (t + 5)] = R[t + 13]
    BY <2>1
  <2> QED BY <2>2, <2>3, <1>3, <1>4
<1>9. R \in Seq(Accesses) /\ Len(R) = 16
  BY <1>5, <1>6
<1> QED BY <1>7, <1>8, <1>9 DEF R, s, r

\* The upper half of a tile, element by element.
LEMMA UpperIs ==
  ASSUME NEW i \in Nat, NEW j \in Nat
  PROVE  /\ Upper(i, j) \in Seq(Accesses) /\ Len(Upper(i, j)) = 64
         /\ \A q \in 0 .. 3, t \in 0 .. 7 : Upper(i, j)[16 * q + (t + 1)] = ReadA(i + q, j + t, t)
         /\ \A q \in 0 .. 3, t \in 0 .. 3 :
              /\ Upper(i, j)[16 * q + (t + 9)] = WriteB(j + t, i + q, t)
              /\ Upper(i, j)[16 * q + (t + 13)] = WriteB(j + t, i + q + 4, t + 4)
<1> DEFINE Row(k) == [t \in 1 .. 8 |-> ReadA(k, j + (t - 1), t - 1)]
                       \o [t \in 1 .. 8 |-> IF t - 1 < 4 THEN WriteB(j + (t - 1), k, t - 1)
                                            ELSE WriteB(j + (t - 1) - 4, k + 4, t - 1)]
           seqs == [x \in 1 .. 4 |-> Row(i + (x - 1) * 1)]
           U == FlattenSeq(seqs)
<1>1. Upper(i, j) = U
  <2>1. (i + 4 - i + 1 - 1) \div 1 = 4
    OBVIOUS
  <2> QED BY <2>1 DEF Upper, For, Each
<1>2. ASSUME NEW k \in Nat
      PROVE  /\ Row(k) \in Seq(Accesses) /\ Len(Row(k)) = 16
             /\ \A t \in 0 .. 7 : Row(k)[t + 1] = ReadA(k, j + t, t)
             /\ \A t \in 0 .. 3 : /\ Row(k)[t + 9] = WriteB(j + t, k, t)
                                  /\ Row(k)[t + 13] = WriteB(j + t, k + 4, t + 4)
  BY UpperRow
<1> HIDE DEF Row
<1>3. ASSUME NEW x \in 1 .. 4
      PROVE  i + (x - 1) * 1 \in Nat /\ seqs[x] = Row(i + (x - 1) * 1)
  OBVIOUS
<1>4. seqs \in Seq(Seq(Accesses)) /\ Len(seqs) = 4
  <2>1. \A x \in 1 .. 4 : Row(i + (x - 1) * 1) \in Seq(Accesses)
    BY <1>2, <1>3
  <2> QED BY <2>1
<1> HIDE DEF seqs
<1>5. \A x \in 1 .. 4 : Len(seqs[x]) = 16
  <2>1. \A k \in Nat : Len(Row(k)) = 16
    BY <1>2
  <2> QED BY <2>1, <1>3
<1>6. /\ U \in Seq(Accesses) /\ Len(U) = 4 * 16
      /\ \A q \in 0 .. 3, y \in 1 .. 16 : U[q * 16 + y] = seqs[q + 1][y]
  <2> DEFINE L == 16
  <2>1. L \in Nat \ {0} /\ \A x \in 1 .. 4 : Len(seqs[x]) = L
    BY <1>5
  <2> HIDE DEF L
  <2>2. /\ U \in Seq(Accesses) /\ Len(U) = 4 * L
        /\ \A q \in 0 .. 3, y \in 1 .. L : U[q * L + y] = seqs[q + 1][y]
    BY <2>1, <1>4, FourLaid
  <2> HIDE DEF U
  <2> QED BY <2>2 DEF L
<1> HIDE DEF U
<1>7. ASSUME NEW q \in 0 .. 3, NEW y \in 1 .. 16
      PROVE  U[16 * q + y] = Row(i + q)[y] /\ i + q \in Nat
  <2>1. q + 1 \in 1 .. 4 /\ i + ((q + 1) - 1) * 1 = i + q /\ 16 * q + y = q * 16 + y /\ i + q \in Nat
    OBVIOUS
  <2>2. seqs[q + 1] = Row(i + q)
    BY <2>1, <1>3
  <2> QED BY <2>1, <2>2, <1>6
<1>8. ASSUME NEW q \in 0 .. 3, NEW t \in 0 .. 7
      PROVE  U[16 * q + (t + 1)] = ReadA(i + q, j + t, t)
  <2>1. t + 1 \in 1 .. 16
    OBVIOUS
  <2>2. U[16 * q + (t + 1)] = Row(i + q)[t + 1] /\ i + q \in Nat
    BY <2>1, <1>7
  <2> QED BY <2>2, <1>2
<1>9. ASSUME NEW q \in 0 .. 3, NEW t \in 0 .. 3
      PROVE  /\ U[16 * q + (t + 9)] = WriteB(j + t, i + q, t)
             /\ U[16 * q + (t + 13)] = WriteB(j + t, i + q + 4, t + 4)
  <2>1. t + 9 \in 1 .. 16 /\ t + 13 \in 1 .. 16
    OBVIOUS
  <2>2. /\ U[16 * q + (t + 9)] = Row(i + q)[t + 9] /\ U[16 * q + (t + 13)] = Row(i + q)[t + 13]
        /\ i + q \in Nat
    BY <2>1, <1>7
  <2> QED BY <2>2, <1>2
<1> QED BY <1>1, <1>6, <1>8, <1>9

\* One column of the lower left quarter.
LEMMA LeftRow ==
  ASSUME NEW i \in Nat, NEW k \in Nat
  PROVE  LET R == [t \in 1 .. 4 |-> ReadA(i + 4 + (t - 1), k, t - 1)]
                    \o [t \in 1 .. 4 |-> ReadB(k, i + 4 + (t - 1), t - 1 + 4)]
                    \o [t \in 1 .. 4 |-> WriteB(k, i + 4 + (t - 1), t - 1)]
                    \o [t \in 1 .. 4 |-> WriteB(k + 4, i + (t - 1), t - 1 + 4)]
         IN  /\ R \in Seq(Accesses) /\ Len(R) = 16
             /\ \A t \in 0 .. 3 : /\ R[t + 1] = ReadA(i + 4 + t, k, t)
                                  /\ R[t + 5] = ReadB(k, i + 4 + t, t + 4)
                                  /\ R[t + 9] = WriteB(k, i + 4 + t, t)
                                  /\ R[t + 13] = WriteB(k + 4, i + t, t + 4)
<1> DEFINE a == [t \in 1 .. 4 |-> ReadA(i + 4 + (t - 1), k, t - 1)]
           b == [t \in 1 .. 4 |-> ReadB(k, i + 4 + (t - 1), t - 1 + 4)]
           c == [t \in 1 .. 4 |-> WriteB(k, i + 4 + (t - 1), t - 1)]
           d == [t \in 1 .. 4 |-> WriteB(k + 4, i + (t - 1), t - 1 + 4)]
           R == a \o b \o c \o d
<1>1. a \in Seq(Accesses) /\ Len(a) = 4
  <2>1. \A t \in 1 .. 4 : ReadA(i + 4 + (t - 1), k, t - 1) \in Accesses
    BY DEF ReadA, Accesses
  <2> QED BY <2>1
<1>2. b \in Seq(Accesses) /\ Len(b) = 4
  <2>1. \A t \in 1 .. 4 : ReadB(k, i + 4 + (t - 1), t - 1 + 4) \in Accesses
    BY DEF ReadB, Accesses
  <2> QED BY <2>1
<1>3. c \in Seq(Accesses) /\ Len(c) = 4
  <2>1. \A t \in 1 .. 4 : WriteB(k, i + 4 + (t - 1), t - 1) \in Accesses
    BY DEF WriteB, Accesses
  <2> QED BY <2>1
<1>4. d \in Seq(Accesses) /\ Len(d) = 4
  <2>1. \A t \in 1 .. 4 : WriteB(k + 4, i + (t - 1), t - 1 + 4) \in Accesses
    BY DEF WriteB, Accesses
  <2> QED BY <2>1
<1>5. ASSUME NEW t \in 0 .. 3
      PROVE  /\ a[t + 1] = ReadA(i + 4 + t, k, t) /\ b[t + 1] = ReadB(k, i + 4 + t, t + 4)
             /\ c[t + 1] = WriteB(k, i + 4 + t, t) /\ d[t + 1] = WriteB(k + 4, i + t, t + 4)
  <2>1. t + 1 \in 1 .. 4 /\ (t + 1) - 1 = t
    OBVIOUS
  <2> QED BY <2>1
<1> HIDE DEF a, b, c, d
<1>6. \A s, r \in Seq(Accesses) :
         /\ s \o r \in Seq(Accesses) /\ Len(s \o r) = Len(s) + Len(r)
         /\ \A x \in 1 .. Len(s) : (s \o r)[x] = s[x]
         /\ \A y \in Nat : y \in 1 .. Len(r) => (s \o r)[Len(s) + y] = r[y]
  BY Concatenated
<1> DEFINE ab == a \o b
           abc == ab \o c
<1>7. /\ ab \in Seq(Accesses) /\ Len(ab) = 8 /\ \A x \in 1 .. 4 : ab[x] = a[x]
      /\ \A y \in Nat : y \in 1 .. 4 => ab[4 + y] = b[y]
  <2>1. /\ ab \in Seq(Accesses) /\ Len(ab) = Len(a) + Len(b) /\ \A x \in 1 .. Len(a) : ab[x] = a[x]
        /\ \A y \in Nat : y \in 1 .. Len(b) => ab[Len(a) + y] = b[y]
    BY <1>1, <1>2, <1>6
  <2> HIDE DEF ab
  <2> QED BY <2>1, <1>1, <1>2
<1> HIDE DEF ab
<1>8. /\ abc \in Seq(Accesses) /\ Len(abc) = 12 /\ \A x \in 1 .. 8 : abc[x] = ab[x]
      /\ \A y \in Nat : y \in 1 .. 4 => abc[8 + y] = c[y]
  <2>1. /\ abc \in Seq(Accesses) /\ Len(abc) = Len(ab) + Len(c)
        /\ \A x \in 1 .. Len(ab) : abc[x] = ab[x]
        /\ \A y \in Nat : y \in 1 .. Len(c) => abc[Len(ab) + y] = c[y]
    BY <1>3, <1>6, <1>7
  <2>2. Len(ab) = 8 /\ Len(c) = 4
    BY <1>3, <1>7
  <2> HIDE DEF abc
  <2> QED BY <2>1, <2>2
<1> HIDE DEF abc
<1>9. R = abc \o d
  BY DEF abc, ab
<1>10. /\ R \in Seq(Accesses) /\ Len(R) = 16 /\ \A x \in 1 .. 12 : R[x] = abc[x]
       /\ \A y \in Nat : y \in 1 .. 4 => R[12 + y] = d[y]
  <2> HIDE DEF R
  <2>1. /\ abc \o d \in Seq(Accesses) /\ Len(abc \o d) = Len(abc) + Len(d)
        /\ \A x \in 1 .. Len(abc) : (abc \o d)[x] = abc[x]
        /\ \A y \in Nat : y \in 1 .. Len(d) => (abc \o d)[Len(abc) + y] = d[y]
    BY <1>4, <1>6, <1>8
  <2>2. Len(abc) = 12 /\ Len(d) = 4
    BY <1>4, <1>8
  <2>3. /\ abc \o d \in Seq(Accesses) /\ Len(abc \o d) = 16
        /\ \A x \in 1 .. 12 : (abc \o d)[x] = abc[x]
        /\ \A y \in Nat : y \in 1 .. 4 => (abc \o d)[12 + y] = d[y]
    <3> DEFINE z == abc \o d
    <3>1. /\ z \in Seq(Accesses) /\ Len(z) = Len(abc) + Len(d)
          /\ \A x \in 1 .. Len(abc) : z[x] = abc[x]
          /\ \A y \in Nat : y \in 1 .. Len(d) => z[Len(abc) + y] = d[y]
      BY <2>1
    <3> HIDE DEF z
    <3>2. /\ z \in Seq(Accesses) /\ Len(z) = 16
          /\ \A x \in 1 .. 12 : z[x] = abc[x]
          /\ \A y \in Nat : y \in 1 .. 4 => z[12 + y] = d[y]
      BY <3>1, <2>2
    <3> QED BY <3>2 DEF z
  <2> QED BY <2>3, <1>9
<1> HIDE DEF R
<1>11. ASSUME NEW t \in 0 .. 3
       PROVE  /\ R[t + 1] = a[t + 1] /\ R[t + 5] = b[t + 1]
              /\ R[t + 9] = c[t + 1] /\ R[t + 13] = d[t + 1]
  <2> DEFINE y == t + 1
  <2>1. /\ y \in Nat /\ y \in 1 .. 4 /\ y \in 1 .. 8 /\ y \in 1 .. 12 /\ 4 + y \in 1 .. 8 /\ 4 + y \in 1 .. 12
        /\ 8 + y \in 1 .. 12 /\ t + 5 = 4 + y /\ t + 9 = 8 + y /\ t + 13 = 12 + y
    OBVIOUS
  <2> HIDE DEF y
  <2>2. R[y] = a[y] /\ R[4 + y] = b[y] /\ R[8 + y] = c[y] /\ R[12 + y] = d[y]
    BY <2>1, <1>7, <1>8, <1>10
  <2> QED BY <2>1, <2>2 DEF y
<1> QED BY <1>5, <1>10, <1>11 DEF R, a, b, c, d

\* The lower left quarter of a tile, element by element.
LEMMA LeftIs ==
  ASSUME NEW i \in Nat, NEW j \in Nat
  PROVE  /\ Left(i, j) \in Seq(Accesses) /\ Len(Left(i, j)) = 64
         /\ \A q \in 0 .. 3, t \in 0 .. 3 :
              /\ Left(i, j)[16 * q + (t + 1)] = ReadA(i + 4 + t, j + q, t)
              /\ Left(i, j)[16 * q + (t + 5)] = ReadB(j + q, i + 4 + t, t + 4)
              /\ Left(i, j)[16 * q + (t + 9)] = WriteB(j + q, i + 4 + t, t)
              /\ Left(i, j)[16 * q + (t + 13)] = WriteB(j + q + 4, i + t, t + 4)
<1> DEFINE Row(k) == [t \in 1 .. 4 |-> ReadA(i + 4 + (t - 1), k, t - 1)]
                       \o [t \in 1 .. 4 |-> ReadB(k, i + 4 + (t - 1), t - 1 + 4)]
                       \o [t \in 1 .. 4 |-> WriteB(k, i + 4 + (t - 1), t - 1)]
                       \o [t \in 1 .. 4 |-> WriteB(k + 4, i + (t - 1), t - 1 + 4)]
           seqs == [x \in 1 .. 4 |-> Row(j + (x - 1) * 1)]
           U == FlattenSeq(seqs)
<1>1. Left(i, j) = U
  <2>1. (j + 4 - j + 1 - 1) \div 1 = 4
    OBVIOUS
  <2> QED BY <2>1 DEF Left, For, Each
<1>2. ASSUME NEW k \in Nat
      PROVE  /\ Row(k) \in Seq(Accesses) /\ Len(Row(k)) = 16
             /\ \A t \in 0 .. 3 : /\ Row(k)[t + 1] = ReadA(i + 4 + t, k, t)
                                  /\ Row(k)[t + 5] = ReadB(k, i + 4 + t, t + 4)
                                  /\ Row(k)[t + 9] = WriteB(k, i + 4 + t, t)
                                  /\ Row(k)[t + 13] = WriteB(k + 4, i + t, t + 4)
  BY LeftRow
<1> HIDE DEF Row
<1>3. ASSUME NEW x \in 1 .. 4
      PROVE  j + (x - 1) * 1 \in Nat /\ seqs[x] = Row(j + (x - 1) * 1)
  OBVIOUS
<1>4. seqs \in Seq(Seq(Accesses)) /\ Len(seqs) = 4
  <2>1. \A x \in 1 .. 4 : Row(j + (x - 1) * 1) \in Seq(Accesses)
    BY <1>2, <1>3
  <2> QED BY <2>1
<1> HIDE DEF seqs
<1>5. \A x \in 1 .. 4 : Len(seqs[x]) = 16
  <2>1. \A k \in Nat : Len(Row(k)) = 16
    BY <1>2
  <2> QED BY <2>1, <1>3
<1>6. /\ U \in Seq(Accesses) /\ Len(U) = 4 * 16
      /\ \A q \in 0 .. 3, y \in 1 .. 16 : U[q * 16 + y] = seqs[q + 1][y]
  <2> DEFINE L == 16
  <2>1. L \in Nat \ {0} /\ \A x \in 1 .. 4 : Len(seqs[x]) = L
    BY <1>5
  <2> HIDE DEF L
  <2>2. /\ U \in Seq(Accesses) /\ Len(U) = 4 * L
        /\ \A q \in 0 .. 3, y \in 1 .. L : U[q * L + y] = seqs[q + 1][y]
    BY <2>1, <1>4, FourLaid
  <2> HIDE DEF U
  <2> QED BY <2>2 DEF L
<1> HIDE DEF U
<1>7. ASSUME NEW q \in 0 .. 3, NEW y \in 1 .. 16
      PROVE  U[16 * q + y] = Row(j + q)[y] /\ j + q \in Nat
  <2>1. q + 1 \in 1 .. 4 /\ j + ((q + 1) - 1) * 1 = j + q /\ 16 * q + y = q * 16 + y /\ j + q \in Nat
    OBVIOUS
  <2>2. seqs[q + 1] = Row(j + q)
    BY <2>1, <1>3
  <2> QED BY <2>1, <2>2, <1>6
<1>8. ASSUME NEW q \in 0 .. 3, NEW t \in 0 .. 3
      PROVE  /\ U[16 * q + (t + 1)] = ReadA(i + 4 + t, j + q, t)
             /\ U[16 * q + (t + 5)] = ReadB(j + q, i + 4 + t, t + 4)
             /\ U[16 * q + (t + 9)] = WriteB(j + q, i + 4 + t, t)
             /\ U[16 * q + (t + 13)] = WriteB(j + q + 4, i + t, t + 4)
  <2>1. t + 1 \in 1 .. 16 /\ t + 5 \in 1 .. 16 /\ t + 9 \in 1 .. 16 /\ t + 13 \in 1 .. 16
    OBVIOUS
  <2>2. /\ U[16 * q + (t + 1)] = Row(j + q)[t + 1] /\ U[16 * q + (t + 5)] = Row(j + q)[t + 5]
        /\ U[16 * q + (t + 9)] = Row(j + q)[t + 9] /\ U[16 * q + (t + 13)] = Row(j + q)[t + 13]
        /\ j + q \in Nat
    BY <2>1, <1>7
  <2> QED BY <2>2, <1>2
<1> QED BY <1>1, <1>6, <1>8

\* One row of the lower right quarter.
LEMMA LowerRow ==
  ASSUME NEW j \in Nat, NEW k \in Nat
  PROVE  LET R == FlattenSeq([x \in 1 .. 4 |-> RowToColumn(k, j + 4 + (x - 1) * 1, 1)])
         IN  /\ R \in Seq(Accesses) /\ Len(R) = 8
             /\ \A t \in 0 .. 3 : /\ R[2 * t + 1] = ReadA(k, j + 4 + t, 0)
                                  /\ R[2 * t + 2] = WriteB(j + 4 + t, k, 0)
<1> DEFINE seqs == [x \in 1 .. 4 |-> RowToColumn(k, j + 4 + (x - 1) * 1, 1)]
           R == FlattenSeq(seqs)
<1>1. ASSUME NEW l \in Nat
      PROVE  /\ RowToColumn(k, l, 1) \in Seq(Accesses) /\ Len(RowToColumn(k, l, 1)) = 2
             /\ RowToColumn(k, l, 1)[1] = ReadA(k, l, 0) /\ RowToColumn(k, l, 1)[2] = WriteB(l, k, 0)
  <2>1. 1 \in 1 .. 8 /\ 0 \in 0 .. 1 - 1 /\ l + 0 = l /\ 0 + 1 = 1 /\ 1 + 0 + 1 = 2 /\ 2 * 1 = 2
    OBVIOUS
  <2>2. /\ RowToColumn(k, l, 1) \in Seq(Accesses) /\ Len(RowToColumn(k, l, 1)) = 2 * 1
        /\ RowToColumn(k, l, 1)[0 + 1] = ReadA(k, l + 0, 0)
        /\ RowToColumn(k, l, 1)[1 + 0 + 1] = WriteB(l + 0, k, 0)
    BY <2>1, RowToColumnIs
  <2> QED BY <2>1, <2>2
<1>2. ASSUME NEW x \in 1 .. 4
      PROVE  j + 4 + (x - 1) * 1 \in Nat /\ seqs[x] = RowToColumn(k, j + 4 + (x - 1) * 1, 1)
  OBVIOUS
<1>3. seqs \in Seq(Seq(Accesses)) /\ Len(seqs) = 4
  <2>1. \A x \in 1 .. 4 : RowToColumn(k, j + 4 + (x - 1) * 1, 1) \in Seq(Accesses)
    BY <1>1, <1>2
  <2> QED BY <2>1
<1> HIDE DEF seqs
<1>4. \A x \in 1 .. 4 : Len(seqs[x]) = 2
  <2>1. \A l \in Nat : Len(RowToColumn(k, l, 1)) = 2
    BY <1>1
  <2> QED BY <2>1, <1>2
<1>5. /\ R \in Seq(Accesses) /\ Len(R) = 4 * 2
      /\ \A q \in 0 .. 3, y \in 1 .. 2 : R[q * 2 + y] = seqs[q + 1][y]
  <2> DEFINE L == 2
  <2>1. L \in Nat \ {0} /\ \A x \in 1 .. 4 : Len(seqs[x]) = L
    BY <1>4
  <2> HIDE DEF L
  <2>2. /\ R \in Seq(Accesses) /\ Len(R) = 4 * L
        /\ \A q \in 0 .. 3, y \in 1 .. L : R[q * L + y] = seqs[q + 1][y]
    BY <2>1, <1>3, FourLaid
  <2> HIDE DEF R
  <2> QED BY <2>2 DEF L
<1> HIDE DEF R
<1>6. ASSUME NEW t \in 0 .. 3
      PROVE  R[2 * t + 1] = ReadA(k, j + 4 + t, 0) /\ R[2 * t + 2] = WriteB(j + 4 + t, k, 0)
  <2>1. /\ t + 1 \in 1 .. 4 /\ j + 4 + ((t + 1) - 1) * 1 = j + 4 + t /\ j + 4 + t \in Nat
        /\ t * 2 + 1 = 2 * t + 1 /\ t * 2 + 2 = 2 * t + 2
    OBVIOUS
  <2>2. seqs[t + 1] = RowToColumn(k, j + 4 + t, 1)
    BY <2>1, <1>2
  <2>3. R[t * 2 + 1] = seqs[t + 1][1] /\ R[t * 2 + 2] = seqs[t + 1][2]
    BY <1>5
  <2>4. R[2 * t + 1] = seqs[t + 1][1] /\ R[2 * t + 2] = seqs[t + 1][2]
    BY <2>1, <2>3
  <2>5. /\ RowToColumn(k, j + 4 + t, 1)[1] = ReadA(k, j + 4 + t, 0)
        /\ RowToColumn(k, j + 4 + t, 1)[2] = WriteB(j + 4 + t, k, 0)
    BY <2>1, <1>1
  <2> QED BY <2>2, <2>4, <2>5
<1>7. Len(R) = 8
  BY <1>5
<1> QED BY <1>5, <1>6, <1>7 DEF R, seqs

\* The lower right quarter of a tile, element by element.
LEMMA LowerIs ==
  ASSUME NEW i \in Nat, NEW j \in Nat
  PROVE  /\ Lower(i, j) \in Seq(Accesses) /\ Len(Lower(i, j)) = 32
         /\ \A q \in 0 .. 3, t \in 0 .. 3 :
              /\ Lower(i, j)[8 * q + (2 * t + 1)] = ReadA(i + 4 + q, j + 4 + t, 0)
              /\ Lower(i, j)[8 * q + (2 * t + 2)] = WriteB(j + 4 + t, i + 4 + q, 0)
<1> DEFINE Row(k) == FlattenSeq([x \in 1 .. 4 |-> RowToColumn(k, j + 4 + (x - 1) * 1, 1)])
           seqs == [x \in 1 .. 4 |-> Row(i + 4 + (x - 1) * 1)]
           U == FlattenSeq(seqs)
<1>1. Lower(i, j) = U
  <2>1. /\ (i + 8 - (i + 4) + 1 - 1) \div 1 = 4
        /\ (j + 8 - (j + 4) + 1 - 1) \div 1 = 4
    OBVIOUS
  <2> QED BY <2>1 DEF Lower, For
<1>2. ASSUME NEW k \in Nat
      PROVE  /\ Row(k) \in Seq(Accesses) /\ Len(Row(k)) = 8
             /\ \A t \in 0 .. 3 : /\ Row(k)[2 * t + 1] = ReadA(k, j + 4 + t, 0)
                                  /\ Row(k)[2 * t + 2] = WriteB(j + 4 + t, k, 0)
  BY LowerRow
<1> HIDE DEF Row
<1>3. ASSUME NEW x \in 1 .. 4
      PROVE  i + 4 + (x - 1) * 1 \in Nat /\ seqs[x] = Row(i + 4 + (x - 1) * 1)
  OBVIOUS
<1>4. seqs \in Seq(Seq(Accesses)) /\ Len(seqs) = 4
  <2>1. \A x \in 1 .. 4 : Row(i + 4 + (x - 1) * 1) \in Seq(Accesses)
    BY <1>2, <1>3
  <2> QED BY <2>1
<1> HIDE DEF seqs
<1>5. \A x \in 1 .. 4 : Len(seqs[x]) = 8
  <2>1. \A k \in Nat : Len(Row(k)) = 8
    BY <1>2
  <2> QED BY <2>1, <1>3
<1>6. /\ U \in Seq(Accesses) /\ Len(U) = 4 * 8
      /\ \A q \in 0 .. 3, y \in 1 .. 8 : U[q * 8 + y] = seqs[q + 1][y]
  <2> DEFINE L == 8
  <2>1. L \in Nat \ {0} /\ \A x \in 1 .. 4 : Len(seqs[x]) = L
    BY <1>5
  <2> HIDE DEF L
  <2>2. /\ U \in Seq(Accesses) /\ Len(U) = 4 * L
        /\ \A q \in 0 .. 3, y \in 1 .. L : U[q * L + y] = seqs[q + 1][y]
    BY <2>1, <1>4, FourLaid
  <2> HIDE DEF U
  <2> QED BY <2>2 DEF L
<1> HIDE DEF U
<1>7. ASSUME NEW q \in 0 .. 3, NEW y \in 1 .. 8
      PROVE  U[8 * q + y] = Row(i + 4 + q)[y] /\ i + 4 + q \in Nat
  <2>1. /\ q + 1 \in 1 .. 4 /\ i + 4 + ((q + 1) - 1) * 1 = i + 4 + q
        /\ 8 * q + y = q * 8 + y /\ i + 4 + q \in Nat
    OBVIOUS
  <2>2. seqs[q + 1] = Row(i + 4 + q)
    BY <2>1, <1>3
  <2> QED BY <2>1, <2>2, <1>6
<1>8. ASSUME NEW q \in 0 .. 3, NEW t \in 0 .. 3
      PROVE  /\ U[8 * q + (2 * t + 1)] = ReadA(i + 4 + q, j + 4 + t, 0)
             /\ U[8 * q + (2 * t + 2)] = WriteB(j + 4 + t, i + 4 + q, 0)
  <2>1. 2 * t + 1 \in 1 .. 8 /\ 2 * t + 2 \in 1 .. 8
    OBVIOUS
  <2>2. /\ U[8 * q + (2 * t + 1)] = Row(i + 4 + q)[2 * t + 1]
        /\ U[8 * q + (2 * t + 2)] = Row(i + 4 + q)[2 * t + 2]
        /\ i + 4 + q \in Nat
    BY <2>1, <1>7
  <2> QED BY <2>2, <1>2
<1> QED BY <1>1, <1>6, <1>8

\* The code's tile in quarters is one.
LEMMA QuartersAre ==
  ASSUME NEW i \in Nat, NEW j \in Nat
  PROVE  InQuarters(Upper(i, j) \o Left(i, j) \o Lower(i, j), i, j)
<1> DEFINE u == Upper(i, j)
           l == Left(i, j)
           w == Lower(i, j)
           ul == u \o l
           T == ul \o w
<1>1. /\ u \in Seq(Accesses) /\ Len(u) = 64
      /\ \A q \in 0 .. 3, t \in 0 .. 7 : u[16 * q + (t + 1)] = ReadA(i + q, j + t, t)
      /\ \A q \in 0 .. 3, t \in 0 .. 3 : /\ u[16 * q + (t + 9)] = WriteB(j + t, i + q, t)
                                         /\ u[16 * q + (t + 13)] = WriteB(j + t, i + q + 4, t + 4)
  BY UpperIs
<1>2. /\ l \in Seq(Accesses) /\ Len(l) = 64
      /\ \A q \in 0 .. 3, t \in 0 .. 3 :
           /\ l[16 * q + (t + 1)] = ReadA(i + 4 + t, j + q, t)
           /\ l[16 * q + (t + 5)] = ReadB(j + q, i + 4 + t, t + 4)
           /\ l[16 * q + (t + 9)] = WriteB(j + q, i + 4 + t, t)
           /\ l[16 * q + (t + 13)] = WriteB(j + q + 4, i + t, t + 4)
  BY LeftIs
<1>3. /\ w \in Seq(Accesses) /\ Len(w) = 32
      /\ \A q \in 0 .. 3, t \in 0 .. 3 :
           /\ w[8 * q + (2 * t + 1)] = ReadA(i + 4 + q, j + 4 + t, 0)
           /\ w[8 * q + (2 * t + 2)] = WriteB(j + 4 + t, i + 4 + q, 0)
  BY LowerIs
<1> HIDE DEF u, l, w
<1>4. \A s, r \in Seq(Accesses) :
         /\ s \o r \in Seq(Accesses) /\ Len(s \o r) = Len(s) + Len(r)
         /\ \A x \in 1 .. Len(s) : (s \o r)[x] = s[x]
         /\ \A y \in Nat : y \in 1 .. Len(r) => (s \o r)[Len(s) + y] = r[y]
  BY Concatenated
<1>5. /\ ul \in Seq(Accesses) /\ Len(ul) = 128 /\ \A x \in 1 .. 64 : ul[x] = u[x]
      /\ \A y \in Nat : y \in 1 .. 64 => ul[64 + y] = l[y]
  <2>1. /\ ul \in Seq(Accesses) /\ Len(ul) = Len(u) + Len(l) /\ \A x \in 1 .. Len(u) : ul[x] = u[x]
        /\ \A y \in Nat : y \in 1 .. Len(l) => ul[Len(u) + y] = l[y]
    BY <1>1, <1>2, <1>4
  <2> HIDE DEF ul
  <2> QED BY <2>1, <1>1, <1>2
<1> HIDE DEF ul
<1>6. /\ T \in Seq(Accesses) /\ Len(T) = 160 /\ \A x \in 1 .. 128 : T[x] = ul[x]
      /\ \A y \in Nat : y \in 1 .. 32 => T[128 + y] = w[y]
  <2>1. /\ T \in Seq(Accesses) /\ Len(T) = Len(ul) + Len(w) /\ \A x \in 1 .. Len(ul) : T[x] = ul[x]
        /\ \A y \in Nat : y \in 1 .. Len(w) => T[Len(ul) + y] = w[y]
    <3>1. w \in Seq(Accesses) /\ ul \in Seq(Accesses)
      BY <1>3, <1>5
    <3> QED BY <3>1, <1>4
  <2>2. Len(ul) = 128 /\ Len(w) = 32
    BY <1>3, <1>5
  <2> HIDE DEF T
  <2> QED BY <2>1, <2>2
<1>7. T = Upper(i, j) \o Left(i, j) \o Lower(i, j)
  BY DEF u, l, w, ul
<1> HIDE DEF T
<1>8. \A y \in 1 .. 64 : T[y] = u[y] /\ T[64 + y] = l[y]
  <2> SUFFICES ASSUME NEW y \in 1 .. 64
               PROVE  T[y] = u[y] /\ T[64 + y] = l[y]
    OBVIOUS
  <2> DEFINE x == 64 + y
  <2>0. y \in Nat /\ y \in 1 .. 128 /\ x \in 1 .. 128
    OBVIOUS
  <2>a. ul[64 + y] = l[y] /\ ul[y] = u[y]
    BY <2>0, <1>5
  <2>1. y \in Nat /\ y \in 1 .. 128 /\ x \in 1 .. 128 /\ ul[x] = l[y] /\ ul[y] = u[y]
    BY <2>0, <2>a
  <2> HIDE DEF x
  <2>2. T[y] = u[y] /\ T[x] = l[y]
    BY <2>1, <1>6
  <2> QED BY <2>2 DEF x
<1>9. \A y \in 1 .. 32 : T[128 + y] = w[y]
  <2>1. \A y \in Nat : y \in 1 .. 32 => T[128 + y] = w[y]
    BY <1>6
  <2> QED BY <2>1
<1>10. ASSUME NEW q \in 0 .. 3, NEW t \in 0 .. 7
       PROVE  T[16 * q + (t + 1)] = ReadA(i + q, j + t, t)
  <2>1. 16 * q + (t + 1) \in 1 .. 64
    OBVIOUS
  <2>2. T[16 * q + (t + 1)] = u[16 * q + (t + 1)]
    BY <2>1, <1>8
  <2> QED BY <2>2, <1>1
<1>11. ASSUME NEW q \in 0 .. 3, NEW t \in 0 .. 3
       PROVE  /\ T[16 * q + (t + 9)] = WriteB(j + t, i + q, t)
              /\ T[16 * q + (t + 13)] = WriteB(j + t, i + q + 4, t + 4)
              /\ T[64 + (16 * q + (t + 1))] = ReadA(i + 4 + t, j + q, t)
              /\ T[64 + (16 * q + (t + 5))] = ReadB(j + q, i + 4 + t, t + 4)
              /\ T[64 + (16 * q + (t + 9))] = WriteB(j + q, i + 4 + t, t)
              /\ T[64 + (16 * q + (t + 13))] = WriteB(j + q + 4, i + t, t + 4)
              /\ T[128 + (8 * q + (2 * t + 1))] = ReadA(i + 4 + q, j + 4 + t, 0)
              /\ T[128 + (8 * q + (2 * t + 2))] = WriteB(j + 4 + t, i + 4 + q, 0)
  <2>1. /\ 16 * q + (t + 1) \in 1 .. 64 /\ 16 * q + (t + 5) \in 1 .. 64
        /\ 16 * q + (t + 9) \in 1 .. 64 /\ 16 * q + (t + 13) \in 1 .. 64
        /\ 8 * q + (2 * t + 1) \in 1 .. 32 /\ 8 * q + (2 * t + 2) \in 1 .. 32
    OBVIOUS
  <2>2. T[16 * q + (t + 9)] = u[16 * q + (t + 9)] /\ T[16 * q + (t + 13)] = u[16 * q + (t + 13)]
    BY <2>1, <1>8
  <2>3. /\ T[64 + (16 * q + (t + 1))] = l[16 * q + (t + 1)]
        /\ T[64 + (16 * q + (t + 5))] = l[16 * q + (t + 5)]
        /\ T[64 + (16 * q + (t + 9))] = l[16 * q + (t + 9)]
        /\ T[64 + (16 * q + (t + 13))] = l[16 * q + (t + 13)]
    BY <2>1, <1>8
  <2>4. /\ T[128 + (8 * q + (2 * t + 1))] = w[8 * q + (2 * t + 1)]
        /\ T[128 + (8 * q + (2 * t + 2))] = w[8 * q + (2 * t + 2)]
    BY <2>1, <1>9
  <2> QED BY <2>2, <2>3, <2>4, <1>1, <1>2, <1>3
<1>12. InQuarters(T, i, j)
  BY <1>6, <1>10, <1>11, Zenon DEF InQuarters
<1> QED BY <1>7, <1>12

\* Every element of the eight columns and rows is stored.
LEMMA QuartersCover ==
  ASSUME NEW T, NEW i \in Nat, NEW j \in Nat, InQuarters(T, i, j),
         NEW row \in j .. j + 7, NEW col \in i .. i + 7
  PROVE  \E p \in 1 .. Len(T) : Stores(T[p], row, col)
<1>1. Len(T) = 160
  BY Zenon DEF InQuarters
<1>2. \A q \in 0 .. 3, t \in 0 .. 3 :
        /\ T[16 * q + (t + 9)] = WriteB(j + t, i + q, t)
        /\ T[16 * q + (t + 13)] = WriteB(j + t, i + q + 4, t + 4)
        /\ T[64 + (16 * q + (t + 1))] = ReadA(i + 4 + t, j + q, t)
        /\ T[64 + (16 * q + (t + 5))] = ReadB(j + q, i + 4 + t, t + 4)
        /\ T[64 + (16 * q + (t + 9))] = WriteB(j + q, i + 4 + t, t)
        /\ T[64 + (16 * q + (t + 13))] = WriteB(j + q + 4, i + t, t + 4)
        /\ T[128 + (8 * q + (2 * t + 1))] = ReadA(i + 4 + q, j + 4 + t, 0)
        /\ T[128 + (8 * q + (2 * t + 2))] = WriteB(j + 4 + t, i + 4 + q, 0)
  BY Zenon DEF InQuarters
<1>3. ASSUME NEW p \in 1 .. Len(T), NEW t, T[p] = WriteB(row, col, t)
      PROVE  \E x \in 1 .. Len(T) : Stores(T[x], row, col)
  BY <1>3 DEF Stores, WriteB
<1>4. CASE row < j + 4 /\ col < i + 4
  <2> DEFINE t == row - j
             q == col - i
             p == 16 * q + (t + 9)
  <2>1. t \in 0 .. 3 /\ q \in 0 .. 3 /\ p \in 1 .. Len(T) /\ j + t = row /\ i + q = col
    BY <1>1, <1>4
  <2> HIDE DEF t, q
  <2>2. T[p] = WriteB(row, col, t)
    BY <2>1, <1>2
  <2> QED BY <2>1, <2>2, <1>3
<1>5. CASE row < j + 4 /\ col >= i + 4
  <2> DEFINE q == row - j
             t == col - i - 4
             p == 64 + (16 * q + (t + 9))
  <2>1. t \in 0 .. 3 /\ q \in 0 .. 3 /\ p \in 1 .. Len(T) /\ j + q = row /\ i + 4 + t = col
    BY <1>1, <1>5
  <2> HIDE DEF t, q
  <2>2. T[p] = WriteB(row, col, t)
    BY <2>1, <1>2
  <2> QED BY <2>1, <2>2, <1>3
<1>6. CASE row >= j + 4 /\ col < i + 4
  <2> DEFINE q == row - j - 4
             t == col - i
             p == 64 + (16 * q + (t + 13))
  <2>1. t \in 0 .. 3 /\ q \in 0 .. 3 /\ p \in 1 .. Len(T) /\ j + q + 4 = row /\ i + t = col
    BY <1>1, <1>6
  <2> HIDE DEF t, q
  <2>2. T[p] = WriteB(row, col, t + 4)
    BY <2>1, <1>2
  <2> QED BY <2>1, <2>2, <1>3
<1>7. CASE row >= j + 4 /\ col >= i + 4
  <2> DEFINE q == col - i - 4
             t == row - j - 4
             p == 128 + (8 * q + (2 * t + 2))
  <2>1. t \in 0 .. 3 /\ q \in 0 .. 3 /\ p \in 1 .. Len(T) /\ j + 4 + t = row /\ i + 4 + q = col
    BY <1>1, <1>7
  <2> HIDE DEF t, q
  <2>2. T[p] = WriteB(row, col, 0)
    BY <2>1, <1>2
  <2> QED BY <2>1, <2>2, <1>3
<1> QED BY <1>4, <1>5, <1>6, <1>7

-----------------------------------------------------------------------------
(* The tiles of a size.                                                     *)

IsTile(T, m, n) == \E j \in Nat : Sound(T, j, m, n)

Touches(T, row, col) == \E p \in 1 .. Len(T) : Stores(T[p], row, col)

Tiles(P, m, n) == P \in Seq(Seq(Accesses)) /\ P # <<>> /\ \A x \in 1 .. Len(P) : IsTile(P[x], m, n)

Covered(P, row, col) == \E x \in 1 .. Len(P) : Touches(P[x], row, col)

\* Tiles that copy are sound and store what they load.
LEMMA CopiesTile ==
  ASSUME NEW m \in Nat, NEW n \in Nat, NEW i \in Nat, NEW j \in Nat, NEW h, NEW w, NEW T,
         Copies(T, h, w, j, m, n), Turns(T, i, j, h, w)
  PROVE  /\ IsTile(T, m, n)
         /\ \A row \in j .. j + w - 1, col \in i .. i + h - 1 : Touches(T, row, col)
<1>1. IsTile(T, m, n)
  <2>1. Sound(T, j, m, n)
    BY CopiesSound
  <2> QED BY <2>1 DEF IsTile
<1>2. Len(T) = h * (2 * w) /\ h \in Nat /\ w \in 1 .. 8
  BY DEF Copies
<1>3. ASSUME NEW row \in j .. j + w - 1, NEW col \in i .. i + h - 1
      PROVE  Touches(T, row, col)
  <2> DEFINE t == row - j
             q == col - i
             p == q * (2 * w) + (w + t + 1)
  <2>1. t \in 0 .. w - 1 /\ q \in 0 .. h - 1 /\ j + t = row /\ i + q = col
    BY <1>2
  <2> HIDE DEF t, q
  <2>2. T[p] = WriteB(row, col, t)
    BY <2>1 DEF Turns
  <2>3. p \in 1 .. Len(T)
    <3> DEFINE d == h - 1 - q
               L == 2 * w
    <3>1. d \in Nat /\ L \in Nat /\ q \in Nat /\ h = q + 1 + d
      BY <2>1, <1>2
    <3>2. q * L \in Nat /\ d * L \in Nat /\ h * L = q * L + L + d * L
      <4> HIDE DEF d, L
      <4> QED BY <3>1
    <3>3. w + t + 1 \in 1 .. L
      BY <2>1, <1>2
    <3>4. p = q * L + (w + t + 1) /\ Len(T) = h * L
      BY <1>2
    <3> HIDE DEF d, L, p
    <3> QED BY <3>1, <3>2, <3>3, <3>4
  <2> HIDE DEF p
  <2> QED BY <2>2, <2>3 DEF Touches, Stores, WriteB
<1> QED BY <1>1, <1>3

\* The columns from j to before j + w of A's rows from i to before e.
Strip(i, e, j, w) == For(i, 1, e, LAMBDA k : RowToColumn(k, j, w))

Strips(T, i, e, j, w) == \A row \in j .. j + w - 1, col \in i .. e - 1 : Touches(T, row, col)

LEMMA RowsTile ==
  ASSUME NEW m \in Nat, NEW n \in Nat, NEW i \in Nat, NEW e \in Nat, NEW j \in Nat, NEW w \in 1 .. 8,
         i < e, e <= n, j + w <= m
  PROVE  IsTile(Strip(i, e, j, w), m, n) /\ Strips(Strip(i, e, j, w), i, e, j, w)
<1> DEFINE T == For(i, 1, e, LAMBDA k : RowToColumn(k, j, w))
<1>1. Copies(T, e - i, w, j, m, n) /\ Turns(T, i, j, e - i, w)
  BY RowsCopy
<1> HIDE DEF T
<1>2. i + (e - i) - 1 = e - 1
  OBVIOUS
<1>3. /\ IsTile(T, m, n)
      /\ \A row \in j .. j + w - 1, col \in i .. i + (e - i) - 1 : Touches(T, row, col)
  BY <1>1, CopiesTile
<1>4. T = Strip(i, e, j, w)
  BY DEF T, Strip
<1>5. Strips(T, i, e, j, w)
  BY <1>2, <1>3 DEF Strips
<1> QED BY <1>3, <1>4, <1>5

\* One row of A.
LEMMA RowTile ==
  ASSUME NEW m \in Nat, NEW n \in Nat, NEW k \in Nat, NEW j \in Nat, NEW w \in 1 .. 8,
         k < n, j + w <= m
  PROVE  /\ IsTile(RowToColumn(k, j, w), m, n)
         /\ \A row \in j .. j + w - 1 : Touches(RowToColumn(k, j, w), row, k)
<1> DEFINE T == RowToColumn(k, j, w)
<1>1. Copies(T, 1, w, j, m, n) /\ Turns(T, k, j, 1, w)
  BY RowCopies
<1> HIDE DEF T
<1>2. k \in k .. k + 1 - 1
  OBVIOUS
<1>3. /\ IsTile(T, m, n)
      /\ \A row \in j .. j + w - 1, col \in k .. k + 1 - 1 : Touches(T, row, col)
  BY <1>1, CopiesTile
<1> QED BY <1>2, <1>3 DEF T

\* One column of A, from row 64 on.
LEMMA ColumnTile ==
  ASSUME NEW j \in 0 .. 60
  PROVE  LET T == Each(3, LAMBDA t : ReadA(64 + t, j, t)) \o Each(3, LAMBDA t : WriteB(j, 64 + t, t))
         IN  IsTile(T, 61, 168) /\ \A col \in 64 .. 66 : Touches(T, j, col)
<1> DEFINE T == Each(3, LAMBDA t : ReadA(64 + t, j, t)) \o Each(3, LAMBDA t : WriteB(j, 64 + t, t))
<1>1. Copies(T, 1, 3, j, 61, 168) /\ \A t \in 0 .. 2 : T[t + 4] = WriteB(j, 64 + t, t)
  BY ColumnCopies
<1> HIDE DEF T
<1>2. IsTile(T, 61, 168)
  <2>1. Sound(T, j, 61, 168)
    BY <1>1, CopiesSound
  <2> QED BY <2>1 DEF IsTile
<1>3. Len(T) = 6
  <2>1. Len(T) = 1 * (2 * 3)
    BY <1>1, Zenon DEF Copies
  <2> QED BY <2>1
<1>4. ASSUME NEW col \in 64 .. 66
      PROVE  Touches(T, j, col)
  <2> DEFINE t == col - 64
             p == t + 4
  <2>1. t \in 0 .. 2 /\ 64 + t = col /\ p \in 1 .. Len(T)
    BY <1>3
  <2> HIDE DEF t
  <2>2. T[p] = WriteB(j, col, t)
    BY <2>1, <1>1
  <2> HIDE DEF p
  <2> QED BY <2>1, <2>2 DEF Touches, Stores, WriteB
<1> QED BY <1>2, <1>4 DEF T

\* A tile in quarters.
LEMMA QuartersTile ==
  ASSUME NEW m \in Nat, NEW n \in Nat, NEW i \in Nat, NEW j \in Nat, i + 8 <= n, j + 8 <= m
  PROVE  LET T == Upper(i, j) \o Left(i, j) \o Lower(i, j)
         IN  /\ IsTile(T, m, n)
             /\ \A row \in j .. j + 7, col \in i .. i + 7 : Touches(T, row, col)
<1> DEFINE T == Upper(i, j) \o Left(i, j) \o Lower(i, j)
<1>1. InQuarters(T, i, j)
  BY QuartersAre
<1> HIDE DEF T
<1>2. Sound(T, j, m, n)
  BY <1>1, QuartersSound
<1>3. \A row \in j .. j + 7, col \in i .. i + 7 : Touches(T, row, col)
  BY <1>1, QuartersCover DEF Touches
<1>4. IsTile(T, m, n)
  BY <1>2 DEF IsTile
<1> QED BY <1>3, <1>4 DEF T

\* Lists of tiles, one after the other.
LEMMA FlatTiles ==
  ASSUME NEW m, NEW n, NEW h \in Nat \ {0}, NEW seqs, DOMAIN seqs = 1 .. h,
         seqs = [x \in 1 .. h |-> seqs[x]], \A x \in 1 .. h : Tiles(seqs[x], m, n)
  PROVE  /\ Tiles(FlattenSeq(seqs), m, n)
         /\ \A x \in 1 .. h : \A row, col : Covered(seqs[x], row, col) => Covered(FlattenSeq(seqs), row, col)
<1> DEFINE flat == FlattenSeq(seqs)
<1>1. \A x \in 1 .. h : seqs[x] \in Seq(Seq(Accesses)) /\ Len(seqs[x]) \in Nat /\ Len(seqs[x]) > 0
  <2> SUFFICES ASSUME NEW x \in 1 .. h
               PROVE  seqs[x] \in Seq(Seq(Accesses)) /\ Len(seqs[x]) \in Nat /\ Len(seqs[x]) > 0
    OBVIOUS
  <2> DEFINE s == seqs[x]
  <2>1. s \in Seq(Seq(Accesses)) /\ s # <<>>
    BY DEF Tiles
  <2> HIDE DEF s
  <2>2. Len(s) \in Nat /\ Len(s) > 0
    BY <2>1
  <2> QED BY <2>1, <2>2 DEF s
<1>2. seqs \in Seq(Seq(Seq(Accesses))) /\ Len(seqs) = h
  BY <1>1
<1>3. seqs # <<>>
  <2>1. Len(<<>>) = 0 /\ Len(seqs) # 0
    BY <1>2
  <2> QED BY <2>1
<1>4. flat \in Seq(Seq(Accesses)) /\ \E at : Laid(flat, seqs, at)
  BY <1>2, <1>3, Flattened
<1>5. PICK at : Laid(flat, seqs, at)
  BY <1>4
<1> HIDE DEF flat
<1>6. /\ at \in [1 .. h + 1 -> Nat]
      /\ \A x \in 1 .. h : at[x + 1] = at[x] + Len(seqs[x]) /\ at[x + 1] <= Len(flat)
      /\ \A x \in 1 .. h, y \in Nat : y \in 1 .. Len(seqs[x]) => flat[at[x] + y] = seqs[x][y]
      /\ \A z \in 1 .. Len(flat) : \E x \in 1 .. h, y \in Nat :
           y \in 1 .. Len(seqs[x]) /\ z = at[x] + y
  BY <1>2, <1>5 DEF Laid
<1>7. ASSUME NEW x \in 1 .. h, NEW y \in 1 .. Len(seqs[x])
      PROVE  at[x] + y \in 1 .. Len(flat) /\ flat[at[x] + y] = seqs[x][y]
  <2>1. at[x] \in Nat /\ at[x + 1] = at[x] + Len(seqs[x]) /\ at[x + 1] <= Len(flat)
    BY <1>6
  <2>2. Len(seqs[x]) \in Nat /\ Len(flat) \in Nat /\ y \in Nat
    BY <1>1, <1>4
  <2>3. at[x] + y \in 1 .. Len(flat)
    BY <2>1, <2>2
  <2> QED BY <2>2, <2>3, <1>6
<1>8. ASSUME NEW z \in 1 .. Len(flat)
      PROVE  IsTile(flat[z], m, n)
  <2>1. PICK x \in 1 .. h, y \in Nat : y \in 1 .. Len(seqs[x]) /\ z = at[x] + y
    BY <1>6
  <2>2. flat[z] = seqs[x][y]
    BY <2>1, <1>7
  <2>3. IsTile(seqs[x][y], m, n)
    BY <2>1 DEF Tiles
  <2> QED BY <2>2, <2>3
<1>9. flat # <<>>
  <2>1. 1 \in 1 .. h /\ 1 \in 1 .. Len(seqs[1])
    BY <1>1
  <2>2. at[1] + 1 \in 1 .. Len(flat)
    BY <2>1, <1>7
  <2>3. Len(flat) # 0 /\ Len(<<>>) = 0
    <3>1. 1 .. Len(flat) # {}
      BY <2>2
    <3> QED BY <3>1
  <2> QED BY <2>3
<1>10. ASSUME NEW x \in 1 .. h, NEW row, NEW col, Covered(seqs[x], row, col)
       PROVE  Covered(flat, row, col)
  <2>1. PICK y \in 1 .. Len(seqs[x]) : Touches(seqs[x][y], row, col)
    BY <1>10 DEF Covered
  <2>2. at[x] + y \in 1 .. Len(flat) /\ flat[at[x] + y] = seqs[x][y]
    BY <1>7
  <2> QED BY <2>1, <2>2 DEF Covered
<1> QED BY <1>4, <1>8, <1>9, <1>10 DEF Tiles, flat

\* Two lists of tiles.
LEMMA JoinedTiles ==
  ASSUME NEW m, NEW n, NEW P, NEW Q, Tiles(P, m, n), Tiles(Q, m, n)
  PROVE  /\ Tiles(P \o Q, m, n)
         /\ \A row, col : Covered(P, row, col) \/ Covered(Q, row, col) => Covered(P \o Q, row, col)
<1> DEFINE R == P \o Q
<1>1. P \in Seq(Seq(Accesses)) /\ Q \in Seq(Seq(Accesses)) /\ P # <<>>
  BY DEF Tiles
<1>2. /\ R \in Seq(Seq(Accesses)) /\ Len(P) \in Nat /\ Len(Q) \in Nat
      /\ Len(R) = Len(P) + Len(Q)
      /\ \A x \in 1 .. Len(P) : R[x] = P[x]
      /\ \A y \in Nat : y \in 1 .. Len(Q) => R[Len(P) + y] = Q[y]
  <2>1. \A s, r \in Seq(Seq(Accesses)) :
           /\ s \o r \in Seq(Seq(Accesses)) /\ Len(s) \in Nat /\ Len(r) \in Nat
           /\ Len(s \o r) = Len(s) + Len(r)
           /\ \A x \in 1 .. Len(s) : (s \o r)[x] = s[x]
           /\ \A y \in Nat : y \in 1 .. Len(r) => (s \o r)[Len(s) + y] = r[y]
    BY Concatenated
  <2> QED BY <2>1, <1>1
<1> HIDE DEF R
<1>3. R # <<>>
  <2>1. Len(P) > 0
    BY <1>1
  <2>2. Len(<<>>) = 0 /\ Len(R) # 0
    BY <2>1, <1>2
  <2> QED BY <2>2
<1>4. ASSUME NEW z \in 1 .. Len(R)
      PROVE  IsTile(R[z], m, n)
  <2>1. CASE z <= Len(P)
    <3>1. z \in 1 .. Len(P)
      BY <2>1, <1>2
    <3> QED BY <3>1, <1>2 DEF Tiles
  <2>2. CASE z > Len(P)
    <3> DEFINE y == z - Len(P)
    <3>1. y \in Nat /\ y \in 1 .. Len(Q) /\ z = Len(P) + y
      BY <2>2, <1>2
    <3> HIDE DEF y
    <3>2. R[z] = Q[y]
      BY <3>1, <1>2
    <3> QED BY <3>1, <3>2 DEF Tiles
  <2>3. z <= Len(P) \/ z > Len(P)
    BY <1>2
  <2> QED BY <2>1, <2>2, <2>3
<1>5. ASSUME NEW row, NEW col, Covered(P, row, col)
      PROVE  Covered(R, row, col)
  <2>1. PICK x \in 1 .. Len(P) : Touches(P[x], row, col)
    BY <1>5 DEF Covered
  <2>2. x \in 1 .. Len(R) /\ R[x] = P[x]
    BY <1>2
  <2> QED BY <2>1, <2>2 DEF Covered
<1>6. ASSUME NEW row, NEW col, Covered(Q, row, col)
      PROVE  Covered(R, row, col)
  <2>1. PICK y \in 1 .. Len(Q) : Touches(Q[y], row, col)
    BY <1>6 DEF Covered
  <2> DEFINE x == Len(P) + y
  <2>2. x \in 1 .. Len(R) /\ R[x] = Q[y]
    BY <1>2
  <2> HIDE DEF x
  <2> QED BY <2>1, <2>2 DEF Covered
<1> QED BY <1>2, <1>3, <1>4, <1>5, <1>6 DEF Tiles, R

\* P lists the tiles f[1] to f[w].
Lists(P, f, w, m, n) ==
  /\ Tiles(P, m, n)
  /\ \A y \in 1 .. w : \A row, col : Touches(f[y], row, col) => Covered(P, row, col)

\* P lists the tiles f[1][1] to f[h][w].
ListsAll(P, f, h, w, m, n) ==
  /\ Tiles(P, m, n)
  /\ \A x \in 1 .. h, y \in 1 .. w : \A row, col : Touches(f[x][y], row, col) => Covered(P, row, col)

\* The tiles of one loop.
LEMMA RowOfTiles ==
  ASSUME NEW m, NEW n, NEW w \in Nat \ {0}, NEW f, \A y \in 1 .. w : IsTile(f[y], m, n)
  PROVE  Lists(FlattenSeq([y \in 1 .. w |-> <<f[y]>>]), f, w, m, n)
<1> DEFINE seqs == [y \in 1 .. w |-> <<f[y]>>]
           P == FlattenSeq(seqs)
<1>1. ASSUME NEW T, IsTile(T, m, n)
      PROVE  /\ Tiles(<<T>>, m, n)
             /\ \A row, col : Touches(T, row, col) => Covered(<<T>>, row, col)
  <2>1. T \in Seq(Accesses)
    BY <1>1 DEF IsTile, Sound
  <2>2. <<T>> \in Seq(Seq(Accesses)) /\ Len(<<T>>) = 1 /\ <<T>>[1] = T /\ <<T>> # <<>>
    BY <2>1
  <2>3. \A x \in 1 .. Len(<<T>>) : x = 1
    BY <2>2
  <2>4. Tiles(<<T>>, m, n)
    BY <2>2, <2>3, <1>1 DEF Tiles
  <2>5. 1 \in 1 .. Len(<<T>>)
    BY <2>2
  <2> QED BY <2>2, <2>4, <2>5 DEF Covered
<1>2. \A y \in 1 .. w : seqs[y] = <<f[y]>>
  OBVIOUS
<1>3. DOMAIN seqs = 1 .. w /\ seqs = [y \in 1 .. w |-> seqs[y]]
  OBVIOUS
<1> HIDE DEF seqs
<1>4. \A y \in 1 .. w : Tiles(seqs[y], m, n)
  BY <1>1, <1>2
<1>5. /\ Tiles(P, m, n)
      /\ \A y \in 1 .. w : \A row, col : Covered(seqs[y], row, col) => Covered(P, row, col)
  BY <1>3, <1>4, FlatTiles
<1> HIDE DEF P
<1>6. ASSUME NEW y \in 1 .. w, NEW row, NEW col, Touches(f[y], row, col)
      PROVE  Covered(P, row, col)
  <2>1. Covered(seqs[y], row, col)
    BY <1>1, <1>2, <1>6
  <2> QED BY <2>1, <1>5
<1> QED BY <1>5, <1>6 DEF Lists, P, seqs

\* The tiles of two loops.
LEMMA GridOfTiles ==
  ASSUME NEW m, NEW n, NEW h \in Nat \ {0}, NEW w \in Nat \ {0}, NEW f,
         \A x \in 1 .. h, y \in 1 .. w : IsTile(f[x][y], m, n)
  PROVE  ListsAll(FlattenSeq([x \in 1 .. h |-> FlattenSeq([y \in 1 .. w |-> <<f[x][y]>>])]), f, h, w, m, n)
<1> DEFINE Row(x) == FlattenSeq([y \in 1 .. w |-> <<f[x][y]>>])
           seqs == [x \in 1 .. h |-> Row(x)]
           P == FlattenSeq(seqs)
<1>1. ASSUME NEW x \in 1 .. h
      PROVE  /\ Tiles(Row(x), m, n)
             /\ \A y \in 1 .. w : \A row, col : Touches(f[x][y], row, col) => Covered(Row(x), row, col)
  <2> DEFINE g == f[x]
  <2>1. \A y \in 1 .. w : IsTile(g[y], m, n)
    OBVIOUS
  <2> HIDE DEF g
  <2>2. Lists(FlattenSeq([y \in 1 .. w |-> <<g[y]>>]), g, w, m, n)
    BY <2>1, RowOfTiles
  <2> QED BY <2>2 DEF Lists, g
<1> HIDE DEF Row
<1>2. \A x \in 1 .. h : seqs[x] = Row(x)
  OBVIOUS
<1>3. DOMAIN seqs = 1 .. h /\ seqs = [x \in 1 .. h |-> seqs[x]]
  OBVIOUS
<1> HIDE DEF seqs
<1>4. \A x \in 1 .. h : Tiles(seqs[x], m, n)
  BY <1>1, <1>2
<1>5. /\ Tiles(P, m, n)
      /\ \A x \in 1 .. h : \A row, col : Covered(seqs[x], row, col) => Covered(P, row, col)
  BY <1>3, <1>4, FlatTiles
<1> HIDE DEF P
<1>6. ASSUME NEW x \in 1 .. h, NEW y \in 1 .. w, NEW row, NEW col, Touches(f[x][y], row, col)
      PROVE  Covered(P, row, col)
  <2>1. Covered(seqs[x], row, col)
    BY <1>1, <1>2, <1>6
  <2> QED BY <2>1, <1>5
<1> QED BY <1>5, <1>6 DEF ListsAll, P, seqs, Row

-----------------------------------------------------------------------------
(* The sizes.                                                               *)

Grid(f, h, w) == FlattenSeq([x \in 1 .. h |-> FlattenSeq([y \in 1 .. w |-> <<f[x][y]>>])])

\* P transposes the first c columns of A in its first r rows.
Transposes(P, m, n, c, r) ==
  Tiles(P, m, n) /\ \A row \in 0 .. c - 1, col \in 0 .. r - 1 : Covered(P, row, col)

\* T turns the tile of s x s from (i, j) of A on, as far as A goes.
Fills(T, i, j, s, m, n) ==
  \A row \in 0 .. m - 1, col \in 0 .. n - 1 :
    j <= row /\ row < j + s /\ i <= col /\ col < i + s => Touches(T, row, col)

\* h x w such tiles, which are enough.
Gridded(f, h, w, s, m, n, c, r) ==
  /\ r <= h * s /\ c <= w * s /\ c <= m /\ r <= n
  /\ \A x \in 1 .. h, y \in 1 .. w :
       IsTile(f[x][y], m, n) /\ Fills(f[x][y], (x - 1) * s, (y - 1) * s, s, m, n)

\* Tiles of one size that cover all.
LEMMA GridCovers ==
  ASSUME NEW m \in Nat \ {0}, NEW n \in Nat \ {0}, NEW s \in Nat \ {0}, NEW h \in Nat \ {0},
         NEW w \in Nat \ {0}, NEW f, NEW c \in Nat, NEW r \in Nat, Gridded(f, h, w, s, m, n, c, r)
  PROVE  Transposes(Grid(f, h, w), m, n, c, r)
<1> DEFINE P == Grid(f, h, w)
<1>1. ListsAll(P, f, h, w, m, n)
  <2>1. \A x \in 1 .. h, y \in 1 .. w : IsTile(f[x][y], m, n)
    BY DEF Gridded
  <2> QED BY <2>1, GridOfTiles DEF Grid
<1> HIDE DEF P
<1>2. ASSUME NEW k \in Nat \ {0}, NEW a \in Nat, a < k * s
      PROVE  \E x \in 1 .. k : (x - 1) * s <= a /\ a < (x - 1) * s + s
  <2> DEFINE q == a \div s
  <2>1. q \in Nat /\ q * s <= a /\ a < q * s + s
    <3>1. q \in Int /\ a = s * q + (a % s) /\ a % s \in 0 .. s - 1
      BY <1>2
    <3> QED BY <3>1
  <2> HIDE DEF q
  <2>2. q < k
    <3>1. ASSUME k <= q
          PROVE  k * s <= q * s
      <4>1. \E d \in Nat : q = k + d
        <5>1. q - k \in Nat /\ q = k + (q - k)
          BY <3>1, <2>1
        <5> QED BY <5>1
      <4>2. PICK d \in Nat : q = k + d
        BY <4>1
      <4>3. q * s = k * s + d * s /\ d * s \in Nat
        BY <4>2
      <4> QED BY <4>3
    <3> QED BY <3>1, <2>1, <1>2
  <2>3. q + 1 \in 1 .. k /\ (q + 1) - 1 = q
    BY <2>1, <2>2
  <2> QED BY <2>1, <2>3
<1>3. ASSUME NEW row \in 0 .. c - 1, NEW col \in 0 .. r - 1
      PROVE  Covered(P, row, col)
  <2>0. row \in 0 .. m - 1 /\ col \in 0 .. n - 1
    BY DEF Gridded
  <2>1. PICK y \in 1 .. w : (y - 1) * s <= row /\ row < (y - 1) * s + s
    <3>1. row \in Nat /\ row < w * s
      BY DEF Gridded
    <3> QED BY <3>1, <1>2
  <2>2. PICK x \in 1 .. h : (x - 1) * s <= col /\ col < (x - 1) * s + s
    <3>1. col \in Nat /\ col < h * s
      BY DEF Gridded
    <3> QED BY <3>1, <1>2
  <2>3. Touches(f[x][y], row, col)
    <3>1. Fills(f[x][y], (x - 1) * s, (y - 1) * s, s, m, n)
      BY DEF Gridded
    <3> QED BY <3>1, <2>0, <2>1, <2>2 DEF Fills
  <2> QED BY <2>3, <1>1 DEF ListsAll
<1> QED BY <1>1, <1>3 DEF ListsAll, Transposes, P

\* A tile of 8 x 8, or what A has of it.
Whole(i, e, j, w, m, n) ==
  i < e /\ e <= n /\ j + w <= m /\ (e = i + 8 \/ e = n) /\ (w = 8 \/ j + w = m)

\* A tile of rows.
LEMMA StripFills ==
  ASSUME NEW m \in Nat, NEW n \in Nat, NEW i \in Nat, NEW e \in Nat, NEW j \in Nat, NEW w \in 1 .. 8,
         Whole(i, e, j, w, m, n)
  PROVE  IsTile(Strip(i, e, j, w), m, n) /\ Fills(Strip(i, e, j, w), i, j, 8, m, n)
<1>1. IsTile(Strip(i, e, j, w), m, n) /\ Strips(Strip(i, e, j, w), i, e, j, w)
  BY RowsTile DEF Whole
<1>2. ASSUME NEW row \in 0 .. m - 1, NEW col \in 0 .. n - 1,
             j <= row, row < j + 8, i <= col, col < i + 8
      PROVE  Touches(Strip(i, e, j, w), row, col)
  <2>1. row \in j .. j + w - 1 /\ col \in i .. e - 1
    BY <1>2 DEF Whole
  <2> QED BY <1>1, <2>1 DEF Strips
<1> QED BY <1>1, <1>2 DEF Fills

\* 32 x 32.
LEMMA Tiles8Transpose == Transposes(Tiles8(32, 32), 32, 32, 32, 32)
<1> DEFINE T(i, j) == Strip(i, i + 8, j, 8)
           f == [x \in 1 .. 4 |-> [y \in 1 .. 4 |-> T(0 + (x - 1) * 8, 0 + (y - 1) * 8)]]
<1>1. Tiles8(32, 32) =
        FlattenSeq([x \in 1 .. (32 - 0 + 8 - 1) \div 8 |->
          FlattenSeq([y \in 1 .. (32 - 0 + 8 - 1) \div 8 |-> <<T(0 + (x - 1) * 8, 0 + (y - 1) * 8)>>])])
  BY DEF Tiles8, For, Strip
<1> HIDE DEF f
<1>2. ASSUME NEW x \in 1 .. 4, NEW y \in 1 .. 4
      PROVE  /\ IsTile(T(0 + (x - 1) * 8, 0 + (y - 1) * 8), 32, 32)
             /\ Fills(T(0 + (x - 1) * 8, 0 + (y - 1) * 8), (x - 1) * 8, (y - 1) * 8, 8, 32, 32)
  <2> DEFINE i == 0 + (x - 1) * 8
             j == 0 + (y - 1) * 8
             e == i + 8
  <2>1. /\ i \in Nat /\ j \in Nat /\ i < e /\ e <= 32 /\ j + 8 <= 32 /\ e \in Nat
        /\ i = (x - 1) * 8 /\ j = (y - 1) * 8 /\ e = i + 8
    OBVIOUS
  <2>2. T(i, j) = Strip(i, e, j, 8)
    BY DEF T, e
  <2> HIDE DEF i, j, e, T
  <2>3. 8 \in 1 .. 8 /\ 32 \in Nat /\ Whole(i, e, j, 8, 32, 32)
    BY <2>1 DEF Whole
  <2>4. IsTile(Strip(i, e, j, 8), 32, 32) /\ Fills(Strip(i, e, j, 8), i, j, 8, 32, 32)
    BY <2>1, <2>3, StripFills
  <2>5. IsTile(T(i, j), 32, 32) /\ Fills(T(i, j), (x - 1) * 8, (y - 1) * 8, 8, 32, 32)
    BY <2>1, <2>2, <2>4
  <2> QED BY <2>5 DEF i, j
<1> USE DEF f
<1> HIDE DEF T
<1>3. Tiles8(32, 32) = Grid(f, 4, 4)
  <2>1. (32 - 0 + 8 - 1) \div 8 = 4
    OBVIOUS
  <2>2. ASSUME NEW x \in 1 .. 4
        PROVE  [y \in 1 .. 4 |-> <<T(0 + (x - 1) * 8, 0 + (y - 1) * 8)>>] = [y \in 1 .. 4 |-> <<f[x][y]>>]
    OBVIOUS
  <2> HIDE DEF f
  <2>3. [x \in 1 .. 4 |-> FlattenSeq([y \in 1 .. 4 |-> <<T(0 + (x - 1) * 8, 0 + (y - 1) * 8)>>])]
          = [x \in 1 .. 4 |-> FlattenSeq([y \in 1 .. 4 |-> <<f[x][y]>>])]
    BY <2>2, Zenon
  <2>4. Tiles8(32, 32) =
        FlattenSeq([x \in 1 .. 4 |->
          FlattenSeq([y \in 1 .. 4 |-> <<T(0 + (x - 1) * 8, 0 + (y - 1) * 8)>>])])
    BY <1>1, <2>1
  <2> QED BY <2>3, <2>4, Zenon DEF Grid
<1>4. ASSUME NEW x \in 1 .. 4, NEW y \in 1 .. 4
      PROVE  f[x][y] = T(0 + (x - 1) * 8, 0 + (y - 1) * 8)
  OBVIOUS
<1> HIDE DEF f
<1>5. \A x \in 1 .. 4, y \in 1 .. 4 :
        IsTile(f[x][y], 32, 32) /\ Fills(f[x][y], (x - 1) * 8, (y - 1) * 8, 8, 32, 32)
  BY <1>2, <1>4
<1>6. Transposes(Grid(f, 4, 4), 32, 32, 32, 32)
  <2>1. Gridded(f, 4, 4, 8, 32, 32, 32, 32)
    BY <1>5 DEF Gridded
  <2> QED BY <2>1, GridCovers
<1> QED BY <1>3, <1>6

\* A tile in quarters.
Quarters(i, j) == Upper(i, j) \o Left(i, j) \o Lower(i, j)

LEMMA QuartersFills ==
  ASSUME NEW m \in Nat, NEW n \in Nat, NEW i \in Nat, NEW j \in Nat, i + 8 <= n, j + 8 <= m
  PROVE  IsTile(Quarters(i, j), m, n) /\ Fills(Quarters(i, j), i, j, 8, m, n)
<1>1. /\ IsTile(Quarters(i, j), m, n)
      /\ \A row \in j .. j + 7, col \in i .. i + 7 : Touches(Quarters(i, j), row, col)
  BY QuartersTile DEF Quarters
<1>2. ASSUME NEW row \in 0 .. m - 1, NEW col \in 0 .. n - 1,
             j <= row, row < j + 8, i <= col, col < i + 8
      PROVE  Touches(Quarters(i, j), row, col)
  <2>1. row \in j .. j + 7 /\ col \in i .. i + 7
    BY <1>2
  <2> QED BY <1>1, <2>1
<1> QED BY <1>1, <1>2 DEF Fills

\* 64 x 64, and the part of 61 x 168 that goes in tiles.
LEMMA QuartersGrid ==
  ASSUME NEW m \in Nat \ {0}, NEW n \in Nat \ {0}, NEW h \in Nat \ {0}, NEW w \in Nat \ {0},
         w * 8 <= m, h * 8 <= n
  PROVE  Transposes(TilesInQuarters(w * 8, h * 8), m, n, w * 8, h * 8)
<1> DEFINE c == w * 8
           r == h * 8
           f == [x \in 1 .. h |-> [y \in 1 .. w |-> Quarters(0 + (x - 1) * 8, 0 + (y - 1) * 8)]]
<1> HIDE DEF f
<1>1. TilesInQuarters(c, r) =
        FlattenSeq([x \in 1 .. (r - 0 + 8 - 1) \div 8 |->
          FlattenSeq([y \in 1 .. (c - 0 + 8 - 1) \div 8 |-> <<Quarters(0 + (x - 1) * 8, 0 + (y - 1) * 8)>>])])
  BY DEF TilesInQuarters, For, Quarters
<1>2. ASSUME NEW x \in 1 .. h, NEW y \in 1 .. w
      PROVE  /\ IsTile(Quarters(0 + (x - 1) * 8, 0 + (y - 1) * 8), m, n)
             /\ Fills(Quarters(0 + (x - 1) * 8, 0 + (y - 1) * 8), (x - 1) * 8, (y - 1) * 8, 8, m, n)
  <2> DEFINE i == 0 + (x - 1) * 8
             j == 0 + (y - 1) * 8
  <2>1. /\ i \in Nat /\ j \in Nat /\ i + 8 <= n /\ j + 8 <= m
        /\ i = (x - 1) * 8 /\ j = (y - 1) * 8
    OBVIOUS
  <2> HIDE DEF i, j
  <2>2. IsTile(Quarters(i, j), m, n) /\ Fills(Quarters(i, j), i, j, 8, m, n)
    BY <2>1, QuartersFills
  <2>3. IsTile(Quarters(i, j), m, n) /\ Fills(Quarters(i, j), (x - 1) * 8, (y - 1) * 8, 8, m, n)
    BY <2>1, <2>2
  <2> QED BY <2>3 DEF i, j
<1>3. TilesInQuarters(c, r) = Grid(f, h, w)
  <2>1. (r - 0 + 8 - 1) \div 8 = h /\ (c - 0 + 8 - 1) \div 8 = w
    OBVIOUS
  <2>2. ASSUME NEW x \in 1 .. h
        PROVE  [y \in 1 .. w |-> <<Quarters(0 + (x - 1) * 8, 0 + (y - 1) * 8)>>]
                 = [y \in 1 .. w |-> <<f[x][y]>>]
    BY DEF f
  <2>3. [x \in 1 .. h |-> FlattenSeq([y \in 1 .. w |-> <<Quarters(0 + (x - 1) * 8, 0 + (y - 1) * 8)>>])]
          = [x \in 1 .. h |-> FlattenSeq([y \in 1 .. w |-> <<f[x][y]>>])]
    BY <2>2, Zenon
  <2>4. TilesInQuarters(c, r) =
        FlattenSeq([x \in 1 .. h |->
          FlattenSeq([y \in 1 .. w |-> <<Quarters(0 + (x - 1) * 8, 0 + (y - 1) * 8)>>])])
    BY <1>1, <2>1
  <2> QED BY <2>3, <2>4, Zenon DEF Grid
<1>4. ASSUME NEW x \in 1 .. h, NEW y \in 1 .. w
      PROVE  f[x][y] = Quarters(0 + (x - 1) * 8, 0 + (y - 1) * 8)
  BY DEF f
<1>5. \A x \in 1 .. h, y \in 1 .. w :
        IsTile(f[x][y], m, n) /\ Fills(f[x][y], (x - 1) * 8, (y - 1) * 8, 8, m, n)
  BY <1>2, <1>4
<1>6. Transposes(Grid(f, h, w), m, n, c, r)
  <2>1. Gridded(f, h, w, 8, m, n, c, r) /\ c \in Nat /\ r \in Nat
    BY <1>5 DEF Gridded
  <2> HIDE DEF c, r
  <2> QED BY <2>1, GridCovers
<1> QED BY <1>3, <1>6

\* 61 x 67: the last tiles are as wide and as high as A has columns and rows left.
LEMMA RaggedTranspose == Transposes(RaggedTiles(61, 67), 61, 67, 61, 67)
<1> DEFINE Until(i) == IF i + 8 < 67 THEN i + 8 ELSE 67
           T(i, j) == Strip(i, Until(i), j, Width(j))
           f == [x \in 1 .. 9 |-> [y \in 1 .. 8 |-> T(0 + (x - 1) * 8, 0 + (y - 1) * 8)]]
<1>1. RaggedTiles(61, 67) =
        FlattenSeq([x \in 1 .. (67 - 0 + 8 - 1) \div 8 |->
          FlattenSeq([y \in 1 .. (61 - 0 + 8 - 1) \div 8 |-> <<T(0 + (x - 1) * 8, 0 + (y - 1) * 8)>>])])
  BY DEF RaggedTiles, For, Strip
<1> HIDE DEF f
<1>2. ASSUME NEW x \in 1 .. 9, NEW y \in 1 .. 8
      PROVE  /\ IsTile(T(0 + (x - 1) * 8, 0 + (y - 1) * 8), 61, 67)
             /\ Fills(T(0 + (x - 1) * 8, 0 + (y - 1) * 8), (x - 1) * 8, (y - 1) * 8, 8, 61, 67)
  <2> DEFINE i == 0 + (x - 1) * 8
             j == 0 + (y - 1) * 8
             e == Until(i)
             v == Width(j)
  <2>1. /\ i \in Nat /\ j \in Nat /\ i < 67 /\ j < 61 /\ i = (x - 1) * 8 /\ j = (y - 1) * 8
    OBVIOUS
  <2>2. i < e /\ e <= 67 /\ e \in Nat /\ (e = i + 8 \/ e = 67)
    <3> HIDE DEF i
    <3> QED BY <2>1
  <2>3. v \in 1 .. 8 /\ j + v <= 61 /\ (v = 8 \/ j + v = 61)
    <3>1. j \in {0, 8, 16, 24, 32, 40, 48, 56}
      OBVIOUS
    <3> HIDE DEF j
    <3> QED BY <2>1, <3>1 DEF Width
  <2>4. T(i, j) = Strip(i, e, j, v)
    BY DEF T, e, v
  <2> HIDE DEF i, j, e, v, T, Until
  <2>5. /\ 67 \in Nat /\ 61 \in Nat /\ i \in Nat /\ e \in Nat /\ j \in Nat /\ v \in 1 .. 8
        /\ Whole(i, e, j, v, 61, 67)
    BY <2>1, <2>2, <2>3 DEF Whole
  <2>6. IsTile(Strip(i, e, j, v), 61, 67) /\ Fills(Strip(i, e, j, v), i, j, 8, 61, 67)
    BY <2>5, StripFills, Zenon
  <2>7. IsTile(T(i, j), 61, 67) /\ Fills(T(i, j), (x - 1) * 8, (y - 1) * 8, 8, 61, 67)
    BY <2>1, <2>4, <2>6
  <2> QED BY <2>7 DEF i, j
<1> HIDE DEF T
<1>3. RaggedTiles(61, 67) = Grid(f, 9, 8)
  <2>1. (67 - 0 + 8 - 1) \div 8 = 9 /\ (61 - 0 + 8 - 1) \div 8 = 8
    OBVIOUS
  <2>2. ASSUME NEW x \in 1 .. 9
        PROVE  [y \in 1 .. 8 |-> <<T(0 + (x - 1) * 8, 0 + (y - 1) * 8)>>] = [y \in 1 .. 8 |-> <<f[x][y]>>]
    BY DEF f
  <2>3. [x \in 1 .. 9 |-> FlattenSeq([y \in 1 .. 8 |-> <<T(0 + (x - 1) * 8, 0 + (y - 1) * 8)>>])]
          = [x \in 1 .. 9 |-> FlattenSeq([y \in 1 .. 8 |-> <<f[x][y]>>])]
    BY <2>2, Zenon
  <2>4. RaggedTiles(61, 67) =
        FlattenSeq([x \in 1 .. 9 |->
          FlattenSeq([y \in 1 .. 8 |-> <<T(0 + (x - 1) * 8, 0 + (y - 1) * 8)>>])])
    BY <1>1, <2>1
  <2> QED BY <2>3, <2>4, Zenon DEF Grid
<1>4. ASSUME NEW x \in 1 .. 9, NEW y \in 1 .. 8
      PROVE  f[x][y] = T(0 + (x - 1) * 8, 0 + (y - 1) * 8)
  BY DEF f
<1>5. \A x \in 1 .. 9, y \in 1 .. 8 :
        IsTile(f[x][y], 61, 67) /\ Fills(f[x][y], (x - 1) * 8, (y - 1) * 8, 8, 61, 67)
  BY <1>2, <1>4
<1>6. Transposes(Grid(f, 9, 8), 61, 67, 61, 67)
  <2>1. Gridded(f, 9, 8, 8, 61, 67, 61, 67)
    <3>1. 67 <= 9 * 8 /\ 61 <= 8 * 8 /\ 61 <= 61 /\ 67 <= 67
      OBVIOUS
    <3> QED BY <3>1, <1>5, Zenon DEF Gridded
  <2> QED BY <2>1, GridCovers
<1> QED BY <1>3, <1>6

\* One element.
LEMMA OneFills ==
  ASSUME NEW m \in Nat, NEW n \in Nat, NEW i \in Nat, NEW j \in Nat, i < n, j < m
  PROVE  IsTile(RowToColumn(i, j, 1), m, n) /\ Fills(RowToColumn(i, j, 1), i, j, 1, m, n)
<1>1. 1 \in 1 .. 8 /\ j + 1 <= m
  OBVIOUS
<1> DEFINE v == 1
           T == RowToColumn(i, j, v)
<1>2. IsTile(T, m, n) /\ \A row \in j .. j + v - 1 : Touches(T, row, i)
  <2> HIDE DEF v
  <2>1. v \in 1 .. 8 /\ j + v <= m
    BY <1>1 DEF v
  <2> QED BY <2>1, RowTile
<1> HIDE DEF T
<1>3. ASSUME NEW row \in 0 .. m - 1, NEW col \in 0 .. n - 1,
             j <= row, row < j + 1, i <= col, col < i + 1
      PROVE  Touches(T, row, col)
  <2>1. row \in j .. j + v - 1 /\ col = i
    BY <1>3
  <2> QED BY <1>2, <2>1
<1> QED BY <1>2, <1>3 DEF Fills, T

\* Every other size.
LEMMA OneByOneTranspose ==
  ASSUME NEW m \in Nat \ {0}, NEW n \in Nat \ {0}
  PROVE  Transposes(OneByOne(m, n), m, n, m, n)
<1> DEFINE f == [x \in 1 .. n |-> [y \in 1 .. m |-> RowToColumn(0 + (x - 1) * 1, 0 + (y - 1) * 1, 1)]]
<1> HIDE DEF f
<1>1. OneByOne(m, n) =
        FlattenSeq([x \in 1 .. (n - 0 + 1 - 1) \div 1 |->
          FlattenSeq([y \in 1 .. (m - 0 + 1 - 1) \div 1 |-> <<RowToColumn(0 + (x - 1) * 1, 0 + (y - 1) * 1, 1)>>])])
  BY DEF OneByOne, For
<1>2. ASSUME NEW x \in 1 .. n, NEW y \in 1 .. m
      PROVE  /\ IsTile(RowToColumn(0 + (x - 1) * 1, 0 + (y - 1) * 1, 1), m, n)
             /\ Fills(RowToColumn(0 + (x - 1) * 1, 0 + (y - 1) * 1, 1), (x - 1) * 1, (y - 1) * 1, 1, m, n)
  <2> DEFINE i == 0 + (x - 1) * 1
             j == 0 + (y - 1) * 1
  <2>1. /\ i \in Nat /\ j \in Nat /\ i < n /\ j < m
        /\ i = (x - 1) * 1 /\ j = (y - 1) * 1
    OBVIOUS
  <2> HIDE DEF i, j
  <2>2. IsTile(RowToColumn(i, j, 1), m, n) /\ Fills(RowToColumn(i, j, 1), i, j, 1, m, n)
    BY <2>1, OneFills
  <2>3. IsTile(RowToColumn(i, j, 1), m, n) /\ Fills(RowToColumn(i, j, 1), (x - 1) * 1, (y - 1) * 1, 1, m, n)
    BY <2>1, <2>2
  <2> QED BY <2>3 DEF i, j
<1>3. OneByOne(m, n) = Grid(f, n, m)
  <2>1. (n - 0 + 1 - 1) \div 1 = n /\ (m - 0 + 1 - 1) \div 1 = m
    OBVIOUS
  <2>2. ASSUME NEW x \in 1 .. n
        PROVE  [y \in 1 .. m |-> <<RowToColumn(0 + (x - 1) * 1, 0 + (y - 1) * 1, 1)>>]
                 = [y \in 1 .. m |-> <<f[x][y]>>]
    BY DEF f
  <2>3. [x \in 1 .. n |-> FlattenSeq([y \in 1 .. m |-> <<RowToColumn(0 + (x - 1) * 1, 0 + (y - 1) * 1, 1)>>])]
          = [x \in 1 .. n |-> FlattenSeq([y \in 1 .. m |-> <<f[x][y]>>])]
    BY <2>2, Zenon
  <2>4. OneByOne(m, n) =
        FlattenSeq([x \in 1 .. n |->
          FlattenSeq([y \in 1 .. m |-> <<RowToColumn(0 + (x - 1) * 1, 0 + (y - 1) * 1, 1)>>])])
    BY <1>1, <2>1
  <2> QED BY <2>3, <2>4, Zenon DEF Grid
<1>4. ASSUME NEW x \in 1 .. n, NEW y \in 1 .. m
      PROVE  f[x][y] = RowToColumn(0 + (x - 1) * 1, 0 + (y - 1) * 1, 1)
  BY DEF f
<1>5. \A x \in 1 .. n, y \in 1 .. m :
        IsTile(f[x][y], m, n) /\ Fills(f[x][y], (x - 1) * 1, (y - 1) * 1, 1, m, n)
  BY <1>2, <1>4
<1>6. Transposes(Grid(f, n, m), m, n, m, n)
  <2>1. Gridded(f, n, m, 1, m, n, m, n)
    BY <1>5 DEF Gridded
  <2> QED BY <2>1, GridCovers
<1> QED BY <1>3, <1>6

\* The loops that Quarters61 has for the rows and for the columns left over.
Column(j) == Each(3, LAMBDA t : ReadA(64 + t, j, t)) \o Each(3, LAMBDA t : WriteB(j, 64 + t, t))

LowerRows == For(0, 1, 61, LAMBDA j : <<Column(j)>>)

RightColumns == For(0, 1, 64, LAMBDA j : <<RowToColumn(j, 56, 5)>>)

\* Rows 64 to 66 of A.
LEMMA LowerRowsAre ==
  /\ Tiles(LowerRows, 61, 168)
  /\ \A row \in 0 .. 60, col \in 64 .. 66 : Covered(LowerRows, row, col)
<1> DEFINE f == [x \in 1 .. 61 |-> Column(0 + (x - 1) * 1)]
<1>1. LowerRows = FlattenSeq([x \in 1 .. (61 - 0 + 1 - 1) \div 1 |-> <<Column(0 + (x - 1) * 1)>>])
  BY DEF LowerRows, For
<1> HIDE DEF f
<1>2. LowerRows = FlattenSeq([x \in 1 .. 61 |-> <<f[x]>>])
  <2>1. (61 - 0 + 1 - 1) \div 1 = 61
    OBVIOUS
  <2>2. [x \in 1 .. 61 |-> <<Column(0 + (x - 1) * 1)>>] = [x \in 1 .. 61 |-> <<f[x]>>]
    BY DEF f
  <2>3. LowerRows = FlattenSeq([x \in 1 .. 61 |-> <<Column(0 + (x - 1) * 1)>>])
    BY <1>1, <2>1
  <2> QED BY <2>2, <2>3, Zenon
<1>3. ASSUME NEW x \in 1 .. 61
      PROVE  IsTile(f[x], 61, 168) /\ \A col \in 64 .. 66 : Touches(f[x], x - 1, col)
  <2> DEFINE j == 0 + (x - 1) * 1
  <2>1. j \in 0 .. 60 /\ j = x - 1 /\ f[x] = Column(j)
    BY DEF f
  <2> HIDE DEF j
  <2>2. IsTile(Column(j), 61, 168) /\ \A col \in 64 .. 66 : Touches(Column(j), j, col)
    BY <2>1, ColumnTile DEF Column
  <2> QED BY <2>1, <2>2
<1>4. Lists(LowerRows, f, 61, 61, 168)
  <2>1. 61 \in Nat \ {0}
    OBVIOUS
  <2> QED BY <1>2, <1>3, <2>1, RowOfTiles
<1>5. ASSUME NEW row \in 0 .. 60, NEW col \in 64 .. 66
      PROVE  Covered(LowerRows, row, col)
  <2> DEFINE x == row + 1
  <2>1. x \in 1 .. 61 /\ x - 1 = row
    OBVIOUS
  <2> HIDE DEF x
  <2>2. Touches(f[x], row, col)
    BY <2>1, <1>3
  <2> QED BY <2>1, <2>2, <1>4 DEF Lists
<1> QED BY <1>4, <1>5 DEF Lists

\* The columns of A from 56 on.
LEMMA RightColumnsAre ==
  /\ Tiles(RightColumns, 61, 168)
  /\ \A row \in 56 .. 60, col \in 0 .. 63 : Covered(RightColumns, row, col)
<1> DEFINE f == [x \in 1 .. 64 |-> RowToColumn(0 + (x - 1) * 1, 56, 5)]
<1>1. RightColumns = FlattenSeq([x \in 1 .. (64 - 0 + 1 - 1) \div 1 |-> <<RowToColumn(0 + (x - 1) * 1, 56, 5)>>])
  BY DEF RightColumns, For
<1> HIDE DEF f
<1>2. RightColumns = FlattenSeq([x \in 1 .. 64 |-> <<f[x]>>])
  <2>1. (64 - 0 + 1 - 1) \div 1 = 64
    OBVIOUS
  <2>2. [x \in 1 .. 64 |-> <<RowToColumn(0 + (x - 1) * 1, 56, 5)>>] = [x \in 1 .. 64 |-> <<f[x]>>]
    BY DEF f
  <2>3. RightColumns = FlattenSeq([x \in 1 .. 64 |-> <<RowToColumn(0 + (x - 1) * 1, 56, 5)>>])
    BY <1>1, <2>1
  <2> QED BY <2>2, <2>3, Zenon
<1>3. ASSUME NEW x \in 1 .. 64
      PROVE  IsTile(f[x], 61, 168) /\ \A row \in 56 .. 60 : Touches(f[x], row, x - 1)
  <2> DEFINE k == 0 + (x - 1) * 1
             j == 56
             w == 5
  <2>1. k \in Nat /\ k < 168 /\ k = x - 1 /\ f[x] = RowToColumn(k, j, w)
    BY DEF f
  <2>2. j \in Nat /\ w \in 1 .. 8 /\ j + w <= 61 /\ j .. j + w - 1 = 56 .. 60
    OBVIOUS
  <2> HIDE DEF k, j, w
  <2>3. /\ IsTile(RowToColumn(k, j, w), 61, 168)
        /\ \A row \in j .. j + w - 1 : Touches(RowToColumn(k, j, w), row, k)
    <3>1. 61 \in Nat /\ 168 \in Nat
      OBVIOUS
    <3> QED BY <3>1, <2>1, <2>2, RowTile
  <2> QED BY <2>1, <2>2, <2>3
<1>4. Lists(RightColumns, f, 64, 61, 168)
  <2>1. 64 \in Nat \ {0}
    OBVIOUS
  <2> QED BY <1>2, <1>3, <2>1, RowOfTiles
<1>5. ASSUME NEW row \in 56 .. 60, NEW col \in 0 .. 63
      PROVE  Covered(RightColumns, row, col)
  <2> DEFINE x == col + 1
  <2>1. x \in 1 .. 64 /\ x - 1 = col
    OBVIOUS
  <2> HIDE DEF x
  <2>2. Touches(f[x], row, col)
    BY <2>1, <1>3
  <2> QED BY <2>1, <2>2, <1>4 DEF Lists
<1> QED BY <1>4, <1>5 DEF Lists

\* 61 x 168, of which 67 rows are transposed.
LEMMA Quarters61Transpose == Transposes(Quarters61, 61, 168, 61, 67)
<1> DEFINE P == TilesInQuarters(56, 64)
<1>1. Quarters61 = P \o LowerRows \o RightColumns
  BY DEF Quarters61, LowerRows, RightColumns, Column
<1>2. Transposes(P, 61, 168, 56, 64)
  <2> DEFINE w == 7
             h == 8
             m == 61
             n == 168
  <2>1. /\ m \in Nat \ {0} /\ n \in Nat \ {0} /\ h \in Nat \ {0} /\ w \in Nat \ {0}
        /\ w * 8 = 56 /\ h * 8 = 64 /\ w * 8 <= m /\ h * 8 <= n
    OBVIOUS
  <2> HIDE DEF w, h, m, n
  <2>2. Transposes(TilesInQuarters(w * 8, h * 8), m, n, w * 8, h * 8)
    BY <2>1, QuartersGrid
  <2> QED BY <2>1, <2>2 DEF m, n
<1> HIDE DEF P
<1>3. Tiles(P, 61, 168) /\ \A row \in 0 .. 55, col \in 0 .. 63 : Covered(P, row, col)
  <2>1. Tiles(P, 61, 168) /\ \A row \in 0 .. 56 - 1, col \in 0 .. 64 - 1 : Covered(P, row, col)
    BY <1>2, Zenon DEF Transposes
  <2>2. 56 - 1 = 55 /\ 64 - 1 = 63
    OBVIOUS
  <2> QED BY <2>1, <2>2
<1>4. /\ Tiles(P \o LowerRows, 61, 168)
      /\ \A row, col : Covered(P, row, col) \/ Covered(LowerRows, row, col) => Covered(P \o LowerRows, row, col)
  BY <1>3, LowerRowsAre, JoinedTiles
<1>5. /\ Tiles(P \o LowerRows \o RightColumns, 61, 168)
      /\ \A row, col : Covered(P \o LowerRows, row, col) \/ Covered(RightColumns, row, col)
                         => Covered(P \o LowerRows \o RightColumns, row, col)
  BY <1>4, RightColumnsAre, JoinedTiles
<1>6. ASSUME NEW row \in 0 .. 61 - 1, NEW col \in 0 .. 67 - 1
      PROVE  Covered(P \o LowerRows \o RightColumns, row, col)
  <2>1. CASE col >= 64
    <3>1. row \in 0 .. 60 /\ col \in 64 .. 66
      BY <2>1
    <3>2. Covered(LowerRows, row, col)
      BY <3>1, LowerRowsAre
    <3> QED BY <3>2, <1>4, <1>5
  <2>2. CASE col < 64 /\ row >= 56
    <3>1. row \in 56 .. 60 /\ col \in 0 .. 63
      BY <2>2
    <3>2. Covered(RightColumns, row, col)
      BY <3>1, RightColumnsAre
    <3> QED BY <3>2, <1>5
  <2>3. CASE col < 64 /\ row < 56
    <3>1. row \in 0 .. 55 /\ col \in 0 .. 63
      BY <2>3
    <3>2. Covered(P, row, col)
      BY <3>1, <1>3
    <3> QED BY <3>2, <1>4, <1>5
  <2> QED BY <2>1, <2>2, <2>3
<1> QED BY <1>1, <1>5, <1>6 DEF Transposes

\* The columns of B that transpose_submit(m, n) writes.
Done(m, n) == IF m = 61 /\ n = 168 THEN 67 ELSE n

\* Whatever the size, the tiles are sound and reach every element.
LEMMA Submitted ==
  ASSUME NEW m \in 1 .. 256, NEW n \in 1 .. 256
  PROVE  Transposes(transpose_submit(m, n), m, n, m, Done(m, n))
<1> DEFINE P == transpose_submit(m, n)
<1>1. CASE m = 32 /\ n = 32
  <2>1. P = Tiles8(32, 32) /\ Done(m, n) = 32
    BY <1>1 DEF transpose_submit, Done
  <2> QED BY <1>1, <2>1, Tiles8Transpose
<1>2. CASE m = 64 /\ n = 64
  <2>1. P = TilesInQuarters(64, 64) /\ Done(m, n) = 64
    BY <1>2 DEF transpose_submit, Done
  <2> DEFINE w == 8
  <2>2. m \in Nat \ {0} /\ n \in Nat \ {0} /\ w \in Nat \ {0} /\ w * 8 = 64 /\ w * 8 <= m /\ w * 8 <= n
    BY <1>2
  <2> HIDE DEF w
  <2>3. Transposes(TilesInQuarters(w * 8, w * 8), m, n, w * 8, w * 8)
    BY <2>2, QuartersGrid
  <2> QED BY <1>2, <2>1, <2>2, <2>3
<1>3. CASE m = 61 /\ n = 67
  <2>1. P = RaggedTiles(61, 67) /\ Done(m, n) = 67
    BY <1>3 DEF transpose_submit, Done
  <2> QED BY <1>3, <2>1, RaggedTranspose
<1>4. CASE m = 61 /\ n = 168
  <2>1. P = Quarters61 /\ Done(m, n) = 67
    BY <1>4 DEF transpose_submit, Done
  <2> QED BY <1>4, <2>1, Quarters61Transpose
<1>5. CASE ~(m = 32 /\ n = 32) /\ ~(m = 64 /\ n = 64) /\ ~(m = 61 /\ n = 67) /\ ~(m = 61 /\ n = 168)
  <2>1. P = OneByOne(m, n) /\ Done(m, n) = n
    BY <1>5 DEF transpose_submit, Done
  <2>2. m \in Nat \ {0} /\ n \in Nat \ {0}
    OBVIOUS
  <2> QED BY <2>1, <2>2, OneByOneTranspose
<1> QED BY <1>1, <1>2, <1>3, <1>4, <1>5

-----------------------------------------------------------------------------
(* Running it.                                                              *)

\* What the first k tiles of P store is in b.
Kept(P, n, k, b) ==
  \A x \in 1 .. k : \A q \in 1 .. Len(P[x]) :
    P[x][q].op = "store" => P[x][q].row * n + P[x][q].col \in DOMAIN b

\* p accesses of T have been made.
Under(T, m, n, p, tm, b) ==
  p \in 0 .. Len(T) - 1 /\ \E j \in Nat : Sound(T, j, m, n) /\ Carried(T, j, m, n, p, tm, b)

Progress(P, m, n, k, p, tm, b) ==
  /\ k \in 0 .. Len(P) /\ DOMAIN tm = 0 .. 7
  /\ Kept(P, n, k, b)
  /\ p = 0 => AllRight(m, n, b)
  /\ k = Len(P) => p = 0
  /\ k < Len(P) => Under(P[k + 1], m, n, p, tm, b)

\* The inductive invariant.
Inv == size \in Accepted /\ Progress(Program[size], M, N, tiles, pos, tmp, B)

\* A tile begins.
LEMMA Begins ==
  ASSUME NEW T, NEW m \in Nat, NEW n \in Nat, NEW tm, NEW b, IsTile(T, m, n), AllRight(m, n, b)
  PROVE  Under(T, m, n, 0, tm, b)
<1>1. PICK j \in Nat : Sound(T, j, m, n)
  BY DEF IsTile
<1>2. 0 \in 0 .. Len(T) - 1
  <2>1. T \in Seq(Accesses) /\ T # <<>>
    BY <1>1 DEF Sound
  <2> QED BY <2>1
<1>3. 1 .. 0 = {}
  OBVIOUS
<1>4. Carried(T, j, m, n, 0, tm, b)
  BY <1>3 DEF Carried, AllRight
<1> QED BY <1>1, <1>2, <1>4 DEF Under

\* One access, the last of its tile or not.
LEMMA Advances ==
  ASSUME NEW P, NEW m \in Nat, NEW n \in Nat, Tiles(P, m, n),
         NEW k, NEW p, NEW tm, NEW b, Progress(P, m, n, k, p, tm, b), k < Len(P),
         NEW j \in Nat, Sound(P[k + 1], j, m, n),
         NEW tm2, NEW b2, Carried(P[k + 1], j, m, n, p + 1, tm2, b2),
         DOMAIN tm2 = 0 .. 7, DOMAIN b \subseteq DOMAIN b2,
         NEW k2, NEW p2, IF p + 1 < Len(P[k + 1]) THEN p2 = p + 1 /\ k2 = k ELSE p2 = 0 /\ k2 = k + 1
  PROVE  Progress(P, m, n, k2, p2, tm2, b2)
<1> DEFINE T == P[k + 1]
<1>1. P \in Seq(Seq(Accesses)) /\ Len(P) \in Nat /\ k \in 0 .. Len(P) /\ k + 1 \in 1 .. Len(P)
  BY DEF Tiles, Progress
<1>2. p \in 0 .. Len(T) - 1
  BY DEF Progress, Under
<1>3. Len(T) \in Nat
  <2>1. T \in Seq(Accesses)
    BY DEF Sound
  <2> QED BY <2>1
<1>4. Kept(P, n, k, b2)
  BY DEF Kept, Progress
<1> HIDE DEF T
<1>5. CASE p + 1 < Len(T)
  <2>1. p2 = p + 1 /\ k2 = k
    BY <1>5 DEF T
  <2>2. p2 # 0 /\ p2 \in 0 .. Len(T) - 1 /\ k2 # Len(P)
    BY <2>1, <1>1, <1>2, <1>3, <1>5
  <2>3. Sound(T, j, m, n) /\ Carried(T, j, m, n, p2, tm2, b2)
    BY <2>1 DEF T
  <2>4. Under(T, m, n, p2, tm2, b2)
    BY <2>2, <2>3 DEF Under
  <2>5. k2 \in 0 .. Len(P) /\ Kept(P, n, k2, b2) /\ Under(P[k2 + 1], m, n, p2, tm2, b2)
    BY <2>1, <2>4, <1>1, <1>4 DEF T
  <2> QED BY <2>2, <2>5 DEF Progress
<1>6. CASE ~(p + 1 < Len(T))
  <2>1. p2 = 0 /\ k2 = k + 1
    BY <1>6 DEF T
  <2>2. p + 1 = Len(T)
    BY <1>2, <1>3, <1>6
  <2>3. Sound(T, j, m, n) /\ Carried(T, j, m, n, Len(T), tm2, b2)
    BY <2>2 DEF T
  <2>4. AllRight(m, n, b2)
    BY <2>3, TileCarries
  <2>5. Kept(P, n, k2, b2)
    <3>1. ASSUME NEW x \in 1 .. k2, x # k + 1
          PROVE  x \in 1 .. k
      BY <2>1, <1>1, <3>1
    <3>2. \A q \in 1 .. Len(T) : T[q].op = "store" => T[q].row * n + T[q].col \in DOMAIN b2
      BY <2>3 DEF Carried
    <3>3. \A x \in 1 .. k2 : \A q \in 1 .. Len(P[x]) :
            P[x][q].op = "store" => P[x][q].row * n + P[x][q].col \in DOMAIN b2
      <4> SUFFICES ASSUME NEW x \in 1 .. k2
                   PROVE  \A q \in 1 .. Len(P[x]) :
                            P[x][q].op = "store" => P[x][q].row * n + P[x][q].col \in DOMAIN b2
        OBVIOUS
      <4>1. CASE x = k + 1
        BY <4>1, <3>2 DEF T
      <4>2. CASE x # k + 1
        BY <4>2, <3>1, <1>4 DEF Kept
      <4> QED BY <4>1, <4>2
    <3> QED BY <3>3 DEF Kept
  <2>6. k2 \in 0 .. Len(P)
    BY <2>1, <1>1
  <2>7. ASSUME k2 < Len(P)
        PROVE  Under(P[k2 + 1], m, n, p2, tm2, b2)
    <3>1. k2 + 1 \in 1 .. Len(P)
      BY <2>6, <2>7, <1>1
    <3>2. IsTile(P[k2 + 1], m, n)
      BY <3>1 DEF Tiles
    <3> QED BY <3>2, <2>1, <2>4, Begins
  <2> QED BY <2>1, <2>4, <2>5, <2>6, <2>7 DEF Progress
<1> QED BY <1>5, <1>6

\* A size's program.
LEMMA ProgramIs ==
  ASSUME NEW s \in Accepted
  PROVE  /\ s[1] \in 1 .. 256 /\ s[2] \in 1 .. 256 /\ s = <<s[1], s[2]>>
         /\ Transposes(Program[s], s[1], s[2], s[1], Done(s[1], s[2]))
<1>1. s \in (1 .. 256) \X (1 .. 256)
  BY DEF Accepted, MAXN
<1>2. s[1] \in 1 .. 256 /\ s[2] \in 1 .. 256 /\ s = <<s[1], s[2]>>
  BY <1>1
<1>3. Program[s] = transpose_submit(s[1], s[2])
  BY DEF Program
<1> QED BY <1>2, <1>3, Submitted

\* The invariant holds at first,
LEMMA InvInit == Init => Inv
<1> SUFFICES ASSUME Init
             PROVE  Inv
  OBVIOUS
<1> DEFINE P == Program[size]
<1>1. size \in Accepted /\ tiles = 0 /\ pos = 0 /\ DOMAIN tmp = 0 .. 7 /\ DOMAIN B = {}
  BY DEF Init
<1>2. Tiles(P, M, N) /\ M \in Nat /\ N \in Nat
  <2>1. /\ size[1] \in 1 .. 256 /\ size[2] \in 1 .. 256
        /\ Transposes(P, size[1], size[2], size[1], Done(size[1], size[2]))
    BY <1>1, ProgramIs
  <2> HIDE DEF P
  <2> QED BY <2>1 DEF Transposes, M, N
<1> HIDE DEF P
<1>3. P \in Seq(Seq(Accesses)) /\ P # <<>>
  BY <1>2 DEF Tiles
<1>4. Len(P) \in Nat /\ Len(P) > 0
  BY <1>3
<1>5. 1 .. 0 = {} /\ 0 + 1 = 1
  OBVIOUS
<1>6. Kept(P, N, 0, B) /\ AllRight(M, N, B)
  BY <1>1, <1>5 DEF Kept, AllRight
<1>7. Under(P[1], M, N, 0, tmp, B)
  <2>1. IsTile(P[1], M, N)
    BY <1>2, <1>4 DEF Tiles
  <2> QED BY <2>1, <1>2, <1>6, Begins
<1>8. Progress(P, M, N, 0, 0, tmp, B)
  BY <1>1, <1>4, <1>5, <1>6, <1>7 DEF Progress
<1> QED BY <1>1, <1>8 DEF Inv, P

\* The access that is due.
LEMMA Due ==
  ASSUME Inv, ~Finished
  PROVE  /\ tiles < Len(Program[size]) /\ M \in Nat /\ N \in Nat /\ Tiles(Program[size], M, N)
         /\ pos \in 0 .. Len(Tile) - 1 /\ Len(Tile) \in Nat
         /\ \E j \in Nat : Sound(Tile, j, M, N) /\ Carried(Tile, j, M, N, pos, tmp, B)
<1> DEFINE P == Program[size]
<1>1. size \in Accepted /\ Progress(P, M, N, tiles, pos, tmp, B)
  BY DEF Inv
<1>2. Tiles(P, M, N) /\ M \in Nat /\ N \in Nat
  <2>1. /\ size[1] \in 1 .. 256 /\ size[2] \in 1 .. 256
        /\ Transposes(P, size[1], size[2], size[1], Done(size[1], size[2]))
    BY <1>1, ProgramIs
  <2> HIDE DEF P
  <2> QED BY <2>1 DEF Transposes, M, N
<1>3. P \in Seq(Seq(Accesses)) /\ tiles \in 0 .. Len(P)
  BY <1>1, <1>2 DEF Tiles, Progress
<1>4. tiles < Len(P)
  <2>1. tiles # Len(P)
    BY DEF Finished
  <2> HIDE DEF P
  <2>2. Len(P) \in Nat
    BY <1>3
  <2> QED BY <2>1, <2>2, <1>3
<1>5. Under(Tile, M, N, pos, tmp, B)
  BY <1>1, <1>4 DEF Progress, Tile
<1>6. pos \in 0 .. Len(Tile) - 1 /\ \E j \in Nat : Sound(Tile, j, M, N) /\ Carried(Tile, j, M, N, pos, tmp, B)
  BY <1>5 DEF Under
<1>7. Tile \in Seq(Accesses)
  BY <1>6 DEF Sound
<1>8. Len(Tile) \in Nat
  BY <1>7
<1> QED BY <1>2, <1>4, <1>6, <1>8

LEMMA InvLoad == Inv /\ Load => Inv'
<1> SUFFICES ASSUME Inv, Load
             PROVE  Inv'
  OBVIOUS
<1> DEFINE P == Program[size]
           T == Tile
           p == pos + 1
<1>1. /\ ~Finished /\ T[p].op = "load" /\ size' = size /\ B' = B
      /\ IF pos + 1 < Len(T) THEN pos' = pos + 1 /\ tiles' = tiles ELSE pos' = 0 /\ tiles' = tiles + 1
  BY DEF Load, Access, Proceed
<1>2. PICK j \in Nat : Sound(T, j, M, N) /\ Carried(T, j, M, N, pos, tmp, B)
  BY <1>1, Due
<1>3. /\ tiles < Len(P) /\ M \in Nat /\ N \in Nat /\ Tiles(P, M, N)
      /\ pos \in 0 .. Len(T) - 1 /\ Len(T) \in Nat
  BY <1>1, Due
<1>4. Progress(P, M, N, tiles, pos, tmp, B) /\ size \in Accepted /\ DOMAIN tmp = 0 .. 7
  BY DEF Inv, Progress
<1>5. tmp' = [tmp EXCEPT ![T[p].tmp] = IF T[p].matrix = "A" THEN T[p].row * M + T[p].col
                                       ELSE B[T[p].row * N + T[p].col]]
  BY DEF Load, Access, IndexOf, Columns
<1>6. T = P[tiles + 1]
  BY DEF Tile
<1> HIDE DEF T, P, p
<1>7. p \in 1 .. Len(T) /\ p - 1 = pos /\ p = pos + 1
  BY <1>3 DEF p
<1>8. Carried(T, j, M, N, p, tmp', B) /\ DOMAIN tmp' = 0 .. 7
  <2>1. Carried(T, j, M, N, p - 1, tmp, B)
    BY <1>2, <1>7
  <2> QED BY <1>1, <1>2, <1>3, <1>4, <1>5, <1>7, <2>1, LoadCarries
<1>9. Progress(P, M, N, tiles', pos', tmp', B)
  <2>1. /\ Carried(P[tiles + 1], j, M, N, pos + 1, tmp', B) /\ Sound(P[tiles + 1], j, M, N)
        /\ IF pos + 1 < Len(P[tiles + 1]) THEN pos' = pos + 1 /\ tiles' = tiles
                                          ELSE pos' = 0 /\ tiles' = tiles + 1
    BY <1>1, <1>2, <1>6, <1>7, <1>8
  <2>2. DOMAIN B \subseteq DOMAIN B
    OBVIOUS
  <2> QED BY <1>3, <1>4, <1>8, <2>1, <2>2, Advances
<1>10. P' = P /\ M' = M /\ N' = N
  BY <1>1 DEF P, M, N
<1> QED BY <1>1, <1>4, <1>9, <1>10 DEF Inv, P

LEMMA InvStore == Inv /\ Store => Inv'
<1> SUFFICES ASSUME Inv, Store
             PROVE  Inv'
  OBVIOUS
<1> DEFINE P == Program[size]
           T == Tile
           p == pos + 1
<1>1. /\ ~Finished /\ T[p].op = "store" /\ size' = size /\ tmp' = tmp
      /\ IF pos + 1 < Len(T) THEN pos' = pos + 1 /\ tiles' = tiles ELSE pos' = 0 /\ tiles' = tiles + 1
  BY DEF Store, Access, Proceed
<1>2. PICK j \in Nat : Sound(T, j, M, N) /\ Carried(T, j, M, N, pos, tmp, B)
  BY <1>1, Due
<1>3. /\ tiles < Len(P) /\ M \in Nat /\ N \in Nat /\ Tiles(P, M, N)
      /\ pos \in 0 .. Len(T) - 1 /\ Len(T) \in Nat
  BY <1>1, Due
<1>4. Progress(P, M, N, tiles, pos, tmp, B) /\ size \in Accepted /\ DOMAIN tmp = 0 .. 7
  BY DEF Inv, Progress
<1>5. p \in 1 .. Len(T) /\ p - 1 = pos
  BY <1>3
<1>6. IndexOf(Access) = T[p].row * N + T[p].col
  <2>1. T[p].matrix # "A"
    <3> HIDE DEF T, p
    <3>1. T[p].matrix = "B"
      BY <1>1, <1>2, <1>5 DEF Sound, Fits
    <3> QED BY <3>1
  <2> QED BY <2>1 DEF IndexOf, Columns, Access
<1>7. B' = [y \in DOMAIN B \cup {T[p].row * N + T[p].col} |->
              IF y = T[p].row * N + T[p].col THEN tmp[T[p].tmp] ELSE B[y]]
  <2>1. B' = [y \in DOMAIN B \cup {IndexOf(Access)} |->
                IF y = IndexOf(Access) THEN tmp[T[p].tmp] ELSE B[y]]
    BY DEF Store, Access
  <2> QED BY <2>1, <1>6
<1>8. T = P[tiles + 1]
  BY DEF Tile
<1>9. p = pos + 1
  OBVIOUS
<1> HIDE DEF T, P, p
<1>10. Carried(T, j, M, N, p, tmp, B') /\ DOMAIN B \subseteq DOMAIN B'
  <2>1. Carried(T, j, M, N, p - 1, tmp, B)
    BY <1>2, <1>5
  <2> QED BY <1>1, <1>2, <1>3, <1>5, <1>7, <2>1, StoreCarries
<1>11. Progress(P, M, N, tiles', pos', tmp, B')
  <2>1. /\ Carried(P[tiles + 1], j, M, N, pos + 1, tmp, B') /\ Sound(P[tiles + 1], j, M, N)
        /\ IF pos + 1 < Len(P[tiles + 1]) THEN pos' = pos + 1 /\ tiles' = tiles
                                          ELSE pos' = 0 /\ tiles' = tiles + 1
    BY <1>1, <1>2, <1>8, <1>9, <1>10
  <2> QED BY <1>3, <1>4, <1>10, <2>1, Advances
<1>12. P' = P /\ M' = M /\ N' = N
  BY <1>1 DEF P, M, N
<1> QED BY <1>1, <1>4, <1>11, <1>12 DEF Inv, P

\* every step keeps it,
LEMMA InvNext == Inv /\ [Next]_vars => Inv'
<1> SUFFICES ASSUME Inv, [Next]_vars
             PROVE  Inv'
  OBVIOUS
<1>1. CASE Load
  BY <1>1, InvLoad
<1>2. CASE Store
  BY <1>2, InvStore
<1>3. CASE UNCHANGED vars
  <2>1. size' = size /\ tiles' = tiles /\ pos' = pos /\ B' = B /\ tmp' = tmp
    BY <1>3 DEF vars
  <2> QED BY <2>1 DEF Inv, M, N
<1> QED BY <1>1, <1>2, <1>3 DEF Next

\* and it implies that accesses are in bounds
LEMMA InvInBounds == Inv => InBounds
<1> SUFFICES ASSUME Inv, ~Finished
             PROVE  Access.row < Rows(Access.matrix) /\ Access.col < Columns(Access.matrix)
  BY DEF InBounds
<1> DEFINE T == Tile
<1>1. PICK j \in Nat : Sound(T, j, M, N)
  BY Due
<1>2. pos + 1 \in 1 .. Len(T)
  BY Due
<1> HIDE DEF T
<1>3. Fits(T[pos + 1], M, N)
  BY <1>1, <1>2 DEF Sound
<1> QED BY <1>3 DEF Fits, T, Access, Rows, Columns

\* and that what is written is the transpose, but for 61 x 168,
LEMMA InvTransposed == Inv => TransposedBut61x168
<1> SUFFICES ASSUME Inv, pos = 0, NEW row \in 0 .. M - 1, NEW col \in 0 .. N - 1,
                    ~(size = <<61, 168>> /\ col >= 67)
             PROVE  Right(row, col) \/ <<row, col>> \in ToCome
  BY DEF TransposedBut61x168
<1> DEFINE P == Program[size]
<1>1. size \in Accepted /\ Progress(P, M, N, tiles, pos, tmp, B)
  BY DEF Inv
<1>2. /\ M \in 1 .. 256 /\ N \in 1 .. 256 /\ size = <<M, N>>
      /\ Transposes(P, M, N, M, Done(M, N))
  BY <1>1, ProgramIs DEF M, N
<1>3. col \in 0 .. Done(M, N) - 1
  <2>1. size = <<61, 168>> <=> M = 61 /\ N = 168
    BY <1>2
  <2> QED BY <2>1, <1>2 DEF Done
<1> HIDE DEF P
<1>4. Tiles(P, M, N) /\ tiles \in 0 .. Len(P) /\ Kept(P, N, tiles, B) /\ AllRight(M, N, B)
  BY <1>1, <1>2 DEF Progress, Transposes
<1>5. P \in Seq(Seq(Accesses)) /\ Len(P) \in Nat
  BY <1>4 DEF Tiles
\* Some tile stores the element,
<1>6. PICK x \in 1 .. Len(P) : Touches(P[x], row, col)
  <2>1. Covered(P, row, col)
    BY <1>2, <1>3 DEF Transposes
  <2> QED BY <2>1 DEF Covered
<1>7. PICK q \in 1 .. Len(P[x]) :
        P[x][q].op = "store" /\ P[x][q].row = row /\ P[x][q].col = col
  BY <1>6 DEF Touches, Stores
\* which is done
<1>8. CASE x \in 1 .. tiles
  <2>1. row * N + col \in DOMAIN B
    BY <1>4, <1>7, <1>8 DEF Kept
  <2> QED BY <2>1, <1>4 DEF Right, AllRight
\* or is to come.
<1>9. CASE x \in tiles + 1 .. Len(P)
  <2>1. P[x] \in Seq(Accesses)
    BY <1>5
  <2>2. P[x][q] \in Range(P[x])
    BY <2>1 DEF Range
  <2>3. <<row, col>> \in ToCome
    BY <2>2, <1>7, <1>9 DEF ToCome, P
  <2> QED BY <2>3
<1> QED
  <2>1. x \in 1 .. tiles \/ x \in tiles + 1 .. Len(P)
    BY <1>4, <1>5
  <2> QED BY <2>1, <1>8, <1>9

\* Between two tiles everything in B is right, and what the tiles done store is in it; in
\* a tile the temporaries and B hold what the accesses so far have left there.
THEOREM TransposeInvariant == Spec => []Inv
<1>1. Init => Inv
  BY InvInit
<1>2. Inv /\ [Next]_vars => Inv'
  BY InvNext
<1> QED BY <1>1, <1>2, PTL DEF Spec

\* No access of transpose_submit() is outside its matrix, for any size: no tile and no
\* loop over the rim goes beyond the last row or column.
THEOREM EveryAccessInBounds == Spec => []InBounds
<1>1. Inv => InBounds
  BY InvInBounds
<1> QED BY <1>1, TransposeInvariant, PTL

\* Between two tiles, and so in the end, every element of B is right or is still to be
\* stored, for every size but 61 x 168, and for that in the columns of B before 67:
\* although tiles keep elements in B that do not belong there, and the rim has loops of
\* its own.
THEOREM AlwaysTransposedBut61x168 == Spec => []TransposedBut61x168
<1>1. Inv => TransposedBut61x168
  BY InvTransposed
<1> QED BY <1>1, TransposeInvariant, PTL

\* In the end nothing is still to be stored: B is the transpose of A, for every size that
\* test-trans.c takes but 61 x 168.
THEOREM TransposeInTheEnd ==
  Spec => [](Finished /\ size # <<61, 168>> =>
               \A row \in 0 .. M - 1, col \in 0 .. N - 1 : Right(row, col))
<1>1. ASSUME Inv, Finished, size # <<61, 168>>, NEW row \in 0 .. M - 1, NEW col \in 0 .. N - 1
      PROVE  Right(row, col)
  <2>1. size \in Accepted /\ Progress(Program[size], M, N, tiles, pos, tmp, B)
    BY <1>1 DEF Inv
  <2>2. pos = 0 /\ tiles = Len(Program[size])
    BY <2>1, <1>1 DEF Progress, Finished
  <2>3. Len(Program[size]) \in Nat
    BY <2>1, ProgramIs DEF Transposes, Tiles, M, N
  <2>4. tiles + 1 .. Len(Program[size]) = {}
    BY <2>2, <2>3
  <2>5. <<row, col>> \notin ToCome
    BY <2>4 DEF ToCome
  <2>6. Right(row, col) \/ <<row, col>> \in ToCome
    BY <1>1, <2>2, InvTransposed DEF TransposedBut61x168
  <2> QED BY <2>5, <2>6
<1>2. Inv => (Finished /\ size # <<61, 168>> =>
                \A row \in 0 .. M - 1, col \in 0 .. N - 1 : Right(row, col))
  BY <1>1
<1> QED BY <1>2, TransposeInvariant, PTL
=============================================================================
