----------------------------- MODULE Transpose -----------------------------
(***************************************************************************)
(* The matrix transpose of lab8/trans.c, run the way lab8/test-trans.c and  *)
(* lab8/driver.py evaluate it: every access of transpose_submit() to the    *)
(* matrices goes through the cache simulator of module Csim, with 32 sets   *)
(* of one 32-byte line each, and driver.py turns the misses into points.    *)
(*                                                                          *)
(* A has N rows and M columns, B has M rows and N columns.  An element of A *)
(* is known by its index.  transpose_submit() is straight-line code in      *)
(* loops over constant bounds, so its accesses are one fixed sequence for   *)
(* every size, tile by tile: Program.                                       *)
(***************************************************************************)
EXTENDS Integers, Sequences, SequencesExt

CONSTANT Sizes    \* pairs <<M, N>> to evaluate

VARIABLES size,        \* <<M, N>>
          tiles,       \* tiles done
          pos,         \* accesses made for the next tile
          B,           \* the elements written, by index; the others are never read
          tmp,         \* tmp0 to tmp7
          lines, useLog, hit, miss, eviction, pending

cache == <<lines, useLog, hit, miss, eviction, pending>>

vars == <<size, tiles, pos, B, tmp, cache>>

M == size[1]
N == size[2]

MAXN == 256

\* Those that test-trans.c takes.
Accepted == Sizes \cap ((1 .. MAXN) \X (1 .. MAXN))

-----------------------------------------------------------------------------
(* The accesses of transpose_submit().                                      *)

ReadA(row, col, t) == [op |-> "load", matrix |-> "A", row |-> row, col |-> col, tmp |-> t]
ReadB(row, col, t) == [op |-> "load", matrix |-> "B", row |-> row, col |-> col, tmp |-> t]
WriteB(row, col, t) == [op |-> "store", matrix |-> "B", row |-> row, col |-> col, tmp |-> t]

\* Access(0) to Access(n - 1); the iterations of a loop from first on.
Each(n, Access(_)) == [t \in 1 .. n |-> Access(t - 1)]
For(first, step, end, Body(_)) ==
  FlattenSeq([x \in 1 .. (end - first + step - 1) \div step |-> Body(first + (x - 1) * step)])

\* n elements of row k of A from column j on become column k of B.
RowToColumn(k, j, n) ==
  Each(n, LAMBDA t : ReadA(k, j + t, t)) \o Each(n, LAMBDA t : WriteB(j + t, k, t))

\* The general case: every element is a tile.
OneByOne(m, n) == For(0, 1, n, LAMBDA i : For(0, 1, m, LAMBDA j : <<RowToColumn(i, j, 1)>>))

\* Faulty variant: 32 x 32 does not get its tiles.
Tiles8_None(m, n) == OneByOne(m, n)

\* 32 x 32: tiles of 8 x 8.
Tiles8(m, n) ==
  For(0, 8, n, LAMBDA i : For(0, 8, m, LAMBDA j :
    <<For(i, 1, i + 8, LAMBDA k : RowToColumn(k, j, 8))>>))

\* A tile of 8 x 8 whose upper right quarter of A waits in the upper right
\* quarter of B until the lower left quarter of A has been read.
Upper(i, j) ==
  For(i, 1, i + 4, LAMBDA k :
    Each(8, LAMBDA t : ReadA(k, j + t, t))
      \o Each(8, LAMBDA t : IF t < 4 THEN WriteB(j + t, k, t) ELSE WriteB(j + t - 4, k + 4, t)))

\* Faulty variant: what waits in B is read after it has been written over.
Left_ReadsLate(i, j) ==
  For(j, 1, j + 4, LAMBDA k :
    Each(4, LAMBDA t : ReadA(i + 4 + t, k, t)) \o Each(4, LAMBDA t : WriteB(k, i + 4 + t, t))
      \o Each(4, LAMBDA t : ReadB(k, i + 4 + t, t + 4))
      \o Each(4, LAMBDA t : WriteB(k + 4, i + t, t + 4)))

Left(i, j) ==
  For(j, 1, j + 4, LAMBDA k :
    Each(4, LAMBDA t : ReadA(i + 4 + t, k, t)) \o Each(4, LAMBDA t : ReadB(k, i + 4 + t, t + 4))
      \o Each(4, LAMBDA t : WriteB(k, i + 4 + t, t))
      \o Each(4, LAMBDA t : WriteB(k + 4, i + t, t + 4)))

Lower(i, j) ==
  For(i + 4, 1, i + 8, LAMBDA k : For(j + 4, 1, j + 8, LAMBDA l : RowToColumn(k, l, 1)))

TilesInQuarters(m, n) ==
  For(0, 8, n, LAMBDA i : For(0, 8, m, LAMBDA j : <<Upper(i, j) \o Left(i, j) \o Lower(i, j)>>))

\* Faulty variant: the last tile of a row is as wide as the others.
Width_Whole(j) == 8

\* 61 x 67: the last tile of a row is 5 columns wide.
Width(j) == IF j + 5 < 61 THEN 8 ELSE 5

RaggedTiles(m, n) ==
  For(0, 8, n, LAMBDA i : For(0, 8, m, LAMBDA j :
    <<For(i, 1, IF i + 8 < n THEN i + 8 ELSE n, LAMBDA k : RowToColumn(k, j, Width(j)))>>))

\* 61 x 168: tiles for 64 rows and 56 columns, then rows 64 to 66 and the
\* columns from 56 on.
Quarters61 ==
  TilesInQuarters(56, 64)
    \o For(0, 1, 61, LAMBDA j : <<Each(3, LAMBDA t : ReadA(64 + t, j, t))
                                    \o Each(3, LAMBDA t : WriteB(j, 64 + t, t))>>)
    \o For(0, 1, 64, LAMBDA j : <<RowToColumn(j, 56, 5)>>)

transpose_submit(m, n) ==
  CASE m = 32 /\ n = 32 -> Tiles8(m, n)
    [] m = 64 /\ n = 64 -> TilesInQuarters(m, n)
    [] m = 61 /\ n = 67 -> RaggedTiles(m, n)
    [] m = 61 /\ n = 168 -> Quarters61
    [] OTHER -> OneByOne(m, n)

Program == [s \in Accepted |-> transpose_submit(s[1], s[2])]

-----------------------------------------------------------------------------
(* Running it.  tracegen.c has both matrices in static arrays of 256 x 256  *)
(* int, one after the other.                                                *)

BytesOfInt == 4
StaticArray == MAXN * MAXN * BytesOfInt

Columns(matrix) == IF matrix = "A" THEN M ELSE N
Rows(matrix) == IF matrix = "A" THEN N ELSE M

IndexOf(a) == a.row * Columns(a.matrix) + a.col

AddressOf(a) == (IF a.matrix = "A" THEN 0 ELSE StaticArray) + BytesOfInt * IndexOf(a)

Simulator == INSTANCE Csim WITH S <- 32, E <- 1, B <- 32, INT_MAX <- 2147483647,
               Addresses <- 0 .. 2 * StaticArray - 1

Garbage == -1

Init ==
  /\ size \in Accepted
  /\ tiles = 0 /\ pos = 0
  /\ B = [x \in {} |-> Garbage]
  /\ tmp = [t \in 0 .. 7 |-> Garbage]
  /\ Simulator!Init

Finished == tiles = Len(Program[size])

Tile == Program[size][tiles + 1]

Access == Tile[pos + 1]

Proceed == IF pos + 1 < Len(Tile) THEN pos' = pos + 1 /\ UNCHANGED tiles
                                  ELSE pos' = 0 /\ tiles' = tiles + 1

Load ==
  /\ ~Finished /\ Access.op = "load"
  /\ tmp' = [tmp EXCEPT ![Access.tmp] = IF Access.matrix = "A" THEN IndexOf(Access)
                                         ELSE B[IndexOf(Access)]]
  /\ Simulator!LoadOrStore(AddressOf(Access))
  /\ Proceed
  /\ UNCHANGED <<size, B>>

Store ==
  /\ ~Finished /\ Access.op = "store"
  /\ B' = [x \in DOMAIN B \cup {IndexOf(Access)} |->
              IF x = IndexOf(Access) THEN tmp[Access.tmp] ELSE B[x]]
  /\ Simulator!LoadOrStore(AddressOf(Access))
  /\ Proceed
  /\ UNCHANGED <<size, tmp>>

Next == Load \/ Store

Spec == Init /\ [][Next]_vars

-----------------------------------------------------------------------------
(* The evaluation.                                                          *)

\* Element (row, col) of B is that of the transpose of A.
Right(row, col) ==
  row * N + col \in DOMAIN B /\ B[row * N + col] = col * M + row

\* The elements of B that tiles to come store.
ToCome == {<<a.row, a.col>> : a \in {x \in UNION {Range(Program[size][t]) :
                                                t \in tiles + 1 .. Len(Program[size])} :
                                      x.op = "store"}}

\* "Matrix transpose B = A^T" (trans.c:2), as is_transpose() (trans.c:263) and
\* validate() (tracegen.c:34) ask for it: every element of B is right in the end.
\* Between two tiles each is right or is still to be stored: what a tile keeps in
\* parts of B used as a buffer never stays there, and no row, column or rim is left
\* out.
Transposed ==
  pos = 0 => LET toCome == ToCome
             IN \A row \in 0 .. M - 1, col \in 0 .. N - 1 :
                  Right(row, col) \/ <<row, col>> \in toCome

\* Every size is transposed but 61 x 168, of which the columns of B from 67 on are
\* never written: its loops at trans.c:183-209 are those for 67 rows of A.
TransposedBut61x168 ==
  pos = 0 => LET toCome == ToCome
             IN \A row \in 0 .. M - 1, col \in 0 .. N - 1 :
                  \/ Right(row, col) \/ <<row, col>> \in toCome
                  \/ size = <<61, 168>> /\ col >= 67

\* No access is outside the matrix it means, at the rims of the tiles either: in
\* the evaluation's static arrays a stray one would go unnoticed.
InBounds ==
  ~Finished => Access.row < Rows(Access.matrix) /\ Access.col < Columns(Access.matrix)

\* The limits in driver.py's main(): full marks up to lower misses.
lower == CASE size = <<32, 32>> -> 300
           [] size = <<64, 64>> -> 1300
           [] size = <<61, 67>> -> 2000

\* Besides the accesses to the matrices the trace holds five: the two markers,
\* M, N and the function's entry in func_list.  They come before the first
\* access or after the last one, so that each misses at most once itself and
\* makes no other access miss.
OtherAccesses == 5

\* transpose_submit() gets full marks from computeMissScore() for all three
\* matrices that driver.py evaluates: the misses never exceed the limit.
FullMarks ==
  size \in {<<32, 32>>, <<64, 64>>, <<61, 67>>} => miss + OtherAccesses <= lower
=============================================================================
