---------------------------- MODULE MCProcessors ----------------------------
(***************************************************************************)
(* Instances of Processors: words of 4 bits, two registers, four words of   *)
(* data, and programs of seven instructions.                                *)
(***************************************************************************)
EXTENDS Processors, Sequences

Bitwise == INSTANCE Bitwise

\* Two's complement, as Bitwise knows only natural numbers.
Bits(w) == w % (2 * HALF)

Signed(n) == IF n < HALF THEN n ELSE n - 2 * HALF

AndWords(a, b) == Signed(Bitwise!&(Bits(a), Bits(b)))

XorWords(a, b) == Signed(Bitwise!^^(Bits(a), Bits(b)))

Ins(icode, ifun, rA, rB, valC) ==
  [icode |-> icode, ifun |-> ifun, rA |-> rA, rB |-> rB, valC |-> valC]

Plain(icode) == Ins(icode, F_NONE, RNONE, RNONE, 0)
Move(cond, rA, rB) == Ins("IRRMOVQ", cond, rA, rB, 0)
Set(val, rB) == Ins("IIRMOVQ", F_NONE, RNONE, rB, val)
Store(rA, val, rB) == Ins("IRMMOVQ", F_NONE, rA, rB, val)
Load(val, rB, rA) == Ins("IMRMOVQ", F_NONE, rA, rB, val)
Op(op, rA, rB) == Ins("IOPQ", op, rA, rB, 0)
AddTo(val, rB) == Ins("IIADDQ", F_NONE, RNONE, rB, val)
Jump(cond, dest) == Ins("IJXX", cond, RNONE, RNONE, dest)
CallOf(dest) == Ins("ICALL", F_NONE, RNONE, RNONE, dest)
Push(rA) == Ins("IPUSHQ", F_NONE, rA, RNONE, 0)
Pop(rA) == Ins("IPOPQ", F_NONE, rA, RNONE, 0)

\* %rsp is 2 and %rax is 1 when the middle of the program begins at 2, and
\* after it one more instruction tells whether it was jumped over.
Program(middle) ==
  LET all == <<Set(2, "rsp"), Set(1, "rax")>> \o middle
               \o <<AddTo(3, "rax"), Plain("IHALT")>>
  IN [a \in 0 .. PROG_LEN - 1 |-> all[a + 1]]

Anything ==
  {Plain("INOP"), Plain("IHALT"), Plain("bad"), Plain("IRET"),
   Move(C_YES, "rax", "rsp"), Move(C_L, "rsp", "rax"),
   Set(7, "rax"), Set(-8, "rax"), Store("rax", 0, "rsp"),
   Store("rax", 3, RNONE), Load(0, "rsp", "rax"),
   Load(3, RNONE, "rax"), Op(A_ADD, "rax", "rsp"), Op(A_SUB, "rsp", "rax"),
   Op(A_AND, "rsp", "rax"), Op(A_XOR, "rax", "rax"), AddTo(-1, "rax"), AddTo(7, "rsp"),
   Jump(C_YES, 4), Jump(C_E, 3), Jump(C_G, 4), Jump(C_GE, 0),
   CallOf(4), CallOf(0), Push("rax"), Push("rsp"), Pop("rax"), Pop("rsp")}

ThreeOfAnything ==
  {Program(<<a, b, c>>) : a \in Anything, b \in Anything, c \in Anything}

AllPrograms == ThreeOfAnything

\* A store, a jump not taken and something between them.
StoreAndJump ==
  {Program(<<Store("rax", 1, "rsp"), a, b>>) :
     a \in Anything \ {Plain("bad")}, b \in {Jump(C_NE, 6), Jump(C_E, 6)}}
=============================================================================
