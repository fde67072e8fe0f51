-------------------------------- MODULE Y86 --------------------------------
(***************************************************************************)
(* What the machines of labs 5 and 7 have in common, after isa.h and isa.c: *)
(* words, registers, memory, the arithmetic unit and its flags, conditions, *)
(* and instructions.                                                        *)
(*                                                                          *)
(* A word is a signed integer of HALF * 2 values.  Memory is an array of    *)
(* words, and an address counts words: the 8 that push and pop move the     *)
(* stack by is 1.  Instructions are stored apart from data, each in a cell  *)
(* of its own, so programs neither jump into the middle of an instruction   *)
(* nor overwrite one.  A register named where an instruction has to name    *)
(* one is a register, as the assembler makes sure; the base of an address   *)
(* may be absent.                                                           *)
(***************************************************************************)
EXTENDS Integers

CONSTANTS HALF,        \* 2^63: words go from -HALF to HALF - 1
          And(_, _),   \* & on words
          Xor(_, _),   \* ^ on words
          REGS, RSP,   \* the registers, and the stack pointer among them
          RNONE,       \* REG_NONE, "a special one to indicate no register"
          MEM_LEN,     \* words of data memory
          PROG_LEN,    \* cells of instruction memory
          Programs     \* the programs to run

ASSUME HalfAssumption == HALF \in Nat /\ HALF > 1
ASSUME RegisterAssumption == RSP \in REGS /\ RNONE \notin REGS
ASSUME LengthAssumption == /\ MEM_LEN \in 1 .. HALF - 1
                           /\ PROG_LEN \in 1 .. HALF - 1

Word == -HALF .. HALF - 1

\* What is left in a word of the sum or the difference of two words.
Wrap(n) == CASE n >= HALF -> n - 2 * HALF
             [] n < -HALF -> n + 2 * HALF
             [] OTHER -> n

ASSUME BitwiseAssumption ==
  \A a, b \in Word : And(a, b) \in Word /\ Xor(a, b) \in Word

-----------------------------------------------------------------------------
(* The arithmetic unit, its flags and the conditions on them.               *)

A_ADD == 0
A_SUB == 1
A_AND == 2
A_XOR == 3

ComputeAlu(op, a, b) ==
  CASE op = A_ADD -> Wrap(a + b)
    [] op = A_SUB -> Wrap(b - a)
    [] op = A_AND -> And(a, b)
    [] op = A_XOR -> Xor(a, b)
    [] OTHER -> 0

\* cc is the set of the flags that are up.
Flags == SUBSET {"ZF", "SF", "OF"}

DEFAULT_CC == {"ZF"}

PackCc(z, s, o) ==
  {f \in {"ZF", "SF", "OF"} : \/ f = "ZF" /\ z
                              \/ f = "SF" /\ s
                              \/ f = "OF" /\ o}

Overflow(op, a, b, val) ==
  \/ op = A_ADD /\ (a < 0 <=> b < 0) /\ ~(val < 0 <=> a < 0)
  \/ op = A_SUB /\ (a > 0 <=> b < 0) /\ ~(val < 0 <=> b < 0)

ComputeCc(op, a, b) ==
  LET val == ComputeAlu(op, a, b)
  IN PackCc(val = 0, val < 0, Overflow(op, a, b, val))

C_YES == 0
C_LE == 1
C_L == 2
C_E == 3
C_NE == 4
C_GE == 5
C_G == 6

Less(c) == ~("SF" \in c <=> "OF" \in c)

CondHolds(c, cond) ==
  \/ cond = C_YES
  \/ cond = C_LE /\ (Less(c) \/ "ZF" \in c)
  \/ cond = C_L /\ Less(c)
  \/ cond = C_E /\ "ZF" \in c
  \/ cond = C_NE /\ "ZF" \notin c
  \/ cond = C_GE /\ ~Less(c)
  \/ cond = C_G /\ ~Less(c) /\ "ZF" \notin c

-----------------------------------------------------------------------------
(* Instructions, registers and memory.                                      *)

ICodes == {"IHALT", "INOP", "IRRMOVQ", "IIRMOVQ", "IRMMOVQ", "IMRMOVQ", "IOPQ",
           "IJXX", "ICALL", "IRET", "IPUSHQ", "IPOPQ", "IIADDQ"}

F_NONE == 0

\* An instruction as it is stored: "bad" is a code that is none of ICodes.
Instruction ==
  [icode : ICodes \union {"bad"}, ifun : 0 .. 6,
   rA : REGS \union {RNONE}, rB : REGS \union {RNONE}, valC : Word]

\* The registers an instruction cannot do without.
Assembled(i) ==
  /\ i.icode \in {"IRRMOVQ", "IRMMOVQ", "IMRMOVQ", "IOPQ", "IPUSHQ", "IPOPQ"} => i.rA \in REGS
  /\ i.icode \in {"IRRMOVQ", "IIRMOVQ", "IOPQ", "IIADDQ"} => i.rB \in REGS
  /\ i.icode = "IOPQ" => i.ifun \in {A_ADD, A_SUB, A_AND, A_XOR}
  /\ i.icode = "IIADDQ" => i.ifun = F_NONE

ASSUME ProgramAssumption ==
  \A p \in Programs : /\ p \in [0 .. PROG_LEN - 1 -> Instruction]
                      /\ \A a \in 0 .. PROG_LEN - 1 : Assembled(p[a])

Registers == [REGS -> Word]
Memory == [0 .. MEM_LEN - 1 -> Word]

Status == {"BUB", "AOK", "HLT", "ADR", "INS", "PIP"}

RegVal(r, id) == IF id = RNONE THEN 0 ELSE r[id]

WithReg(r, id, val) == IF id = RNONE THEN r ELSE [r EXCEPT ![id] = val]

InMemory(a) == 0 <= a /\ a < MEM_LEN

HasInstruction(a) == 0 <= a /\ a < PROG_LEN
=============================================================================
