------------------------------- MODULE Y64sim -------------------------------
(***************************************************************************)
(* The Y64 simulator lab5/y64sim.c: nexti() executes one instruction.       *)
(*                                                                          *)
(* It is not the instruction set of lab 7 throughout.  Deviates lists the   *)
(* steps at which the two part.                                             *)
(***************************************************************************)
EXTENDS Y86

CONSTANT INT_HALF  \* 2^31: the flags are computed from a value cast to int

VARIABLES prog, pc, reg, mem, cc, stat

vars == <<prog, pc, reg, mem, cc, stat>>

TypeOK ==
  /\ prog \in Programs
  /\ pc \in Word /\ reg \in Registers /\ mem \in Memory
  /\ cc \in Flags /\ stat \in Status

Reset ==
  /\ pc = 0
  /\ reg = [r \in REGS |-> 0]
  /\ mem = [a \in 0 .. MEM_LEN - 1 |-> 0]
  /\ cc = DEFAULT_CC
  /\ stat = "AOK"

Init == prog \in Programs /\ Reset

-----------------------------------------------------------------------------

NarrowToInt(val) == ((val + INT_HALF) % (2 * INT_HALF)) - INT_HALF

\* Faulty variant: the flags of a subtraction are those of an addition.
FlagsOf_Addition(op, a, b, val) ==
  PackCc(val = 0, NarrowToInt(val) < 0,
         op \in {A_ADD, A_SUB} /\ (val < 0 <=> a > 0) /\ (val < 0 <=> b > 0))

\* compute_cc().
FlagsOf(op, a, b, val) ==
  PackCc(val = 0, NarrowToInt(val) < 0,
         \/ op = A_ADD /\ a > 0 /\ b > 0 /\ val < 0
         \/ op = A_ADD /\ a < 0 /\ b < 0 /\ val > 0
         \/ op = A_SUB /\ b > 0 /\ a < 0 /\ val < 0
         \/ op = A_SUB /\ b < 0 /\ a > 0 /\ val > 0)

\* set_long_val() changes nothing outside memory, and tells nobody.
Stored(m, a, val) == IF InMemory(a) THEN [m EXCEPT ![a] = val] ELSE m

\* get_long_val() leaves its destination as it was.
Loaded(m, a, old) == IF InMemory(a) THEN m[a] ELSE old

At(icode) == stat = "AOK" /\ HasInstruction(pc) /\ prog[pc].icode = icode

next_pc == pc + 1

Fail(status) == stat' = status /\ UNCHANGED prog

GoOn == UNCHANGED <<prog, stat>>

NoInstruction ==
  stat = "AOK" /\ ~HasInstruction(pc) /\ Fail("ADR") /\ UNCHANGED <<pc, reg, mem, cc>>

\* Among them iaddq.
BadInstruction ==
  /\ At("bad") \/ At("IIADDQ")
  /\ Fail("INS") /\ UNCHANGED <<pc, reg, mem, cc>>

Halt == At("IHALT") /\ Fail("HLT") /\ UNCHANGED <<pc, reg, mem, cc>>

Nop == At("INOP") /\ pc' = next_pc /\ GoOn /\ UNCHANGED <<reg, mem, cc>>

Rrmovq ==
  /\ At("IRRMOVQ")
  /\ reg' = IF CondHolds(cc, prog[pc].ifun)
            THEN WithReg(reg, prog[pc].rB, RegVal(reg, prog[pc].rA))
            ELSE reg
  /\ pc' = next_pc /\ GoOn /\ UNCHANGED <<mem, cc>>

Irmovq ==
  /\ At("IIRMOVQ")
  /\ reg' = WithReg(reg, prog[pc].rB, prog[pc].valC)
  /\ pc' = next_pc /\ GoOn /\ UNCHANGED <<mem, cc>>

Address == Wrap(RegVal(reg, prog[pc].rB) + prog[pc].valC)

Rmmovq ==
  /\ At("IRMMOVQ")
  /\ mem' = Stored(mem, Address, RegVal(reg, prog[pc].rA))
  /\ pc' = next_pc /\ GoOn /\ UNCHANGED <<reg, cc>>

Mrmovq ==
  /\ At("IMRMOVQ")
  /\ UNCHANGED <<mem, cc>>
  /\ \/ Address <= 0 /\ pc' = 0 /\ Fail("ADR") /\ UNCHANGED reg
     \/ /\ Address > 0
        /\ reg' = WithReg(reg, prog[pc].rA, Loaded(mem, Address, prog[pc].valC))
        /\ pc' = next_pc /\ GoOn

Alu ==
  /\ At("IOPQ")
  /\ \E a \in {RegVal(reg, prog[pc].rA)}, b \in {RegVal(reg, prog[pc].rB)} :
       /\ reg' = WithReg(reg, prog[pc].rB, ComputeAlu(prog[pc].ifun, a, b))
       /\ cc' = FlagsOf(prog[pc].ifun, a, b, ComputeAlu(prog[pc].ifun, a, b))
  /\ pc' = next_pc /\ GoOn /\ UNCHANGED mem

Jmp ==
  /\ At("IJXX")
  /\ pc' = IF CondHolds(cc, prog[pc].ifun) THEN prog[pc].valC ELSE next_pc
  /\ GoOn /\ UNCHANGED <<reg, mem, cc>>

Moved(n) == WithReg(reg, RSP, Wrap(reg[RSP] + n))

Call ==
  /\ At("ICALL")
  /\ reg' = Moved(-1)
  /\ mem' = Stored(mem, Wrap(reg[RSP] - 1), next_pc)
  /\ pc' = prog[pc].valC
  /\ IF prog[pc].valC = 0 THEN Fail("ADR") ELSE GoOn
  /\ UNCHANGED cc

\* Only an address that the next fetch would refuse, or 0, is refused here.
Ret ==
  /\ At("IRET")
  /\ pc' = Loaded(mem, reg[RSP], reg[RSP])
  /\ reg' = Moved(1)
  /\ IF pc' <= 0 \/ pc' >= PROG_LEN THEN Fail("ADR") ELSE GoOn
  /\ UNCHANGED <<mem, cc>>

Pushq ==
  /\ At("IPUSHQ")
  /\ reg' = Moved(-1)
  /\ UNCHANGED cc
  /\ \E valC \in {Wrap(reg[RSP] - 1)} :
       \/ (valC <= 0 \/ valC >= MEM_LEN) /\ Fail("ADR") /\ UNCHANGED <<pc, mem>>
       \/ /\ 0 < valC /\ valC < MEM_LEN
          /\ mem' = Stored(mem, valC, IF prog[pc].rA = RSP THEN Wrap(valC + 1)
                                      ELSE RegVal(reg, prog[pc].rA))
          /\ pc' = next_pc /\ GoOn

Popq ==
  /\ At("IPOPQ")
  /\ reg' = WithReg(Moved(1), prog[pc].rA, Loaded(mem, reg[RSP], 0))
  /\ pc' = next_pc /\ GoOn /\ UNCHANGED <<mem, cc>>

Next == \/ NoInstruction \/ BadInstruction \/ Halt \/ Nop
        \/ Rrmovq \/ Irmovq \/ Rmmovq \/ Mrmovq \/ Alu
        \/ Jmp \/ Call \/ Ret \/ Pushq \/ Popq

Spec == Init /\ [][Next]_vars

-----------------------------------------------------------------------------
(* Where the step to come is not the one isa.c would take.                  *)

\* The sign of the low half is not the word's, or an overflow goes unseen.
FlagsDiffer(op, a, b) ==
  \/ ~(NarrowToInt(ComputeAlu(op, a, b)) < 0 <=> ComputeAlu(op, a, b) < 0)
  \/ op = A_ADD /\ a = -HALF /\ b = -HALF
  \/ op = A_SUB /\ a = -HALF /\ b = 0

StackTop == Wrap(reg[RSP] - 1)

Deviates ==
  /\ stat = "AOK" /\ HasInstruction(pc)
  /\ \/ At("IIADDQ")
     \/ At("IRMMOVQ") /\ ~InMemory(Address)
     \/ At("IMRMOVQ") /\ (Address < 0 => pc # 0) /\ (Address > 0 => Address >= MEM_LEN)
     \/ /\ At("IOPQ")
        /\ FlagsDiffer(prog[pc].ifun, RegVal(reg, prog[pc].rA), RegVal(reg, prog[pc].rB))
     \/ At("ICALL") /\ (InMemory(StackTop) <=> prog[pc].valC = 0)
     \/ At("ICALL") /\ ~InMemory(StackTop) /\ pc # 0
     \/ /\ At("IRET")
        /\ InMemory(reg[RSP]) => mem[reg[RSP]] = 0 \/ ~HasInstruction(mem[reg[RSP]])
     \/ At("IPUSHQ") /\ StackTop = 0
     \/ At("IPOPQ") /\ ~InMemory(reg[RSP])

IsIsa == INSTANCE Isa

\* The simulator takes a step the instruction set does not have exactly where
\* Deviates says so: in flags, in addresses outside memory, in calls and
\* returns to address 0, and in iaddq.
DeviatesThereOnly == [][Deviates <=> ~IsIsa!Next]_vars
=============================================================================
