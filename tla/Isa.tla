-------------------------------- MODULE Isa --------------------------------
(***************************************************************************)
(* The Y86-64 instruction set as step_state() of lab7/sim/misc/isa.c        *)
(* executes it: what the processors of lab 7 and the simulator of lab 5     *)
(* have to do for every program.                                            *)
(***************************************************************************)
EXTENDS Y86

VARIABLES prog,       \* the program; it never changes
          pc, reg, mem, cc,
          stat        \* what the last step returned

vars == <<prog, pc, reg, mem, cc, stat>>

TypeOK ==
  /\ prog \in Programs
  /\ pc \in Word /\ reg \in Registers /\ mem \in Memory
  /\ cc \in Flags /\ stat \in Status

Reset ==
  /\ pc = 0
  /\ reg = [r \in REGS |-> 0]
  /\ mem = [a \in 0 .. MEM_LEN - 1 |-> 0]
  /\ cc = DEFAULT_CC
  /\ stat = "AOK"

Init == prog \in Programs /\ Reset

At(icode) == stat = "AOK" /\ HasInstruction(pc) /\ prog[pc].icode = icode

ftpc == pc + 1

Stop(status) == stat' = status /\ UNCHANGED <<prog, pc, mem, cc>>

GoOn == UNCHANGED <<prog, stat>>

-----------------------------------------------------------------------------

NoInstruction ==
  stat = "AOK" /\ ~HasInstruction(pc) /\ Stop("ADR") /\ UNCHANGED reg

BadInstruction == At("bad") /\ Stop("INS") /\ UNCHANGED reg

Halt == At("IHALT") /\ Stop("HLT") /\ UNCHANGED reg

Nop == At("INOP") /\ pc' = ftpc /\ GoOn /\ UNCHANGED <<reg, mem, cc>>

Rrmovq ==
  /\ At("IRRMOVQ")
  /\ reg' = IF CondHolds(cc, prog[pc].ifun)
            THEN WithReg(reg, prog[pc].rB, RegVal(reg, prog[pc].rA))
            ELSE reg
  /\ pc' = ftpc /\ GoOn /\ UNCHANGED <<mem, cc>>

Irmovq ==
  /\ At("IIRMOVQ")
  /\ reg' = WithReg(reg, prog[pc].rB, prog[pc].valC)
  /\ pc' = ftpc /\ GoOn /\ UNCHANGED <<mem, cc>>

Address == Wrap(prog[pc].valC + RegVal(reg, prog[pc].rB))

Rmmovq ==
  /\ At("IRMMOVQ")
  /\ UNCHANGED reg
  /\ \/ /\ InMemory(Address)
        /\ mem' = [mem EXCEPT ![Address] = RegVal(reg, prog[pc].rA)]
        /\ pc' = ftpc /\ GoOn /\ UNCHANGED cc
     \/ ~InMemory(Address) /\ Stop("ADR")

Mrmovq ==
  /\ At("IMRMOVQ")
  /\ \/ /\ InMemory(Address)
        /\ reg' = WithReg(reg, prog[pc].rA, mem[Address])
        /\ pc' = ftpc /\ GoOn /\ UNCHANGED <<mem, cc>>
     \/ ~InMemory(Address) /\ Stop("ADR") /\ UNCHANGED reg

\* The instruction at a combines values a and b and writes its rB.
Arithmetic(op, a, b) ==
  /\ reg' = WithReg(reg, prog[pc].rB, ComputeAlu(op, a, b))
  /\ cc' = ComputeCc(op, a, b)
  /\ pc' = ftpc /\ GoOn /\ UNCHANGED mem

Opq ==
  /\ At("IOPQ")
  /\ Arithmetic(prog[pc].ifun, RegVal(reg, prog[pc].rA), RegVal(reg, prog[pc].rB))

Iaddq ==
  /\ At("IIADDQ")
  /\ Arithmetic(A_ADD, prog[pc].valC, RegVal(reg, prog[pc].rB))

Jxx ==
  /\ At("IJXX")
  /\ pc' = IF CondHolds(cc, prog[pc].ifun) THEN prog[pc].valC ELSE ftpc
  /\ GoOn /\ UNCHANGED <<reg, mem, cc>>

Moved(n) == WithReg(reg, RSP, Wrap(reg[RSP] + n))

\* Push val and go on at next.  %rsp has been moved already when the word is
\* found to have no place in memory.
PushWord(val, next) ==
  \/ /\ InMemory(Wrap(reg[RSP] - 1))
     /\ reg' = Moved(-1)
     /\ mem' = [mem EXCEPT ![Wrap(reg[RSP] - 1)] = val]
     /\ pc' = next /\ GoOn /\ UNCHANGED cc
  \/ ~InMemory(Wrap(reg[RSP] - 1)) /\ Stop("ADR") /\ reg' = Moved(-1)

Call == At("ICALL") /\ PushWord(ftpc, prog[pc].valC)

Pushq == At("IPUSHQ") /\ PushWord(RegVal(reg, prog[pc].rA), ftpc)

Ret ==
  /\ At("IRET")
  /\ \/ /\ InMemory(reg[RSP])
        /\ reg' = Moved(1)
        /\ pc' = mem[reg[RSP]] /\ GoOn /\ UNCHANGED <<mem, cc>>
     \/ ~InMemory(reg[RSP]) /\ Stop("ADR") /\ UNCHANGED reg

\* The popped word is written last: popq %rsp leaves it in %rsp.  Again %rsp
\* has been moved when the word is found not to be there.
Popq ==
  /\ At("IPOPQ")
  /\ \/ /\ InMemory(reg[RSP])
        /\ reg' = WithReg(Moved(1), prog[pc].rA, mem[reg[RSP]])
        /\ pc' = ftpc /\ GoOn /\ UNCHANGED <<mem, cc>>
     \/ ~InMemory(reg[RSP]) /\ Stop("ADR") /\ reg' = Moved(1)

Next == \/ NoInstruction \/ BadInstruction \/ Halt \/ Nop
        \/ Rrmovq \/ Irmovq \/ Rmmovq \/ Mrmovq
        \/ Opq \/ Iaddq \/ Jxx \/ Call \/ Ret \/ Pushq \/ Popq

Spec == Init /\ [][Next]_vars

-----------------------------------------------------------------------------
(* What the processors of lab 7 make of it.  They stop with all registers   *)
(* as they were, also at the instructions above that have moved %rsp.       *)

\* The instruction to come is a push, call or pop that fails.
StackFails ==
  \/ (At("IPUSHQ") \/ At("ICALL")) /\ ~InMemory(Wrap(reg[RSP] - 1))
  \/ At("IPOPQ") /\ ~InMemory(reg[RSP])

\* A step that step_state() takes, unless StackFails: then it is one that
\* step_state() does not take, as %rsp stays where it is.
ButForRsp ==
  /\ StackFails <=> ~Next
  /\ StackFails => Stop("ADR") /\ UNCHANGED reg

SpecButForRsp == Init /\ [][ButForRsp]_vars
=============================================================================
