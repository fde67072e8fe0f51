-------------------------------- MODULE Seq --------------------------------
(***************************************************************************)
(* The sequential processor: the control of lab7/sim/seq/seq-full.hcl, with *)
(* iaddq, in the simulator ssim.c.  It executes one instruction per cycle.  *)
(* The signals have the names of the HCL file; sim_step() computes them     *)
(* from the state and the next call of it writes their values back, unless  *)
(* the status has ended the run before.                                     *)
(***************************************************************************)
EXTENDS Y86

VARIABLES prog, pc, reg, mem, cc,
          status                    \* what the last sim_step() returned

vars == <<prog, pc, reg, mem, cc, status>>

TypeOK ==
  /\ prog \in Programs
  /\ pc \in Word /\ reg \in Registers /\ mem \in Memory
  /\ cc \in Flags /\ status \in Status

Reset ==
  /\ pc = 0
  /\ reg = [r \in REGS |-> 0]
  /\ mem = [a \in 0 .. MEM_LEN - 1 |-> 0]
  /\ cc = DEFAULT_CC
  /\ status = "AOK"

Init == prog \in Programs /\ Reset

-----------------------------------------------------------------------------
(* Fetch.                                                                   *)

imem_error == ~HasInstruction(pc)

icode == IF imem_error THEN "INOP" ELSE prog[pc].icode

ifun == IF imem_error THEN F_NONE ELSE prog[pc].ifun

instr_valid == icode \in ICodes

need_regids ==
  icode \in {"IRRMOVQ", "IOPQ", "IPUSHQ", "IPOPQ", "IIRMOVQ", "IRMMOVQ", "IMRMOVQ", "IIADDQ"}

need_valC == icode \in {"IIRMOVQ", "IRMMOVQ", "IMRMOVQ", "IJXX", "ICALL", "IIADDQ"}

rA == IF need_regids THEN prog[pc].rA ELSE RNONE

rB == IF need_regids THEN prog[pc].rB ELSE RNONE

valC == IF need_valC THEN prog[pc].valC ELSE 0

valP == Wrap(pc + 1)

(* Decode.                                                                  *)

srcA == CASE icode \in {"IRRMOVQ", "IRMMOVQ", "IOPQ", "IPUSHQ"} -> rA
          [] icode \in {"IPOPQ", "IRET"} -> RSP
          [] OTHER -> RNONE

srcB == CASE icode \in {"IOPQ", "IRMMOVQ", "IMRMOVQ", "IIADDQ"} -> rB
          [] icode \in {"IPUSHQ", "IPOPQ", "ICALL", "IRET"} -> RSP
          [] OTHER -> RNONE

valA == RegVal(reg, srcA)

valB == RegVal(reg, srcB)

Cnd == CondHolds(cc, ifun)

\* Faulty variant: a conditional move is made whatever the flags say.
dstE_Unconditional ==
  CASE icode \in {"IRRMOVQ", "IIRMOVQ", "IOPQ", "IIADDQ"} -> rB
    [] icode \in {"IPUSHQ", "IPOPQ", "ICALL", "IRET"} -> RSP
    [] OTHER -> RNONE

dstE == CASE icode = "IRRMOVQ" /\ Cnd -> rB
          [] icode \in {"IIRMOVQ", "IOPQ", "IIADDQ"} -> rB
          [] icode \in {"IPUSHQ", "IPOPQ", "ICALL", "IRET"} -> RSP
          [] OTHER -> RNONE

dstM == IF icode \in {"IMRMOVQ", "IPOPQ"} THEN rA ELSE RNONE

(* Execute.                                                                 *)

aluA == CASE icode \in {"IRRMOVQ", "IOPQ"} -> valA
          [] icode \in {"IIRMOVQ", "IRMMOVQ", "IMRMOVQ", "IIADDQ"} -> valC
          [] icode \in {"ICALL", "IPUSHQ"} -> -1
          [] icode \in {"IRET", "IPOPQ"} -> 1
          [] OTHER -> 0

aluB == IF icode \in {"IRMMOVQ", "IMRMOVQ", "IOPQ", "ICALL", "IPUSHQ", "IRET", "IPOPQ", "IIADDQ"}
        THEN valB ELSE 0

alufun == IF icode \in {"IOPQ", "IIADDQ"} THEN ifun ELSE A_ADD

valE == ComputeAlu(alufun, aluA, aluB)

set_cc == icode \in {"IOPQ", "IIADDQ"}

(* Memory.                                                                  *)

mem_read == icode \in {"IMRMOVQ", "IPOPQ", "IRET"}

mem_write == icode \in {"IRMMOVQ", "IPUSHQ", "ICALL"}

mem_addr == CASE icode \in {"IRMMOVQ", "IPUSHQ", "ICALL", "IMRMOVQ"} -> valE
              [] icode \in {"IPOPQ", "IRET"} -> valA
              [] OTHER -> 0

mem_data == CASE icode \in {"IRMMOVQ", "IPUSHQ"} -> valA
              [] icode = "ICALL" -> valP
              [] OTHER -> 0

dmem_error == (mem_read \/ mem_write) /\ ~InMemory(mem_addr)

valM == IF mem_read /\ ~dmem_error THEN mem[mem_addr] ELSE 0

Stat == CASE imem_error \/ dmem_error -> "ADR"
          [] ~instr_valid -> "INS"
          [] icode = "IHALT" -> "HLT"
          [] OTHER -> "AOK"

(* Program counter.                                                         *)

new_pc == CASE icode = "ICALL" -> valC
            [] icode = "IJXX" /\ Cnd -> valC
            [] icode = "IRET" -> valM
            [] OTHER -> valP

-----------------------------------------------------------------------------

UpdateState ==
  /\ pc' = new_pc
  /\ cc' = IF set_cc THEN ComputeCc(alufun, aluA, aluB) ELSE cc
  /\ reg' = WithReg(WithReg(reg, dstE, valE), dstM, valM)
  /\ mem' = IF mem_write THEN [mem EXCEPT ![mem_addr] = mem_data] ELSE mem

SimStep ==
  /\ status = "AOK"
  /\ status' = Stat
  /\ IF Stat = "AOK" THEN UpdateState ELSE UNCHANGED <<pc, reg, mem, cc>>
  /\ UNCHANGED prog

Next == SimStep

Spec == Init /\ [][Next]_vars

\* The sequential processor executes the instruction set: every cycle is one
\* instruction of isa.c, with the same effect on pc, registers, memory, flags
\* and the same status.  Exempted is %rsp after a push, call or pop that fails:
\* isa.c has moved it, sim_step() has not.
IsIsa == INSTANCE Isa WITH stat <- status

IsIsaButForRsp == IsIsa!SpecButForRsp
=============================================================================
