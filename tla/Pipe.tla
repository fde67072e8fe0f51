-------------------------------- MODULE Pipe --------------------------------
(***************************************************************************)
(* The pipelined processor: the control of lab7/sim/pipe/pipe-full.hcl in   *)
(* the simulator psim.c.  The lab's hand-written part is iaddq and a branch *)
(* prediction: a jump that follows an arithmetic instruction that follows a *)
(* store of a positive value is taken not to jump, and a flag travels with  *)
(* the jump in valB and valE to say so.                                     *)
(*                                                                          *)
(* The signals have the names of the HCL file and are computed from the     *)
(* pipeline registers F, D, E, M, W.  Cycle is one sim_step_pipe(), from    *)
(* one evaluation of the signals to the next: write back, memory, flags,    *)
(* then the pipeline registers.                                             *)
(***************************************************************************)
EXTENDS Y86

VARIABLES prog, reg, mem, cc,
          F,              \* predPC
          D, E, M, W      \* the pipeline registers, each a record of its fields

vars == <<prog, reg, mem, cc, F, D, E, M, W>>

bubble_if_id == [stat |-> "BUB", icode |-> "INOP", ifun |-> F_NONE, rA |-> RNONE,
                 rB |-> RNONE, valC |-> 0, valP |-> 0, pc |-> 0]

bubble_id_ex == [stat |-> "BUB", icode |-> "INOP", ifun |-> F_NONE, valC |-> 0,
                 valA |-> 0, valB |-> 0, dstE |-> RNONE, dstM |-> RNONE, pc |-> 0]

bubble_ex_mem == [stat |-> "BUB", icode |-> "INOP", Cnd |-> 0, valE |-> 0,
                  valA |-> 0, dstE |-> RNONE, dstM |-> RNONE, pc |-> 0]

bubble_mem_wb == [stat |-> "BUB", icode |-> "INOP", valE |-> 0, valM |-> 0,
                  dstE |-> RNONE, dstM |-> RNONE, pc |-> 0]

\* sim_reset().
Reset ==
  /\ reg = [r \in REGS |-> 0]
  /\ mem = [a \in 0 .. MEM_LEN - 1 |-> 0]
  /\ cc = DEFAULT_CC
  /\ F = 0
  /\ D = bubble_if_id /\ E = bubble_id_ex /\ M = bubble_ex_mem /\ W = bubble_mem_wb

Init == prog \in Programs /\ Reset

Exceptional == {"ADR", "INS", "HLT"}

-----------------------------------------------------------------------------
(* Fetch.                                                                   *)

f_pc ==
  IF M.icode = "IJXX" /\ M.valE = M.Cnd THEN M.valA
  ELSE IF W.icode = "IRET" THEN W.valM
  ELSE F

imem_error == ~HasInstruction(f_pc)

f_icode == IF imem_error THEN "INOP" ELSE prog[f_pc].icode

f_ifun == IF imem_error THEN F_NONE ELSE prog[f_pc].ifun

instr_valid == f_icode \in ICodes

f_stat == CASE imem_error -> "ADR"
            [] ~instr_valid -> "INS"
            [] f_icode = "IHALT" -> "HLT"
            [] OTHER -> "AOK"

need_regids ==
  f_icode \in {"IRRMOVQ", "IOPQ", "IPUSHQ", "IPOPQ", "IIRMOVQ", "IRMMOVQ", "IMRMOVQ", "IIADDQ"}

need_valC == f_icode \in {"IIRMOVQ", "IRMMOVQ", "IMRMOVQ", "IJXX", "ICALL", "IIADDQ"}

f_valC == IF need_valC THEN prog[f_pc].valC ELSE 0

f_valP == Wrap(f_pc + 1)

ExpectedNotTaken ==
  f_icode = "IJXX" /\ E.icode = "IRMMOVQ" /\ E.valA > 0 /\ D.icode = "IOPQ"

f_predPC == IF f_icode \in {"ICALL", "IJXX"} /\ ~ExpectedNotTaken THEN f_valC ELSE f_valP

if_id_next ==
  [stat |-> f_stat, icode |-> f_icode, ifun |-> f_ifun,
   rA |-> IF need_regids THEN prog[f_pc].rA ELSE RNONE,
   rB |-> IF need_regids THEN prog[f_pc].rB ELSE RNONE,
   valC |-> f_valC, valP |-> f_valP, pc |-> f_pc]

(* Memory.                                                                  *)

mem_addr == CASE M.icode \in {"IRMMOVQ", "IPUSHQ", "ICALL", "IMRMOVQ"} -> M.valE
              [] M.icode \in {"IPOPQ", "IRET"} -> M.valA
              [] OTHER -> 0

mem_read == M.icode \in {"IMRMOVQ", "IPOPQ", "IRET"}

mem_write == M.icode \in {"IRMMOVQ", "IPUSHQ", "ICALL"}

dmem_error == (mem_read \/ mem_write) /\ ~InMemory(mem_addr)

m_valM == IF mem_read /\ ~dmem_error THEN mem[mem_addr] ELSE 0

m_stat == IF dmem_error THEN "ADR" ELSE M.stat

mem_wb_next ==
  [stat |-> m_stat, icode |-> M.icode, valE |-> M.valE, valM |-> m_valM,
   dstE |-> M.dstE, dstM |-> M.dstM, pc |-> M.pc]

(* Execute.                                                                 *)

aluA == CASE E.icode \in {"IRRMOVQ", "IOPQ"} -> E.valA
          [] E.icode \in {"IIRMOVQ", "IRMMOVQ", "IMRMOVQ", "IIADDQ"} -> E.valC
          [] E.icode \in {"ICALL", "IPUSHQ"} -> -1
          [] E.icode \in {"IRET", "IPOPQ"} -> 1
          [] OTHER -> 0

aluB == IF E.icode \in {"IRMMOVQ", "IMRMOVQ", "IOPQ", "ICALL", "IPUSHQ", "IRET",
                        "IPOPQ", "IIADDQ", "IJXX"}
        THEN E.valB ELSE 0

alufun == IF E.icode \in {"IOPQ", "IIADDQ"} THEN E.ifun ELSE A_ADD

set_cc == /\ E.icode \in {"IOPQ", "IIADDQ"}
          /\ m_stat \notin Exceptional /\ W.stat \notin Exceptional

e_Cnd == CondHolds(cc, E.ifun)

e_valE == ComputeAlu(alufun, aluA, aluB)

e_valA == IF E.icode = "IJXX" /\ E.valB = 1 THEN E.valC ELSE E.valA

e_dstE == IF E.icode = "IRRMOVQ" /\ ~e_Cnd THEN RNONE ELSE E.dstE

ex_mem_next ==
  [stat |-> E.stat, icode |-> E.icode, Cnd |-> IF e_Cnd THEN 1 ELSE 0, valE |-> e_valE, valA |-> e_valA,
   dstE |-> e_dstE, dstM |-> E.dstM, pc |-> E.pc]

(* Decode and write back.                                                   *)

d_srcA == CASE D.icode \in {"IRRMOVQ", "IRMMOVQ", "IOPQ", "IPUSHQ"} -> D.rA
            [] D.icode \in {"IPOPQ", "IRET"} -> RSP
            [] OTHER -> RNONE

d_srcB == CASE D.icode \in {"IOPQ", "IRMMOVQ", "IMRMOVQ", "IIADDQ"} -> D.rB
            [] D.icode \in {"IPUSHQ", "IPOPQ", "ICALL", "IRET"} -> RSP
            [] OTHER -> RNONE

d_dstE == CASE D.icode \in {"IRRMOVQ", "IIRMOVQ", "IOPQ", "IIADDQ"} -> D.rB
            [] D.icode \in {"IPUSHQ", "IPOPQ", "ICALL", "IRET"} -> RSP
            [] OTHER -> RNONE

d_dstM == IF D.icode \in {"IMRMOVQ", "IPOPQ"} THEN D.rA ELSE RNONE

\* Faulty variant: the older of two values in the pipeline is forwarded.
Forwarded_OldestFirst(src) ==
  IF src = W.dstM THEN W.valM
  ELSE IF src = W.dstE THEN W.valE
  ELSE IF src = M.dstM THEN m_valM
  ELSE IF src = M.dstE THEN M.valE
  ELSE IF src = e_dstE THEN e_valE
  ELSE RegVal(reg, src)

\* The newest value of register src, the first of these that has one.
Forwarded(src) ==
  IF src = e_dstE THEN e_valE
  ELSE IF src = M.dstM THEN m_valM
  ELSE IF src = M.dstE THEN M.valE
  ELSE IF src = W.dstM THEN W.valM
  ELSE IF src = W.dstE THEN W.valE
  ELSE RegVal(reg, src)

d_valA == IF D.icode \in {"ICALL", "IJXX"} THEN D.valP ELSE Forwarded(d_srcA)

\* For a jump the flag of the prediction, 1 for not taken.
d_valB ==
  IF D.icode = "IJXX"
  THEN IF M.icode = "IRMMOVQ" /\ M.valA > 0 THEN 1 ELSE 0
  ELSE Forwarded(d_srcB)

id_ex_next ==
  [stat |-> D.stat, icode |-> D.icode, ifun |-> D.ifun, valC |-> D.valC,
   valA |-> d_valA, valB |-> d_valB, dstE |-> d_dstE, dstM |-> d_dstM, pc |-> D.pc]

Stat == IF W.stat = "BUB" THEN "AOK" ELSE W.stat

-----------------------------------------------------------------------------
(* Control of the pipeline registers.                                       *)

\* Faulty variant: the load is looked for one stage too early.
LoadUse_InDecode == D.icode \in {"IMRMOVQ", "IPOPQ"} /\ d_dstM \in {d_srcA, d_srcB}

LoadUse == E.icode \in {"IMRMOVQ", "IPOPQ"} /\ E.dstM \in {d_srcA, d_srcB}

Returning == "IRET" \in {D.icode, E.icode, M.icode}

Mispredicted == \/ E.icode = "IJXX" /\ ~e_Cnd /\ E.valB = 0
                \/ E.icode = "IJXX" /\ e_Cnd /\ E.valB = 1

F_stall == LoadUse \/ Returning

D_stall == LoadUse

D_bubble == Mispredicted \/ (~LoadUse /\ Returning)

E_bubble == Mispredicted \/ LoadUse

M_bubble == m_stat \in Exceptional \/ W.stat \in Exceptional

W_stall == W.stat \in Exceptional

\* pipe_cntl() and update_pipes() for one pipeline register.
Clocked(stall, bubble, current, next, bubble_val) ==
  CASE stall /\ bubble -> [bubble_val EXCEPT !.stat = "PIP"]
    [] stall /\ ~bubble -> current
    [] ~stall /\ bubble -> bubble_val
    [] OTHER -> next

\* sim_run_pipe() goes on while the status is AOK.
Cycle ==
  /\ Stat = "AOK"
  /\ reg' = WithReg(WithReg(reg, W.dstE, W.valE), W.dstM, W.valM)
  /\ mem' = IF mem_write /\ ~dmem_error THEN [mem EXCEPT ![mem_addr] = M.valA] ELSE mem
  /\ cc' = IF set_cc THEN ComputeCc(alufun, aluA, aluB) ELSE cc
  /\ F' = IF F_stall THEN F ELSE f_predPC
  /\ D' = Clocked(D_stall, D_bubble, D, if_id_next, bubble_if_id)
  /\ E' = Clocked(FALSE, E_bubble, E, id_ex_next, bubble_id_ex)
  /\ M' = Clocked(FALSE, M_bubble, M, ex_mem_next, bubble_ex_mem)
  /\ W' = Clocked(W_stall, FALSE, W, mem_wb_next, bubble_mem_wb)
  /\ UNCHANGED prog

Next == Cycle

Spec == Init /\ [][Next]_vars

-----------------------------------------------------------------------------
(* The machine a programmer sees.  An instruction is executed when it goes  *)
(* from E to M: from there on it reaches W and the register file whatever   *)
(* happens.  The programmer's state is what is left when the instructions   *)
(* in M and W are finished and those in D and E forgotten.                  *)

Stopped == m_stat \in Exceptional \/ W.stat \in Exceptional

Executes == E.stat # "BUB" /\ ~M_bubble

\* What instruction i in M or W leaves of registers r.
Finished(r, i) ==
  IF i.stat \in Exceptional THEN r ELSE WithReg(WithReg(r, i.dstE, i.valE), i.dstM, i.valM)

SeenReg == Finished(Finished(reg, W), mem_wb_next)

SeenMem == IF mem_write /\ ~dmem_error THEN [mem EXCEPT ![mem_addr] = M.valA] ELSE mem

SeenStat == CASE W.stat \in Exceptional -> W.stat
              [] W.stat \notin Exceptional /\ m_stat \in Exceptional -> m_stat
              [] OTHER -> "AOK"

\* The instruction that stopped, or else the next to be executed.
SeenPc == IF W.stat \in Exceptional THEN W.pc
          ELSE IF m_stat \in Exceptional THEN M.pc
          ELSE IF E.stat # "BUB" THEN E.pc
          ELSE IF D.stat # "BUB" THEN D.pc
          ELSE IF M.icode = "IRET" THEN m_valM
          ELSE f_pc

IsIsa == INSTANCE Isa WITH pc <- SeenPc, reg <- SeenReg, mem <- SeenMem, stat <- SeenStat

-----------------------------------------------------------------------------
(* Where the control above goes wrong.                                      *)

\* f_predPC and d_valB disagree: the jump in D was predicted to be taken, as
\* the instruction behind the store is no arithmetic, and gets the flag of the
\* other prediction.
StrayFlag ==
  D.icode = "IJXX" /\ M.icode = "IRMMOVQ" /\ M.valA > 0 /\ E.icode # "IOPQ"

\* An address without a base is given the value some instruction ahead has
\* computed for no register.
StrayBase ==
  D.icode \in {"IRMMOVQ", "IMRMOVQ"} /\ D.rB = RNONE /\ d_valB # 0

Misled == StrayFlag \/ StrayBase

\* The runs in which neither happens.
SteadySpec == Init /\ [][~Misled /\ Cycle]_vars

\* Every cycle of psim executes one instruction of isa.c or none, as the
\* programmer sees it: whatever is stalled, forwarded, predicted and cancelled.
\* Exempted is %rsp after a push, call or pop that fails: isa.c has moved it,
\* and M_bubble and W_stall keep the processor from it.
PipeIsIsaButForRsp == IsIsa!SpecButForRsp
=============================================================================
