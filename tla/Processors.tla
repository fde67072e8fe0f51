----------------------------- MODULE Processors -----------------------------
(***************************************************************************)
(* One program on all the machines of labs 5 and 7: the pipelined processor *)
(* runs cycle by cycle, and each time it executes an instruction, the       *)
(* sequential one and the simulator of lab 5 do one step.                   *)
(***************************************************************************)
EXTENDS Pipe

CONSTANT INT_HALF   \* of Y64sim

ASSUME IntAssumption == INT_HALF \in 1 .. HALF

VARIABLES seqPc, seqReg, seqMem, seqCc, seqStatus,
          y64Pc, y64Reg, y64Mem, y64Cc, y64Stat

Ssim == INSTANCE Seq WITH pc <- seqPc, reg <- seqReg, mem <- seqMem, cc <- seqCc,
                          status <- seqStatus

Yat == INSTANCE Y64sim WITH pc <- y64Pc, reg <- y64Reg, mem <- y64Mem, cc <- y64Cc,
                            stat <- y64Stat

seqVars == <<seqPc, seqReg, seqMem, seqCc, seqStatus>>

y64Vars == <<y64Pc, y64Reg, y64Mem, y64Cc, y64Stat>>

allVars == <<vars, seqVars, y64Vars>>

InitAll == Init /\ Ssim!Reset /\ Yat!Reset

StepOfSeq ==
  \/ Executes /\ Ssim!SimStep
  \/ ~Executes /\ UNCHANGED seqVars

StepOfY64 ==
  \/ Executes /\ y64Stat = "AOK" /\ Yat!Next
  \/ (Executes => y64Stat # "AOK") /\ UNCHANGED y64Vars

NextAll == Cycle /\ StepOfSeq /\ StepOfY64

SpecAll == InitAll /\ [][NextAll]_allVars

\* Runs in which the pipeline is not misled, and goes on: sim_run_pipe() is a
\* loop.
SteadyAll == InitAll /\ [][~Misled /\ NextAll]_allVars /\ WF_allVars(~Misled /\ NextAll)

-----------------------------------------------------------------------------

\* Every cycle of ssim is one instruction of isa.c: same effect on pc,
\* registers, memory and flags, same status, but for the %rsp of a push, call or
\* pop that fails.
SeqIsIsaButForRsp == Ssim!IsIsaButForRsp

\* y64sim leaves the instruction set exactly at the steps Deviates lists: in
\* flags, in addresses outside memory, in calls and returns to address 0, and
\* in iaddq.
Y64DeviatesThereOnly == Yat!DeviatesThereOnly

\* psim goes on executing instructions until it stops: no stall is for ever
\* and no wrong path is followed for good.
KeepsExecuting == []<>(Executes \/ Stopped \/ Misled)
=============================================================================
