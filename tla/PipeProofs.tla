----------------------------- MODULE PipeProofs -----------------------------
(***************************************************************************)
(* The pipelined processor implements the instruction set whenever it is    *)
(* not misled: proofs about Pipe.  The invariant says of every stage what   *)
(* the instruction in it knows of the program and of the registers, where   *)
(* the instructions behind it come from, and when there are none.  The last *)
(* section is about the machines of Processors, which run in step with it.  *)
(***************************************************************************)
EXTENDS Processors, TLAPS

-----------------------------------------------------------------------------
(* Words, flags and the register file of Y86.                               *)

\* Wrapping a sum or a difference of two words gives a word.
LEMMA WrapType == \A n \in -2 * HALF .. 2 * HALF : Wrap(n) \in Word
BY HalfAssumption DEF Wrap, Word

\* Wrapping changes no word.
LEMMA WrapWord == \A n \in Word : Wrap(n) = n
BY HalfAssumption DEF Wrap, Word

\* The result of the arithmetic unit is a word.
LEMMA AluType ==
  ASSUME NEW op, NEW a \in Word, NEW b \in Word
  PROVE  ComputeAlu(op, a, b) \in Word
<1>1. a + b \in -2 * HALF .. 2 * HALF /\ b - a \in -2 * HALF .. 2 * HALF
  BY HalfAssumption DEF Word
<1>2. 0 \in Word
  BY HalfAssumption DEF Word
<1> QED BY <1>1, <1>2, WrapType, BitwiseAssumption DEF ComputeAlu

\* Addresses of instructions and of data, and their neighbours, are words.
LEMMA AddressesAreWords ==
  /\ \A a \in Word : HasInstruction(a) => a + 1 \in Word /\ a \in 0 .. PROG_LEN - 1
  /\ \A a \in Word : InMemory(a) => a \in 0 .. MEM_LEN - 1
  /\ 0 \in Word /\ 1 \in Word /\ -1 \in Word
BY HalfAssumption, LengthAssumption DEF HasInstruction, InMemory, Word

\* A register read is a word.
LEMMA RegValType ==
  ASSUME NEW r \in Registers, NEW id \in REGS \union {RNONE}
  PROVE  RegVal(r, id) \in Word
BY AddressesAreWords DEF RegVal, Registers

\* Writing a word to a register leaves a register file.
LEMMA WithRegType ==
  ASSUME NEW r \in Registers, NEW id \in REGS \union {RNONE}, NEW val \in Word
  PROVE  WithReg(r, id, val) \in Registers
BY DEF WithReg, Registers

\* The flags are flags.
LEMMA CcType ==
  ASSUME NEW op, NEW a, NEW b
  PROVE  ComputeCc(op, a, b) \in Flags
<1> ComputeCc(op, a, b) \subseteq {"ZF", "SF", "OF"}
  BY DEF ComputeCc, PackCc
<1> QED BY DEF Flags

-----------------------------------------------------------------------------
(* What fetch delivers from an address, and decode from that.               *)

StatAt(a) == CASE ~HasInstruction(a) -> "ADR"
               [] HasInstruction(a) /\ prog[a].icode \notin ICodes -> "INS"
               [] HasInstruction(a) /\ prog[a].icode = "IHALT" -> "HLT"
               [] OTHER -> "AOK"

IcodeAt(a) == IF HasInstruction(a) THEN prog[a].icode ELSE "INOP"

IfunAt(a) == IF HasInstruction(a) THEN prog[a].ifun ELSE F_NONE

NamesRegisters(icode) ==
  icode \in {"IRRMOVQ", "IOPQ", "IPUSHQ", "IPOPQ", "IIRMOVQ", "IRMMOVQ", "IMRMOVQ", "IIADDQ"}

HasConstant(icode) ==
  icode \in {"IIRMOVQ", "IRMMOVQ", "IMRMOVQ", "IJXX", "ICALL", "IIADDQ"}

InstructionAt(a) ==
  [stat |-> StatAt(a), icode |-> IcodeAt(a), ifun |-> IfunAt(a),
   rA |-> IF NamesRegisters(IcodeAt(a)) THEN prog[a].rA ELSE RNONE,
   rB |-> IF NamesRegisters(IcodeAt(a)) THEN prog[a].rB ELSE RNONE,
   valC |-> IF HasConstant(IcodeAt(a)) THEN prog[a].valC ELSE 0,
   valP |-> Wrap(a + 1), pc |-> a]

SrcA(i) == CASE i.icode \in {"IRRMOVQ", "IRMMOVQ", "IOPQ", "IPUSHQ"} -> i.rA
             [] i.icode \in {"IPOPQ", "IRET"} -> RSP
             [] OTHER -> RNONE

SrcB(i) == CASE i.icode \in {"IOPQ", "IRMMOVQ", "IMRMOVQ", "IIADDQ"} -> i.rB
             [] i.icode \in {"IPUSHQ", "IPOPQ", "ICALL", "IRET"} -> RSP
             [] OTHER -> RNONE

DstE(i) == CASE i.icode \in {"IRRMOVQ", "IIRMOVQ", "IOPQ", "IIADDQ"} -> i.rB
             [] i.icode \in {"IPUSHQ", "IPOPQ", "ICALL", "IRET"} -> RSP
             [] OTHER -> RNONE

DstM(i) == IF i.icode \in {"IMRMOVQ", "IPOPQ"} THEN i.rA ELSE RNONE

\* Instruction i in E with values a and b for its operands.
Decoded(i, a, b) ==
  [stat |-> i.stat, icode |-> i.icode, ifun |-> i.ifun, valC |-> i.valC,
   valA |-> a, valB |-> b, dstE |-> DstE(i), dstM |-> DstM(i), pc |-> i.pc]

-----------------------------------------------------------------------------
(* The invariant.                                                           *)

Empty(i) == i.stat = "BUB"

RegId == REGS \union {RNONE}

StageStat == {"BUB", "AOK"} \union Exceptional

TypeD == D.pc \in Word /\ D = IF Empty(D) THEN bubble_if_id ELSE InstructionAt(D.pc)

\* The instruction in E as it was in D.
InE == IF Empty(E) THEN bubble_if_id ELSE InstructionAt(E.pc)

TypeE == /\ E.pc \in Word /\ E.valA \in Word /\ E.valB \in Word
         /\ E = Decoded(InE, E.valA, E.valB)

TypeM ==
  M \in [stat : StageStat, icode : ICodes \union {"bad"}, Cnd : {0, 1}, valE : Word,
         valA : Word, dstE : RegId, dstM : RegId, pc : Word]

TypeW ==
  W \in [stat : StageStat, icode : ICodes \union {"bad"}, valE : Word, valM : Word,
         dstE : RegId, dstM : RegId, pc : Word]

\* Every stage holds an instruction of the program, or none.
TypeInv ==
  /\ prog \in Programs /\ reg \in Registers /\ mem \in Memory /\ cc \in Flags /\ F \in Word
  /\ TypeD /\ TypeE /\ TypeM /\ TypeW

Redirecting == M.icode = "IJXX" /\ M.valE = M.Cnd

\* Nothing is behind a mispredicted jump or a return that is not resolved yet.
NothingBehind ==
  /\ Redirecting => Empty(D) /\ Empty(E)
  /\ M.icode = "IRET" => Empty(D) /\ Empty(E)
  /\ W.icode = "IRET" => Empty(D) /\ Empty(E) /\ M.icode = "INOP"
  /\ E.icode = "IRET" => Empty(D)

\* The prediction for the jump in D, while it is there: 1 is not taken.
NotTakenD == M.icode = "IRMMOVQ" /\ M.valA > 0 /\ E.icode = "IOPQ"

Predicted(i, notTaken) ==
  IF i.icode = "ICALL" \/ (i.icode = "IJXX" /\ ~notTaken) THEN i.valC ELSE i.valP

\* Each instruction is followed by the one that is predicted to come next.
OnPath ==
  /\ ~Empty(D) /\ D.icode # "IRET" => F = Predicted(D, NotTakenD)
  /\ ~Empty(E) /\ E.icode # "IRET" => ~Empty(D) /\ D.pc = Predicted(InE, E.valB = 1)

\* The operands in E are the registers as the programmer sees them.
Operands ==
  ~Empty(E) =>
    /\ SrcA(InE) \in REGS => E.valA = SeenReg[SrcA(InE)]
    /\ SrcB(InE) \in REGS => E.valB = SeenReg[SrcB(InE)]
    /\ E.icode \in {"ICALL", "IJXX"} => E.valA = InE.valP
    /\ E.icode = "IJXX" => E.valB \in {0, 1}
    /\ E.icode \in {"IRMMOVQ", "IMRMOVQ"} /\ SrcB(InE) = RNONE => E.valB = 0

IInv == TypeInv /\ (~Stopped => NothingBehind /\ OnPath /\ Operands)

-----------------------------------------------------------------------------
(* Types.                                                                   *)

\* What is true of every instruction that fetch delivers.
WellFormed(i) ==
  /\ i.stat \in StageStat
  /\ i.icode \in ICodes \union {"bad"}
  /\ i.ifun \in 0 .. 6
  /\ i.rA \in RegId /\ i.rB \in RegId
  /\ i.valC \in Word /\ i.valP \in Word /\ i.pc \in Word
  /\ Assembled(i)
  /\ i.icode = "IHALT" <=> i.stat = "HLT"
  /\ i.icode = "bad" <=> i.stat = "INS"
  /\ i.stat \in {"ADR", "BUB"} => i.icode = "INOP"

\* What fetch delivers from any address is well formed: no bubble, and its
\* address with it.
LEMMA FetchWellFormed ==
  ASSUME prog \in Programs, NEW a \in Word
  PROVE  /\ WellFormed(InstructionAt(a)) /\ InstructionAt(a).stat # "BUB"
         /\ InstructionAt(a).pc = a
<1> DEFINE i == InstructionAt(a)
<1>1. /\ i.stat = StatAt(a) /\ i.icode = IcodeAt(a) /\ i.ifun = IfunAt(a)
      /\ i.rA = IF NamesRegisters(IcodeAt(a)) THEN prog[a].rA ELSE RNONE
      /\ i.rB = IF NamesRegisters(IcodeAt(a)) THEN prog[a].rB ELSE RNONE
      /\ i.valC = IF HasConstant(IcodeAt(a)) THEN prog[a].valC ELSE 0
      /\ i.valP = Wrap(a + 1) /\ i.pc = a
  BY DEF InstructionAt
<1> SUFFICES WellFormed(i) /\ i.stat # "BUB" /\ i.pc = a
  OBVIOUS
<1> HIDE DEF i
<1>2. i.valP \in Word
  BY <1>1, WrapType, HalfAssumption DEF Word
<1>3. CASE ~HasInstruction(a)
  <2>1. i.icode = "INOP" /\ i.ifun = 0 /\ i.stat = "ADR"
    BY <1>1, <1>3 DEF StatAt, IcodeAt, IfunAt, F_NONE
  <2>2. i.rA = RNONE /\ i.rB = RNONE /\ i.valC = 0
    BY <1>1, <2>1 DEF NamesRegisters, HasConstant
  <2> QED BY <1>1, <1>2, <2>1, <2>2, AddressesAreWords
          DEF WellFormed, StageStat, Exceptional, RegId, ICodes, Assembled
<1>4. CASE HasInstruction(a)
  <2>1. prog[a] \in Instruction /\ Assembled(prog[a])
    BY <1>4, AddressesAreWords, ProgramAssumption
  <2>2. i.icode = prog[a].icode /\ i.ifun = prog[a].ifun
    BY <1>1, <1>4 DEF IcodeAt, IfunAt
  <2>3. i.rA \in RegId /\ i.rB \in RegId /\ i.valC \in Word /\ i.ifun \in 0 .. 6
    BY <1>1, <2>1, <2>2, AddressesAreWords DEF Instruction, RegId
  <2>4. Assembled(i)
    BY <1>1, <2>1, <2>2 DEF Assembled, NamesRegisters
  <2>5. i.icode \in ICodes \union {"bad"} /\ "bad" \notin ICodes /\ "IHALT" \in ICodes
    BY <2>1, <2>2 DEF Instruction, ICodes
  <2>6. i.stat = CASE i.icode = "bad" -> "INS" [] i.icode = "IHALT" -> "HLT" [] OTHER -> "AOK"
    BY <1>1, <1>4, <2>2, <2>5 DEF StatAt
  <2>7. /\ i.icode = "IHALT" <=> i.stat = "HLT"
        /\ i.icode = "bad" <=> i.stat = "INS"
        /\ i.stat \in {"AOK", "HLT", "INS"}
    BY <2>6
  <2> QED BY <1>1, <1>2, <2>3, <2>4, <2>5, <2>7
          DEF WellFormed, StageStat, Exceptional
<1> QED BY <1>3, <1>4

\* The bubble that decode gets is well formed.
LEMMA BubbleWellFormed == WellFormed(bubble_if_id)
BY AddressesAreWords
DEF WellFormed, bubble_if_id, StageStat, Exceptional, RegId, ICodes, Assembled, F_NONE

\* So are the instructions in D and in E.
LEMMA StagesWellFormed ==
  ASSUME TypeInv
  PROVE  WellFormed(D) /\ WellFormed(InE)
BY FetchWellFormed, BubbleWellFormed DEF TypeInv, TypeD, TypeE, InE

\* The instruction in E and what decode has made of it.
LEMMA StageE ==
  ASSUME TypeInv
  PROVE  /\ E.stat = InE.stat /\ E.icode = InE.icode /\ E.ifun = InE.ifun
         /\ E.valC = InE.valC /\ E.pc = InE.pc
         /\ E.dstE = DstE(InE) /\ E.dstM = DstM(InE)
         /\ E.valA \in Word /\ E.valB \in Word
<1>1. E = Decoded(InE, E.valA, E.valB)
  BY DEF TypeInv, TypeE
<1>2. /\ E.stat = Decoded(InE, E.valA, E.valB).stat
      /\ E.icode = Decoded(InE, E.valA, E.valB).icode
      /\ E.ifun = Decoded(InE, E.valA, E.valB).ifun
      /\ E.valC = Decoded(InE, E.valA, E.valB).valC
      /\ E.pc = Decoded(InE, E.valA, E.valB).pc
      /\ E.dstE = Decoded(InE, E.valA, E.valB).dstE
      /\ E.dstM = Decoded(InE, E.valA, E.valB).dstM
  BY <1>1
<1> QED BY <1>2 DEF TypeInv, TypeE, Decoded

\* What M and W hold.
LEMMA StagesMW ==
  ASSUME TypeInv
  PROVE  /\ M.stat \in StageStat /\ M.icode \in ICodes \union {"bad"} /\ M.Cnd \in {0, 1}
         /\ M.valE \in Word /\ M.valA \in Word /\ M.dstE \in RegId /\ M.dstM \in RegId
         /\ M.pc \in Word
         /\ W.stat \in StageStat /\ W.icode \in ICodes \union {"bad"}
         /\ W.valE \in Word /\ W.valM \in Word /\ W.dstE \in RegId /\ W.dstM \in RegId
         /\ W.pc \in Word
BY DEF TypeInv, TypeM, TypeW

\* The instruction fetch delivers is the one at f_pc.
LEMMA Fetches ==
  ASSUME TypeInv
  PROVE  f_pc \in Word /\ if_id_next = InstructionAt(f_pc)
<1>1. f_pc \in Word
  BY StagesMW DEF f_pc, TypeInv
<1>2. f_icode = IcodeAt(f_pc) /\ f_ifun = IfunAt(f_pc)
  BY DEF f_icode, f_ifun, imem_error, IcodeAt, IfunAt
<1>3. f_stat = StatAt(f_pc)
  <2>1. CASE ~HasInstruction(f_pc)
    BY <2>1 DEF f_stat, imem_error, StatAt
  <2>2. CASE HasInstruction(f_pc)
    <3>1. f_icode = prog[f_pc].icode /\ ~imem_error
      BY <2>2 DEF f_icode, imem_error
    <3> QED BY <2>2, <3>1 DEF f_stat, instr_valid, StatAt
  <2> QED BY <2>1, <2>2
<1>4. need_regids <=> NamesRegisters(IcodeAt(f_pc))
  BY <1>2 DEF need_regids, NamesRegisters
<1>5. need_valC <=> HasConstant(IcodeAt(f_pc))
  BY <1>2 DEF need_valC, HasConstant
<1> QED BY <1>1, <1>2, <1>3, <1>4, <1>5 DEF if_id_next, InstructionAt, f_valC, f_valP

\* The registers that an instruction reads and writes are registers or none.
LEMMA SourcesTyped ==
  ASSUME NEW i, WellFormed(i)
  PROVE  SrcA(i) \in RegId /\ SrcB(i) \in RegId /\ DstE(i) \in RegId /\ DstM(i) \in RegId
BY RegisterAssumption DEF WellFormed, SrcA, SrcB, DstE, DstM, RegId

\* What the signals of execute and memory can be.
LEMMA SignalTypes ==
  ASSUME TypeInv
  PROVE  /\ aluA \in Word /\ aluB \in Word /\ e_valE \in Word /\ e_valA \in Word
         /\ e_dstE \in RegId /\ E.dstM \in RegId /\ m_valM \in Word
         /\ m_stat \in StageStat
         /\ mem_write /\ ~dmem_error => mem_addr \in 0 .. MEM_LEN - 1
<1>1. aluA \in Word /\ aluB \in Word
  BY StageE, StagesWellFormed, AddressesAreWords DEF aluA, aluB, WellFormed
<1>2. e_valE \in Word
  BY <1>1, AluType DEF e_valE
<1>3. e_valA \in Word /\ e_dstE \in RegId /\ E.dstM \in RegId
  BY StageE, StagesWellFormed, SourcesTyped DEF e_valA, e_dstE, WellFormed, RegId
<1>4. mem_addr \in Word
  BY StagesMW, AddressesAreWords DEF mem_addr
<1>5. (mem_read \/ mem_write) /\ ~dmem_error => mem_addr \in 0 .. MEM_LEN - 1
  BY <1>4, AddressesAreWords DEF dmem_error
<1>6. m_valM \in Word
  BY <1>5, AddressesAreWords DEF m_valM, TypeInv, Memory
<1>7. m_stat \in StageStat
  BY StagesMW DEF m_stat, StageStat, Exceptional
<1> QED BY <1>1, <1>2, <1>3, <1>5, <1>6, <1>7

\* What decode is forwarded is a word.
LEMMA ForwardedType ==
  ASSUME TypeInv, NEW r \in RegId
  PROVE  Forwarded(r) \in Word
BY SignalTypes, StagesMW, RegValType DEF Forwarded, TypeInv, RegId

\* Decode reads and writes the registers of the instruction in D.
LEMMA Decodes ==
  ASSUME TypeInv
  PROVE  /\ d_srcA = SrcA(D) /\ d_srcB = SrcB(D)
         /\ id_ex_next = Decoded(D, d_valA, d_valB)
         /\ d_valA \in Word /\ d_valB \in Word
<1>1. d_srcA = SrcA(D) /\ d_srcB = SrcB(D) /\ d_dstE = DstE(D) /\ d_dstM = DstM(D)
  BY DEF d_srcA, SrcA, d_srcB, SrcB, d_dstE, DstE, d_dstM, DstM
<1>2. d_valA \in Word /\ d_valB \in Word
  BY <1>1, StagesWellFormed, SourcesTyped, ForwardedType, AddressesAreWords
  DEF d_valA, d_valB, WellFormed
<1> QED BY <1>1, <1>2 DEF id_ex_next, Decoded

-----------------------------------------------------------------------------
(* A cycle.                                                                 *)

\* What a cycle leaves in the pipeline registers: no stage is ever told both
\* to stall and to be emptied, which the simulator would report.
LEMMA Clocks ==
  ASSUME TypeInv, Cycle
  PROVE  /\ W.stat \notin Exceptional
         /\ F' = IF LoadUse \/ Returning THEN F ELSE f_predPC
         /\ D' = IF LoadUse THEN D
                 ELSE IF Mispredicted \/ Returning THEN bubble_if_id ELSE if_id_next
         /\ E' = IF Mispredicted \/ LoadUse THEN bubble_id_ex ELSE id_ex_next
         /\ M' = IF m_stat \in Exceptional THEN bubble_ex_mem ELSE ex_mem_next
         /\ W' = mem_wb_next
<1>1. W.stat \notin Exceptional
  BY StagesMW DEF Cycle, Stat, StageStat, Exceptional
<1>2. ~(LoadUse /\ Mispredicted)
  BY DEF LoadUse, Mispredicted
<1>3. F' = IF LoadUse \/ Returning THEN F ELSE f_predPC
  BY DEF Cycle, F_stall
<1>4. D' = IF LoadUse THEN D
          ELSE IF Mispredicted \/ Returning THEN bubble_if_id ELSE if_id_next
  BY <1>2 DEF Cycle, Clocked, D_stall, D_bubble
<1>5. E' = IF Mispredicted \/ LoadUse THEN bubble_id_ex ELSE id_ex_next
  BY DEF Cycle, Clocked, E_bubble
<1>6. M' = IF m_stat \in Exceptional THEN bubble_ex_mem ELSE ex_mem_next
  BY <1>1 DEF Cycle, Clocked, M_bubble
<1>7. W' = mem_wb_next
  BY <1>1 DEF Cycle, Clocked, W_stall
<1> QED BY <1>1, <1>3, <1>4, <1>5, <1>6, <1>7

\* A cycle leaves in every stage an instruction of the program, or none.
LEMMA TypeInductive ==
  ASSUME TypeInv, Cycle
  PROVE  TypeInv'
<1>1. reg' \in Registers
  BY StagesMW, WithRegType DEF Cycle, TypeInv, RegId
<1>2. mem' \in Memory
  BY SignalTypes, StagesMW DEF Cycle, TypeInv, Memory
<1>3. cc' \in Flags
  BY CcType DEF Cycle, TypeInv
<1>4. F' \in Word
  <2>1. WellFormed(if_id_next)
    BY Fetches, FetchWellFormed DEF TypeInv
  <2>2. f_valC \in Word /\ f_valP \in Word
    BY <2>1 DEF WellFormed, if_id_next
  <2> QED BY <2>2, Clocks DEF f_predPC, TypeInv
<1>5. TypeD'
  <2>1. CASE D' = D
    BY <2>1 DEF TypeInv, TypeD, Cycle, InstructionAt, StatAt, IcodeAt, IfunAt, Empty
  <2>2. CASE D' = bubble_if_id
    BY <2>2, AddressesAreWords DEF TypeD, bubble_if_id, Empty
  <2>3. CASE D' = InstructionAt(f_pc)
    <3>1. D'.pc = f_pc /\ D'.stat # "BUB" /\ f_pc \in Word
      BY <2>3, Fetches, FetchWellFormed DEF TypeInv
    <3>2. InstructionAt(f_pc) = InstructionAt(D.pc)'
      BY <3>1 DEF Cycle, InstructionAt, StatAt, IcodeAt, IfunAt
    <3> QED BY <2>3, <3>1, <3>2 DEF TypeD, Empty
  <2> QED BY <2>1, <2>2, <2>3, Clocks, Fetches
<1>6. TypeE'
  <2>1. CASE E' = bubble_id_ex
    <3>1. InE' = bubble_if_id /\ E'.pc = 0 /\ E'.valA = 0 /\ E'.valB = 0
      BY <2>1 DEF InE, bubble_id_ex, Empty
    <3>2. bubble_id_ex = Decoded(bubble_if_id, 0, 0)
      BY DEF bubble_id_ex, bubble_if_id, Decoded, DstE, DstM
    <3> QED BY <2>1, <3>1, <3>2, AddressesAreWords DEF TypeE, Decoded, DstE, DstM
  <2>2. CASE E' = id_ex_next
    <3>1. /\ E' = Decoded(D, d_valA, d_valB)
          /\ E'.stat = D.stat /\ E'.pc = D.pc /\ E'.valA = d_valA /\ E'.valB = d_valB
      BY <2>2, Decodes DEF Decoded
    <3>2. InE' = D
      BY <3>1 DEF InE, Empty, TypeInv, TypeD, Cycle, InstructionAt, StatAt, IcodeAt, IfunAt
    <3>3. E' = Decoded(InE, E.valA, E.valB)'
      BY <3>1, <3>2 DEF Decoded, DstE, DstM
    <3> QED BY <3>1, <3>3, Decodes DEF TypeE, TypeInv, TypeD
  <2> QED BY <2>1, <2>2, Clocks
<1>7. TypeM'
  <2>1. CASE M' = bubble_ex_mem
    BY <2>1, AddressesAreWords DEF TypeM, bubble_ex_mem, StageStat, ICodes, RegId
  <2>2. CASE M' = ex_mem_next
    <3>1. E.stat \in StageStat /\ E.icode \in ICodes \union {"bad"} /\ E.pc \in Word
      BY StageE, StagesWellFormed DEF WellFormed
    <3>2. (IF e_Cnd THEN 1 ELSE 0) \in {0, 1}
      OBVIOUS
    <3> QED BY <2>2, <3>1, <3>2, SignalTypes DEF TypeM, ex_mem_next
  <2> QED BY <2>1, <2>2, Clocks
<1>8. TypeW'
  BY Clocks, SignalTypes, StagesMW DEF TypeW, mem_wb_next
<1> QED BY <1>1, <1>2, <1>3, <1>4, <1>5, <1>6, <1>7, <1>8 DEF TypeInv, Cycle

-----------------------------------------------------------------------------
(* Registers and memory as the programmer sees them.                        *)

\* What the instruction in E will find when it is in M.
e_addr == IF E.icode \in {"IPOPQ", "IRET"} THEN e_valA ELSE e_valE

e_reads == E.icode \in {"IMRMOVQ", "IPOPQ", "IRET"}

e_writes == E.icode \in {"IRMMOVQ", "IPUSHQ", "ICALL"}

e_fails == (e_reads \/ e_writes) /\ ~InMemory(e_addr)

e_valM == IF e_reads /\ ~e_fails THEN SeenMem[e_addr] ELSE 0

e_stat == IF e_fails THEN "ADR" ELSE E.stat

\* In the cycle after its execution an instruction is in M, and M asks of the
\* memory what execute foresaw.
LEMMA ExecutedInM ==
  ASSUME TypeInv, Cycle, ~Stopped
  PROVE  /\ M' = ex_mem_next /\ mem' = SeenMem
         /\ mem_write' <=> e_writes
         /\ e_reads \/ e_writes => mem_addr' = e_addr
         /\ dmem_error' <=> e_fails
         /\ m_valM' = e_valM /\ m_stat' = e_stat
<1>1. M' = ex_mem_next /\ mem' = SeenMem
  BY Clocks DEF Stopped, SeenMem, Cycle
<1>2. M'.icode = E.icode /\ M'.stat = E.stat /\ M'.valE = e_valE /\ M'.valA = e_valA
  BY <1>1 DEF ex_mem_next
<1>3. (mem_write' <=> e_writes) /\ (mem_read' <=> e_reads)
  BY <1>2 DEF mem_write, mem_read, e_writes, e_reads
<1>4. e_reads \/ e_writes => mem_addr' = e_addr
  BY <1>2 DEF mem_addr, e_writes, e_reads, e_addr
<1>5. dmem_error' <=> e_fails
  BY <1>3, <1>4 DEF dmem_error, e_fails, InMemory
<1>6. m_valM' = e_valM /\ m_stat' = e_stat
  BY <1>1, <1>2, <1>3, <1>4, <1>5 DEF m_valM, m_stat, e_valM, e_stat
<1> QED BY <1>1, <1>3, <1>4, <1>5, <1>6

\* The values on their way to the register file.
LEMMA SeenRegIs ==
  ASSUME TypeInv, ~Stopped
  PROVE  /\ SeenReg = WithReg(WithReg(WithReg(WithReg(reg, W.dstE, W.valE), W.dstM, W.valM),
                                     M.dstE, M.valE), M.dstM, m_valM)
         /\ SeenReg \in Registers
<1>1. SeenReg = WithReg(WithReg(WithReg(WithReg(reg, W.dstE, W.valE), W.dstM, W.valM),
                                M.dstE, M.valE), M.dstM, m_valM)
  BY DEF SeenReg, Finished, mem_wb_next, Stopped
<1>2. WithReg(WithReg(reg, W.dstE, W.valE), W.dstM, W.valM) \in Registers
  BY StagesMW, WithRegType DEF TypeInv, RegId
<1> QED BY <1>1, <1>2, StagesMW, SignalTypes, WithRegType DEF RegId

\* Forwarding delivers the register as the programmer will see it after the
\* instruction in E, but for what that has yet to load.
LEMMA ForwardedIs ==
  ASSUME TypeInv, ~Stopped, NEW r \in REGS
  PROVE  Forwarded(r) = WithReg(SeenReg, e_dstE, e_valE)[r]
<1>1. r # RNONE
  BY RegisterAssumption
<1> DEFINE r1 == WithReg(reg, W.dstE, W.valE)
           r2 == WithReg(r1, W.dstM, W.valM)
           r3 == WithReg(r2, M.dstE, M.valE)
<1>2. /\ r1 \in Registers /\ r2 \in Registers /\ r3 \in Registers
      /\ SeenReg = WithReg(r3, M.dstM, m_valM) /\ SeenReg \in Registers
  BY StagesMW, SignalTypes, WithRegType, SeenRegIs DEF TypeInv, RegId
<1>3. /\ r1[r] = IF r = W.dstE THEN W.valE ELSE reg[r]
      /\ r2[r] = IF r = W.dstM THEN W.valM ELSE r1[r]
      /\ r3[r] = IF r = M.dstE THEN M.valE ELSE r2[r]
      /\ SeenReg[r] = IF r = M.dstM THEN m_valM ELSE r3[r]
      /\ WithReg(SeenReg, e_dstE, e_valE)[r] = IF r = e_dstE THEN e_valE ELSE SeenReg[r]
  BY <1>1, <1>2 DEF WithReg, Registers, TypeInv
<1> HIDE DEF r1, r2, r3
<1>4. RegVal(reg, r) = reg[r]
  BY <1>1 DEF RegVal
<1> QED BY <1>3, <1>4 DEF Forwarded

\* A cycle finishes the instruction in E, unless that fails.
LEMMA SeenRegNext ==
  ASSUME TypeInv, Cycle, ~Stopped
  PROVE  SeenReg' = IF e_stat \in Exceptional THEN SeenReg
                    ELSE WithReg(WithReg(SeenReg, e_dstE, e_valE), E.dstM, e_valM)
<1>1. W' = mem_wb_next /\ W.stat \notin Exceptional /\ M' = ex_mem_next
  BY Clocks, ExecutedInM
<1>2. Finished(reg', W') = SeenReg
  BY <1>1 DEF SeenReg, Finished, Cycle
<1>3. SeenReg' = Finished(SeenReg, mem_wb_next')
  BY <1>2 DEF SeenReg, Finished
<1>4. /\ mem_wb_next'.stat = e_stat /\ mem_wb_next'.dstE = e_dstE
      /\ mem_wb_next'.valE = e_valE /\ mem_wb_next'.dstM = E.dstM
      /\ mem_wb_next'.valM = e_valM
  BY <1>1, ExecutedInM DEF mem_wb_next, ex_mem_next
<1> QED BY <1>3, <1>4 DEF Finished

\* Once the pipeline has stopped it stays so, and what the programmer sees.
LEMMA StoppedStays ==
  ASSUME TypeInv, Cycle, Stopped
  PROVE  /\ Stopped'
         /\ UNCHANGED <<SeenPc, SeenReg, SeenMem, SeenStat, cc>>
<1>1. /\ W' = mem_wb_next /\ M' = bubble_ex_mem /\ m_stat \in Exceptional
      /\ W.stat \notin Exceptional
  BY Clocks DEF Stopped
<1>2. W'.stat = m_stat /\ W'.pc = M.pc
  BY <1>1 DEF mem_wb_next
<1>3. SeenPc' = SeenPc /\ SeenStat' = SeenStat
  BY <1>1, <1>2 DEF SeenPc, SeenStat
<1>4. SeenMem' = SeenMem
  <2>1. mem' = SeenMem
    BY DEF SeenMem, Cycle
  <2>2. ~mem_write'
    BY <1>1 DEF mem_write, bubble_ex_mem
  <2> QED BY <2>1, <2>2 DEF SeenMem
<1>5. SeenReg' = SeenReg
  <2>1. SeenReg = Finished(reg, W) /\ Finished(reg, W) = reg'
    BY <1>1 DEF SeenReg, Finished, mem_wb_next, Cycle
  <2>2. Finished(reg', W') = reg'
    BY <1>1, <1>2 DEF Finished
  <2>3. /\ mem_wb_next'.dstE = RNONE /\ mem_wb_next'.dstM = RNONE
    BY <1>1 DEF mem_wb_next, bubble_ex_mem
  <2>4. SeenReg' = Finished(reg', mem_wb_next')
    BY <2>2 DEF SeenReg, Finished
  <2> QED BY <2>1, <2>3, <2>4 DEF Finished, WithReg
<1>6. cc' = cc
  BY <1>1 DEF Cycle, set_cc
<1> QED BY <1>1, <1>2, <1>3, <1>4, <1>5, <1>6 DEF Stopped

-----------------------------------------------------------------------------
(* The way through the program.                                             *)

\* An instruction that is not there is none of those that matter.
LEMMA EmptyIsNop ==
  ASSUME TypeInv
  PROVE  /\ Empty(E) => E.icode = "INOP" /\ E.dstE = RNONE /\ E.dstM = RNONE
         /\ Empty(D) => D.icode = "INOP"
<1>1. Empty(E) => E.icode = "INOP"
  BY StageE, StagesWellFormed DEF Empty, WellFormed
<1> QED BY <1>1, StageE, StagesWellFormed DEF Empty, WellFormed, DstE, DstM

\* Only an instruction that loads a register holds up the one behind it, and
\* a jump needs no register.
LEMMA LoadUseIs ==
  ASSUME TypeInv, LoadUse
  PROVE  /\ ~Empty(E) /\ E.icode \notin {"IJXX", "IRET", "ICALL", "IRMMOVQ", "IOPQ"}
         /\ ~Empty(D) /\ D.icode # "IJXX"
<1>1. E.icode \in {"IMRMOVQ", "IPOPQ"} /\ E.dstM \in {SrcA(D), SrcB(D)}
  BY Decodes DEF LoadUse
<1>2. ~Empty(E)
  BY <1>1, EmptyIsNop
<1>3. E.dstM \in REGS
  BY <1>1, StageE, StagesWellFormed DEF DstM, WellFormed, Assembled
<1>4. SrcA(D) # RNONE \/ SrcB(D) # RNONE
  BY <1>1, <1>3, RegisterAssumption
<1>5. D.icode \notin {"INOP", "IJXX"}
  BY <1>4 DEF SrcA, SrcB
<1> QED BY <1>1, <1>2, <1>5, EmptyIsNop

\* In the cycle after fetch a jump that was expected not to be taken is known
\* by what is ahead of it.
LEMMA ExpectationKept ==
  ASSUME TypeInv, Cycle, ~Stopped, ~LoadUse, ~Mispredicted, f_icode = "IJXX"
  PROVE  ExpectedNotTaken <=> NotTakenD'
<1>1. E' = id_ex_next /\ M' = ex_mem_next
  BY Clocks, ExecutedInM
<1>2. E'.icode = D.icode /\ M'.icode = E.icode /\ M'.valA = e_valA
  BY <1>1 DEF id_ex_next, ex_mem_next
<1>3. E.icode = "IRMMOVQ" => e_valA = E.valA
  BY DEF e_valA
<1> QED BY <1>2, <1>3 DEF ExpectedNotTaken, NotTakenD

\* What fetch goes on with is what is predicted behind what it has fetched.
LEMMA FetchPredicts ==
  ASSUME TypeInv, Cycle, ~Stopped, ~LoadUse, ~Mispredicted
  PROVE  f_predPC = Predicted(if_id_next, NotTakenD')
<1>1. /\ if_id_next.icode = f_icode /\ if_id_next.valC = f_valC /\ if_id_next.valP = f_valP
  BY DEF if_id_next
<1>2. f_icode = "ICALL" => ~ExpectedNotTaken
  BY DEF ExpectedNotTaken
<1> QED BY <1>1, <1>2, ExpectationKept DEF f_predPC, Predicted

\* A jump finds out in E whether its prediction was right.
LEMMA JumpResolved ==
  ASSUME TypeInv, Operands, E.icode = "IJXX"
  PROVE  /\ e_valE = E.valB /\ E.valB \in {0, 1}
         /\ Mispredicted <=> e_valE = (IF e_Cnd THEN 1 ELSE 0)
<1>1. E.valB \in {0, 1} /\ E.valB \in Word
  BY EmptyIsNop, StageE DEF Operands
<1>2. e_valE = ComputeAlu(A_ADD, 0, E.valB)
  BY DEF e_valE, alufun, aluA, aluB
<1>3. e_valE = E.valB
  <2>1. ComputeAlu(A_ADD, 0, E.valB) = Wrap(0 + E.valB)
    BY DEF ComputeAlu, A_ADD, A_SUB, A_AND, A_XOR
  <2>2. 0 + E.valB = E.valB
    BY <1>1
  <2> QED BY <1>1, <1>2, <2>1, <2>2, WrapWord
<1> QED BY <1>1, <1>3 DEF Mispredicted

\* Stalls and bubbles keep the stages behind an unresolved jump or return empty.
LEMMA NothingBehindInductive ==
  ASSUME TypeInv, NothingBehind, OnPath, Operands, Cycle, ~Stopped
  PROVE  NothingBehind'
<1>1. M' = ex_mem_next /\ W' = mem_wb_next
  BY Clocks, ExecutedInM
<1>2. /\ M'.icode = E.icode /\ M'.valE = e_valE /\ M'.Cnd = IF e_Cnd THEN 1 ELSE 0
      /\ W'.icode = M.icode
  BY <1>1 DEF ex_mem_next, mem_wb_next
<1>3. Redirecting' => Mispredicted
  BY <1>2, JumpResolved DEF Redirecting
<1>4. Empty(bubble_if_id) /\ Empty(bubble_id_ex) /\ bubble_id_ex.icode = "INOP"
  BY DEF Empty, bubble_if_id, bubble_id_ex
<1>5. Redirecting' => Empty(D') /\ Empty(E')
  BY <1>3, <1>4, Clocks, LoadUseIs DEF Mispredicted
<1>6. Empty(D) => Empty(E')
  BY <1>4, Clocks, Decodes DEF Empty, Decoded
<1>7. "IRET" \in {D.icode, E.icode, M.icode} /\ ~LoadUse => Empty(D')
  BY <1>4, Clocks DEF Returning
<1>8. E.icode = "IRET" \/ M.icode = "IRET" => ~LoadUse /\ Empty(D)
  BY LoadUseIs DEF NothingBehind
<1>9. M'.icode = "IRET" => Empty(D') /\ Empty(E')
  BY <1>2, <1>6, <1>7, <1>8
<1>10. W'.icode = "IRET" => Empty(D') /\ Empty(E') /\ M'.icode = "INOP"
  BY <1>2, <1>6, <1>7, <1>8, EmptyIsNop DEF NothingBehind
<1>11. E'.icode = "IRET" => Empty(D')
  <2>1. E' = id_ex_next => E'.icode = D.icode
    BY DEF id_ex_next
  <2>2. E'.icode = "IRET" => E' = id_ex_next /\ ~LoadUse
    BY <1>4, Clocks
  <2> QED BY <1>7, <2>1, <2>2
<1> QED BY <1>5, <1>9, <1>10, <1>11 DEF NothingBehind, Empty

\* With an instruction in D, fetch goes on where F says.
LEMMA FetchBehindD ==
  ASSUME TypeInv, NothingBehind, ~Empty(D)
  PROVE  f_pc = F /\ E.icode # "IRET" /\ M.icode # "IRET"
BY DEF NothingBehind, Redirecting, f_pc

\* A cycle keeps each instruction followed by the one predicted to come next.
LEMMA OnPathInductive ==
  ASSUME TypeInv, NothingBehind, OnPath, Operands, ~Misled, Cycle, ~Stopped
  PROVE  OnPath'
<1>1. ~Empty(D') /\ D'.icode # "IRET" => F' = Predicted(D', NotTakenD')
  <2>1. CASE LoadUse
    <3>1. D' = D /\ F' = F /\ ~Empty(D) /\ D.icode # "IJXX"
      BY <2>1, Clocks, LoadUseIs
    <3> QED BY <3>1 DEF OnPath, Predicted
  <2>2. CASE ~LoadUse /\ (Mispredicted \/ Returning)
    BY <2>2, Clocks DEF Empty, bubble_if_id
  <2>3. CASE ~LoadUse /\ ~Mispredicted /\ ~Returning
    BY <2>3, Clocks, FetchPredicts
  <2> QED BY <2>1, <2>2, <2>3
<1>2. ASSUME ~Empty(E'), E'.icode # "IRET"
      PROVE  ~Empty(D') /\ D'.pc = Predicted(InE', E'.valB = 1)
  <2>1. ~LoadUse /\ ~Mispredicted /\ E' = id_ex_next
    BY <1>2, Clocks DEF Empty, bubble_id_ex
  <2>2. E'.stat = D.stat /\ E'.icode = D.icode /\ E'.pc = D.pc /\ E'.valB = d_valB
    BY <2>1 DEF id_ex_next
  <2>3. ~Empty(D) /\ f_pc = F /\ ~Returning
    BY <1>2, <2>2, FetchBehindD DEF Empty, Returning
  <2>4. D' = InstructionAt(f_pc)
    BY <2>1, <2>3, Clocks, Fetches
  <2>5. ~Empty(D') /\ D'.pc = F
    BY <2>3, <2>4, Fetches, FetchWellFormed DEF Empty, TypeInv
  <2>6. F = Predicted(D, NotTakenD)
    BY <1>2, <2>2, <2>3 DEF OnPath
  <2>7. InE' = D
    BY <1>2, <2>2 DEF InE, Empty, TypeInv, TypeD, Cycle, InstructionAt, StatAt, IcodeAt, IfunAt
  <2>8. D.icode = "IJXX" => (E'.valB = 1 <=> NotTakenD)
    <3>1. ~StrayFlag
      BY DEF Misled
    <3>2. D.icode = "IJXX" => d_valB = IF M.icode = "IRMMOVQ" /\ M.valA > 0 THEN 1 ELSE 0
      BY DEF d_valB
    <3> QED BY <2>2, <3>1, <3>2 DEF StrayFlag, NotTakenD
  <2> QED BY <2>5, <2>6, <2>7, <2>8 DEF Predicted
<1> QED BY <1>1, <1>2 DEF OnPath, Empty

\* What decode forwards are the registers as the programmer sees them after
\* the instructions ahead: sel_fwdA, sel_fwdB and the stall behind a load.
LEMMA OperandsInductive ==
  ASSUME TypeInv, ~Misled, Cycle, ~Stopped, e_stat \notin Exceptional
  PROVE  Operands'
<1> SUFFICES ASSUME ~Empty(E')
             PROVE  /\ SrcA(InE)' \in REGS => E'.valA = SeenReg'[SrcA(InE)']
                    /\ SrcB(InE)' \in REGS => E'.valB = SeenReg'[SrcB(InE)']
                    /\ E'.icode \in {"ICALL", "IJXX"} => E'.valA = InE'.valP
                    /\ E'.icode = "IJXX" => E'.valB \in {0, 1}
                    /\ E'.icode \in {"IRMMOVQ", "IMRMOVQ"} /\ SrcB(InE)' = RNONE => E'.valB = 0
  BY DEF Operands, Empty
<1>1. ~LoadUse /\ ~Mispredicted /\ E' = id_ex_next
  BY Clocks DEF Empty, bubble_id_ex
<1>2. /\ E'.stat = D.stat /\ E'.icode = D.icode /\ E'.pc = D.pc
      /\ E'.valA = d_valA /\ E'.valB = d_valB
  BY <1>1 DEF id_ex_next
<1>3. InE' = D
  BY <1>2 DEF InE, Empty, TypeInv, TypeD, Cycle, InstructionAt, StatAt, IcodeAt, IfunAt
<1>4. SrcA(InE)' = SrcA(D) /\ SrcB(InE)' = SrcB(D)
  BY <1>3 DEF SrcA, SrcB
<1>5. ASSUME NEW r \in REGS, r \in {SrcA(D), SrcB(D)}
      PROVE  Forwarded(r) = SeenReg'[r]
  <2>1. SeenReg' = WithReg(WithReg(SeenReg, e_dstE, e_valE), E.dstM, e_valM)
    BY SeenRegNext
  <2>2. r # E.dstM
    <3>1. E.dstM # RNONE => E.icode \in {"IMRMOVQ", "IPOPQ"}
      BY StageE DEF DstM
    <3> QED BY <1>1, <1>5, <3>1, Decodes, RegisterAssumption DEF LoadUse
  <2>3. WithReg(SeenReg, e_dstE, e_valE) \in Registers
    BY SeenRegIs, SignalTypes, WithRegType DEF RegId
  <2>4. SeenReg'[r] = WithReg(SeenReg, e_dstE, e_valE)[r]
    BY <2>1, <2>2, <2>3 DEF WithReg, Registers
  <2> QED BY <2>4, ForwardedIs
<1>6. SrcA(D) \in REGS => d_valA = SeenReg'[SrcA(D)]
  <2>1. SrcA(D) \in REGS => D.icode \notin {"ICALL", "IJXX"}
    BY RegisterAssumption DEF SrcA
  <2> QED BY <1>5, <2>1, Decodes DEF d_valA
<1>7. SrcB(D) \in REGS => d_valB = SeenReg'[SrcB(D)]
  <2>1. SrcB(D) \in REGS => D.icode # "IJXX"
    BY RegisterAssumption DEF SrcB
  <2> QED BY <1>5, <2>1, Decodes DEF d_valB
<1>8. D.icode \in {"ICALL", "IJXX"} => d_valA = D.valP
  BY DEF d_valA
<1>9. D.icode = "IJXX" => d_valB \in {0, 1}
  BY DEF d_valB
<1>10. D.icode \in {"IRMMOVQ", "IMRMOVQ"} /\ SrcB(D) = RNONE => d_valB = 0
  BY DEF Misled, StrayBase, SrcB
<1> QED BY <1>2, <1>3, <1>4, <1>6, <1>7, <1>8, <1>9, <1>10

\* The invariant is inductive.
LEMMA InvInductive ==
  ASSUME IInv, [~Misled /\ Cycle]_vars
  PROVE  IInv'
<1>1. CASE UNCHANGED vars
  <2>1. TypeInv'
    BY <1>1 DEF IInv, TypeInv, vars, TypeD, TypeE, TypeM, TypeW, InE, InstructionAt, StatAt,
                IcodeAt, IfunAt, Decoded, DstE, DstM, Empty
  <2>2. /\ Stopped' <=> Stopped
        /\ SeenReg' = SeenReg
    BY <1>1 DEF vars, Stopped, SeenReg, Finished, mem_wb_next, m_stat, m_valM, dmem_error,
                mem_read, mem_write, mem_addr
  <2>3. NothingBehind' <=> NothingBehind
    BY <1>1 DEF vars, NothingBehind, Redirecting, Empty
  <2>4. InE' = InE
    BY <1>1 DEF vars, InE, Empty, InstructionAt, StatAt, IcodeAt, IfunAt
  <2>5. (OnPath' <=> OnPath) /\ (Operands' <=> Operands)
    BY <1>1, <2>2, <2>4 DEF vars, OnPath, Operands, Predicted, NotTakenD, Empty, SrcA, SrcB
  <2> QED BY <2>1, <2>2, <2>3, <2>5 DEF IInv
<1>2. CASE ~Misled /\ Cycle /\ Stopped
  BY <1>2, TypeInductive, StoppedStays DEF IInv
<1>3. CASE ~Misled /\ Cycle /\ ~Stopped
  <2>1. ~Stopped' => e_stat \notin Exceptional
    BY <1>3, ExecutedInM DEF IInv, Stopped
  <2> QED BY <1>3, <2>1, TypeInductive, NothingBehindInductive, OnPathInductive,
             OperandsInductive DEF IInv
<1> QED BY <1>1, <1>2, <1>3

-----------------------------------------------------------------------------
(* Every cycle as the programmer sees it.                                   *)

\* The instruction set works with the operators of Y86.
LEMMA SameOperators ==
  /\ \A a : IsIsa!HasInstruction(a) <=> HasInstruction(a)
  /\ \A a : IsIsa!InMemory(a) <=> InMemory(a)
  /\ \A n : IsIsa!Wrap(n) = Wrap(n)
  /\ \A r, id : IsIsa!RegVal(r, id) = RegVal(r, id)
  /\ \A r, id, val : IsIsa!WithReg(r, id, val) = WithReg(r, id, val)
  /\ \A c, cond : IsIsa!CondHolds(c, cond) <=> CondHolds(c, cond)
  /\ \A op, a, b : IsIsa!ComputeAlu(op, a, b) = ComputeAlu(op, a, b)
  /\ \A op, a, b : IsIsa!ComputeCc(op, a, b) = ComputeCc(op, a, b)
  /\ IsIsa!A_ADD = A_ADD
<1>1. /\ \A a : IsIsa!HasInstruction(a) <=> HasInstruction(a)
      /\ \A a : IsIsa!InMemory(a) <=> InMemory(a)
  BY DEF IsIsa!HasInstruction, HasInstruction, IsIsa!InMemory, InMemory
<1>2. \A n : IsIsa!Wrap(n) = Wrap(n)
  BY DEF IsIsa!Wrap, Wrap
<1>3. /\ \A r, id : IsIsa!RegVal(r, id) = RegVal(r, id)
      /\ \A r, id, val : IsIsa!WithReg(r, id, val) = WithReg(r, id, val)
  BY DEF IsIsa!RegVal, RegVal, IsIsa!WithReg, WithReg
<1>4. \A c, cond : IsIsa!CondHolds(c, cond) <=> CondHolds(c, cond)
  BY DEF IsIsa!CondHolds, CondHolds, IsIsa!Less, Less, IsIsa!C_YES, IsIsa!C_LE, IsIsa!C_L,
         IsIsa!C_E, IsIsa!C_NE, IsIsa!C_GE, IsIsa!C_G, C_YES, C_LE, C_L, C_E, C_NE, C_GE, C_G
<1>5. \A op, a, b : IsIsa!ComputeAlu(op, a, b) = ComputeAlu(op, a, b)
  BY <1>2 DEF IsIsa!ComputeAlu, ComputeAlu, IsIsa!A_ADD, IsIsa!A_SUB, IsIsa!A_AND,
              IsIsa!A_XOR, A_ADD, A_SUB, A_AND, A_XOR
<1>6. \A op, a, b : IsIsa!ComputeCc(op, a, b) = ComputeCc(op, a, b)
  BY <1>5 DEF IsIsa!ComputeCc, ComputeCc, IsIsa!PackCc, PackCc, IsIsa!Overflow, Overflow,
              IsIsa!A_ADD, IsIsa!A_SUB, A_ADD, A_SUB
<1> QED BY <1>1, <1>2, <1>3, <1>4, <1>5, <1>6 DEF IsIsa!A_ADD, A_ADD

\* The instruction in E is the one the programmer comes to next.
LEMMA NextInE ==
  ASSUME TypeInv, Executes
  PROVE  /\ ~Stopped /\ ~Empty(E) /\ SeenPc = E.pc /\ SeenStat = "AOK"
         /\ E.pc \in Word /\ InE = InstructionAt(E.pc)
BY DEF Executes, M_bubble, Stopped, Empty, SeenPc, SeenStat, InE, TypeInv, TypeE

\* Where the programmer finds the program counter after the instruction in E.
TargetE == CASE E.icode = "ICALL" -> E.valC
             [] E.icode = "IJXX" -> IF e_Cnd THEN E.valC ELSE InE.valP
             [] E.icode = "IRET" -> e_valM
             [] OTHER -> InE.valP

\* After an instruction has been executed the programmer's next one is its
\* target: mispredictions and returns are repaired before anything else shows.
LEMMA SeenPcNext ==
  ASSUME IInv, ~Misled, Cycle, Executes
  PROVE  SeenPc' = IF e_stat \in Exceptional THEN E.pc ELSE TargetE
<1>1. TypeInv /\ NothingBehind /\ OnPath /\ Operands /\ ~Stopped /\ ~Empty(E)
  BY NextInE DEF IInv
<1>2. /\ W' = mem_wb_next /\ M' = ex_mem_next /\ W'.stat \notin Exceptional
      /\ m_stat' = e_stat /\ m_valM' = e_valM
  BY <1>1, Clocks, ExecutedInM DEF Stopped, mem_wb_next
<1>3. M'.pc = E.pc /\ M'.icode = E.icode
  BY <1>2 DEF ex_mem_next
<1>4. CASE e_stat \in Exceptional
  BY <1>2, <1>3, <1>4 DEF SeenPc
<1>5. CASE e_stat \notin Exceptional /\ E.icode = "IRET"
  <2>1. Empty(D) /\ ~LoadUse /\ ~Mispredicted /\ Returning
    BY <1>1, <1>5, LoadUseIs DEF NothingBehind, Mispredicted, Returning
  <2>2. Empty(D') /\ Empty(E')
    BY <1>1, <2>1, Clocks DEF Empty, bubble_if_id, id_ex_next
  <2>3. SeenPc' = e_valM
    BY <1>2, <1>3, <1>5, <2>2 DEF SeenPc, Empty
  <2> QED BY <1>5, <2>3 DEF TargetE
<1>6. CASE e_stat \notin Exceptional /\ E.icode # "IRET"
  <2>1. ~Empty(D) /\ D.pc = Predicted(InE, E.valB = 1)
    BY <1>1, <1>6 DEF OnPath
  <2>2. E.valC = InE.valC /\ E.icode = InE.icode
    BY <1>1, StageE
  <2>3. CASE Mispredicted
    <3>1. E.icode = "IJXX" /\ ~LoadUse
      BY <1>1, <2>3, LoadUseIs DEF Mispredicted
    <3>2. Empty(D') /\ Empty(E')
      BY <1>1, <2>3, <3>1, Clocks DEF Empty, bubble_if_id, bubble_id_ex
    <3>3. M'.valE = M'.Cnd /\ M'.valA = e_valA
      BY <1>1, <1>2, <2>3, <3>1, JumpResolved DEF ex_mem_next
    <3>4. f_pc' = e_valA
      BY <1>3, <3>1, <3>3 DEF f_pc
    <3>5. SeenPc' = e_valA
      BY <1>2, <1>3, <1>6, <3>1, <3>2, <3>4 DEF SeenPc, Empty
    <3>6. E.valA = InE.valP
      BY <1>1, <3>1 DEF Operands
    <3>7. e_valA = TargetE
      BY <2>3, <3>1, <3>6 DEF e_valA, TargetE, Mispredicted
    <3> QED BY <1>6, <3>5, <3>7
  <2>4. CASE ~Mispredicted
    <3>1. D.pc = TargetE
      <4>1. E.icode = "IJXX" => (E.valB = 1 <=> ~e_Cnd)
        BY <1>1, <2>4, JumpResolved DEF Mispredicted
      <4> QED BY <1>6, <2>1, <2>2, <4>1 DEF Predicted, TargetE
    <3>2. CASE LoadUse
      <4>1. Empty(E') /\ D' = D
        BY <1>1, <3>2, Clocks DEF Empty, bubble_id_ex
      <4>2. SeenPc' = D.pc
        BY <1>2, <1>6, <2>1, <4>1 DEF SeenPc, Empty
      <4> QED BY <1>6, <3>1, <4>2
    <3>3. CASE ~LoadUse
      <4>1. E'.stat = D.stat /\ E'.pc = D.pc
        BY <1>1, <2>4, <3>3, Clocks DEF id_ex_next
      <4>2. SeenPc' = D.pc
        BY <1>2, <1>6, <2>1, <4>1 DEF SeenPc, Empty
      <4> QED BY <1>6, <3>1, <4>2
    <3> QED BY <3>2, <3>3
  <2> QED BY <2>3, <2>4
<1> QED BY <1>4, <1>5, <1>6

\* A cycle in which no instruction is executed is not seen.
LEMMA OthersAreNotSeen ==
  ASSUME IInv, ~Misled, Cycle, ~Executes
  PROVE  UNCHANGED <<SeenPc, SeenReg, SeenMem, SeenStat, cc>>
<1>1. CASE Stopped
  BY <1>1, StoppedStays DEF IInv
<1>2. CASE ~Stopped
  <2>1. TypeInv /\ NothingBehind /\ OnPath /\ Operands /\ Empty(E)
    BY <1>2 DEF IInv, Executes, M_bubble, Stopped, Empty
  <2>2. /\ E.icode = "INOP" /\ E.dstE = RNONE /\ E.dstM = RNONE /\ E.stat = "BUB"
        /\ ~LoadUse /\ ~Mispredicted
    BY <2>1, EmptyIsNop, LoadUseIs DEF Mispredicted, Empty
  <2>3. e_stat = "BUB" /\ e_dstE = RNONE /\ ~e_writes
    BY <2>2 DEF e_stat, e_fails, e_reads, e_writes, e_dstE
  <2>4. /\ W' = mem_wb_next /\ M' = ex_mem_next /\ W'.stat \notin Exceptional
        /\ m_stat' = "BUB" /\ mem' = SeenMem /\ ~mem_write'
    BY <1>2, <2>1, <2>3, Clocks, ExecutedInM DEF Stopped, mem_wb_next
  <2>5. SeenReg' = SeenReg
    BY <1>2, <2>1, <2>2, <2>3, SeenRegNext DEF WithReg, Exceptional
  <2>6. SeenMem' = SeenMem
    BY <2>4 DEF SeenMem
  <2>7. SeenStat' = SeenStat
    BY <1>2, <2>4 DEF SeenStat, Stopped, Exceptional
  <2>8. cc' = cc
    BY <2>2 DEF Cycle, set_cc
  <2>9. SeenPc' = SeenPc
    <3>1. M'.icode = "INOP" /\ W'.icode = M.icode /\ W'.valM = m_valM
      BY <2>2, <2>4 DEF ex_mem_next, mem_wb_next
    <3>2. CASE ~Empty(D)
      <4>1. E'.stat = D.stat /\ E'.pc = D.pc
        BY <2>1, <2>2, Clocks DEF id_ex_next
      <4> QED BY <1>2, <2>1, <2>4, <3>2, <4>1 DEF SeenPc, Empty, Stopped, Exceptional
    <3>3. CASE Empty(D) /\ M.icode = "IRET"
      <4>1. Empty(D') /\ Empty(E')
        BY <2>1, <2>2, <3>3, Clocks DEF Empty, bubble_if_id, id_ex_next, Returning
      <4>2. f_pc' = m_valM
        BY <3>1, <3>3 DEF f_pc
      <4> QED BY <1>2, <2>1, <2>4, <3>1, <3>3, <4>1, <4>2
              DEF SeenPc, Empty, Stopped, Exceptional
    <3>4. CASE Empty(D) /\ M.icode # "IRET"
      <4>1. ~Returning
        BY <2>1, <2>2, <3>4, EmptyIsNop DEF Returning
      <4>2. D' = InstructionAt(f_pc) /\ Empty(E')
        BY <2>1, <2>2, <3>4, <4>1, Clocks, Fetches DEF Empty, id_ex_next
      <4>3. ~Empty(D') /\ D'.pc = f_pc
        BY <2>1, <4>2, Fetches, FetchWellFormed DEF Empty, TypeInv
      <4> QED BY <1>2, <2>1, <2>4, <3>4, <4>2, <4>3 DEF SeenPc, Empty, Stopped, Exceptional
    <3> QED BY <3>2, <3>3, <3>4
  <2> QED BY <2>5, <2>6, <2>7, <2>8, <2>9
<1> QED BY <1>1, <1>2

\* What the programmer sees of an executed instruction.
LEMMA SeenNext ==
  ASSUME IInv, ~Misled, Cycle, Executes
  PROVE  /\ SeenReg' = IF e_stat \in Exceptional THEN SeenReg
                       ELSE WithReg(WithReg(SeenReg, e_dstE, e_valE), E.dstM, e_valM)
         /\ SeenMem' = IF e_writes /\ ~e_fails THEN [SeenMem EXCEPT ![e_addr] = e_valA]
                       ELSE SeenMem
         /\ SeenStat' = IF e_stat \in Exceptional THEN e_stat ELSE "AOK"
         /\ cc' = IF E.icode \in {"IOPQ", "IIADDQ"} THEN ComputeCc(alufun, aluA, aluB) ELSE cc
         /\ prog' = prog
<1>1. TypeInv /\ ~Stopped
  BY NextInE DEF IInv
<1>2. /\ W'.stat \notin Exceptional /\ m_stat' = e_stat
      /\ M' = ex_mem_next /\ mem' = SeenMem /\ (mem_write' <=> e_writes)
      /\ (e_reads \/ e_writes => mem_addr' = e_addr) /\ (dmem_error' <=> e_fails)
  BY <1>1, Clocks, ExecutedInM DEF Stopped, mem_wb_next
<1>3. M'.valA = e_valA
  BY <1>2 DEF ex_mem_next
<1>4. SeenMem' = IF e_writes /\ ~e_fails THEN [SeenMem EXCEPT ![e_addr] = e_valA] ELSE SeenMem
  BY <1>2, <1>3 DEF SeenMem
<1>5. SeenStat' = IF e_stat \in Exceptional THEN e_stat ELSE "AOK"
  BY <1>2 DEF SeenStat
<1>6. cc' = IF E.icode \in {"IOPQ", "IIADDQ"} THEN ComputeCc(alufun, aluA, aluB) ELSE cc
  BY <1>1 DEF Cycle, set_cc, Stopped
<1> QED BY <1>1, <1>4, <1>5, <1>6, SeenRegNext DEF Cycle

\* The instruction in E as it is in the program, when nothing is wrong with it.
LEMMA StoredE ==
  ASSUME IInv, Executes, E.stat = "AOK"
  PROVE  /\ HasInstruction(E.pc) /\ prog[E.pc].icode = E.icode /\ prog[E.pc].ifun = E.ifun
         /\ IsIsa!At(E.icode) /\ SeenPc = E.pc /\ SeenStat = "AOK"
         /\ NamesRegisters(E.icode) => InE.rA = prog[E.pc].rA /\ InE.rB = prog[E.pc].rB
         /\ HasConstant(E.icode) => E.valC = prog[E.pc].valC
         /\ E.valC \in Word /\ E.icode = InE.icode
         /\ InE.valP = E.pc + 1 /\ Assembled(InE) /\ InE.rB \in RegId
         /\ E.dstE = DstE(InE) /\ E.dstM = DstM(InE)
         /\ Operands /\ ~Empty(E) /\ SeenReg \in Registers
         /\ e_stat = IF e_fails THEN "ADR" ELSE "AOK"
<1>1. TypeInv /\ ~Stopped /\ Operands
  BY NextInE DEF IInv
<1>2. InE = InstructionAt(E.pc) /\ E.pc \in Word /\ SeenPc = E.pc /\ SeenStat = "AOK"
  BY <1>1, NextInE
<1>3. StatAt(E.pc) = "AOK"
  BY <1>1, <1>2, StageE DEF InstructionAt
<1>4. HasInstruction(E.pc)
  BY <1>3 DEF StatAt
<1>5. /\ InE.icode = prog[E.pc].icode /\ InE.ifun = prog[E.pc].ifun
      /\ InE.rA = IF NamesRegisters(InE.icode) THEN prog[E.pc].rA ELSE RNONE
      /\ InE.rB = IF NamesRegisters(InE.icode) THEN prog[E.pc].rB ELSE RNONE
      /\ InE.valC = IF HasConstant(InE.icode) THEN prog[E.pc].valC ELSE 0
      /\ InE.valP = Wrap(E.pc + 1)
  BY <1>2, <1>4 DEF InstructionAt, IcodeAt, IfunAt
<1>6. InE.valP = E.pc + 1
  BY <1>2, <1>4, <1>5, AddressesAreWords, WrapWord
<1>7. IsIsa!At(E.icode)
  BY <1>1, <1>2, <1>4, <1>5, StageE, SameOperators DEF IsIsa!At
<1>8. E.valC \in Word /\ Assembled(InE) /\ InE.rB \in RegId
  BY <1>1, StageE, StagesWellFormed DEF WellFormed
<1>9. ~Empty(E) /\ SeenReg \in Registers
  BY <1>1, SeenRegIs, NextInE
<1> QED BY <1>1, <1>2, <1>4, <1>5, <1>6, <1>7, <1>8, <1>9, StageE DEF e_stat

\* What the arithmetic unit makes of two words.
LEMMA Adds == \A a, b : ComputeAlu(A_ADD, a, b) = Wrap(a + b)
BY DEF ComputeAlu, A_ADD, A_SUB, A_AND, A_XOR

\* Adding zero, as moves do, changes nothing.
LEMMA AddZero ==
  ASSUME NEW w \in Word
  PROVE  ComputeAlu(A_ADD, w, 0) = w
<1>1. w + 0 = w
  BY HalfAssumption DEF Word
<1> QED BY <1>1, Adds, WrapWord

\* Each instruction, when it is executed, is one step of the instruction set.
LEMMA NopSeen ==
  ASSUME IInv, ~Misled, Cycle, Executes, E.stat = "AOK", E.icode = "INOP"
  PROVE  IsIsa!Nop
<1>1. e_stat = "AOK" /\ ~e_writes /\ e_dstE = RNONE /\ E.dstM = RNONE
  BY StoredE DEF e_fails, e_reads, e_writes, e_dstE, DstE, DstM
<1> QED
  BY <1>1, StoredE, SeenNext, SeenPcNext, SameOperators
  DEF TargetE, WithReg, Exceptional, IsIsa!Nop, IsIsa!GoOn, IsIsa!ftpc

LEMMA RrmovqSeen ==
  ASSUME IInv, ~Misled, Cycle, Executes, E.stat = "AOK", E.icode = "IRRMOVQ"
  PROVE  IsIsa!Rrmovq
<1>1. InE.rA \in REGS /\ InE.rB \in REGS /\ InE.rA = prog[E.pc].rA /\ InE.rB = prog[E.pc].rB
  BY StoredE DEF Assembled, NamesRegisters
<1>2. E.valA = SeenReg[InE.rA] /\ E.valA \in Word
  BY <1>1, StoredE DEF Operands, SrcA, Registers
<1>3. e_valE = RegVal(SeenReg, prog[E.pc].rA)
  BY <1>1, <1>2, AddZero, RegisterAssumption DEF e_valE, alufun, aluA, aluB, RegVal
<1>4. /\ e_stat = "AOK" /\ ~e_writes /\ E.dstM = RNONE
      /\ e_dstE = IF CondHolds(cc, prog[E.pc].ifun) THEN prog[E.pc].rB ELSE RNONE
  BY <1>1, StoredE DEF e_fails, e_reads, e_writes, e_dstE, e_Cnd, DstE, DstM
<1> QED
  BY <1>1, <1>3, <1>4, StoredE, SeenNext, SeenPcNext, SameOperators
  DEF TargetE, WithReg, Exceptional, IsIsa!Rrmovq, IsIsa!GoOn, IsIsa!ftpc

LEMMA IrmovqSeen ==
  ASSUME IInv, ~Misled, Cycle, Executes, E.stat = "AOK", E.icode = "IIRMOVQ"
  PROVE  IsIsa!Irmovq
<1>1. InE.rB = prog[E.pc].rB /\ E.valC = prog[E.pc].valC
  BY StoredE DEF NamesRegisters, HasConstant
<1>2. e_valE = E.valC
  BY StoredE, AddZero DEF e_valE, alufun, aluA, aluB
<1>3. e_stat = "AOK" /\ ~e_writes /\ E.dstM = RNONE /\ e_dstE = prog[E.pc].rB
  BY <1>1, StoredE DEF e_fails, e_reads, e_writes, e_dstE, DstE, DstM
<1> QED
  BY <1>1, <1>2, <1>3, StoredE, SeenNext, SeenPcNext, SameOperators
  DEF TargetE, WithReg, Exceptional, IsIsa!Irmovq, IsIsa!GoOn, IsIsa!ftpc

LEMMA RmmovqSeen ==
  ASSUME IInv, ~Misled, Cycle, Executes, E.stat = "AOK", E.icode = "IRMMOVQ"
  PROVE  IsIsa!Rmmovq
<1>1. /\ InE.rA \in REGS /\ InE.rA = prog[E.pc].rA /\ InE.rB = prog[E.pc].rB
      /\ E.valC = prog[E.pc].valC
  BY StoredE DEF Assembled, NamesRegisters, HasConstant
<1>2. E.valB = RegVal(SeenReg, prog[E.pc].rB)
  BY <1>1, StoredE DEF Operands, SrcB, RegVal, RegId
<1>3. e_valE = IsIsa!Address /\ e_addr = e_valE
  BY <1>1, <1>2, StoredE, Adds, SameOperators
  DEF e_valE, alufun, aluA, aluB, e_addr, IsIsa!Address
<1>4. e_valA = RegVal(SeenReg, prog[E.pc].rA)
  BY <1>1, StoredE, RegisterAssumption DEF Operands, SrcA, e_valA, RegVal
<1>5. /\ e_writes /\ (e_fails <=> ~InMemory(e_addr)) /\ e_dstE = RNONE /\ E.dstM = RNONE
  BY StoredE DEF e_fails, e_reads, e_writes, e_dstE, DstE, DstM
<1> QED
  BY <1>3, <1>4, <1>5, StoredE, SeenNext, SeenPcNext, SameOperators
  DEF TargetE, WithReg, Exceptional, IsIsa!Rmmovq, IsIsa!Stop, IsIsa!GoOn, IsIsa!ftpc

LEMMA MrmovqSeen ==
  ASSUME IInv, ~Misled, Cycle, Executes, E.stat = "AOK", E.icode = "IMRMOVQ"
  PROVE  IsIsa!Mrmovq
<1>1. /\ InE.rA \in REGS /\ InE.rA = prog[E.pc].rA /\ InE.rB = prog[E.pc].rB
      /\ E.valC = prog[E.pc].valC
  BY StoredE DEF Assembled, NamesRegisters, HasConstant
<1>2. E.valB = RegVal(SeenReg, prog[E.pc].rB)
  BY <1>1, StoredE DEF Operands, SrcB, RegVal, RegId
<1>3. e_valE = IsIsa!Address /\ e_addr = e_valE
  BY <1>1, <1>2, StoredE, Adds, SameOperators
  DEF e_valE, alufun, aluA, aluB, e_addr, IsIsa!Address
<1>4. /\ e_reads /\ ~e_writes /\ (e_fails <=> ~InMemory(e_addr))
      /\ e_dstE = RNONE /\ E.dstM = prog[E.pc].rA
      /\ ~e_fails => e_valM = SeenMem[e_addr]
  BY <1>1, StoredE DEF e_fails, e_reads, e_writes, e_valM, e_dstE, DstE, DstM
<1> QED
  BY <1>3, <1>4, StoredE, SeenNext, SeenPcNext, SameOperators
  DEF TargetE, WithReg, Exceptional, IsIsa!Mrmovq, IsIsa!Stop, IsIsa!GoOn, IsIsa!ftpc

LEMMA OpqSeen ==
  ASSUME IInv, ~Misled, Cycle, Executes, E.stat = "AOK", E.icode = "IOPQ"
  PROVE  IsIsa!Opq
<1>1. InE.rA \in REGS /\ InE.rB \in REGS /\ InE.rA = prog[E.pc].rA /\ InE.rB = prog[E.pc].rB
  BY StoredE DEF Assembled, NamesRegisters
<1>2. /\ aluA = RegVal(SeenReg, prog[E.pc].rA) /\ aluB = RegVal(SeenReg, prog[E.pc].rB)
      /\ alufun = prog[E.pc].ifun
  BY <1>1, StoredE, RegisterAssumption DEF Operands, SrcA, SrcB, aluA, aluB, alufun, RegVal
<1>3. e_stat = "AOK" /\ ~e_writes /\ E.dstM = RNONE /\ e_dstE = prog[E.pc].rB
  BY <1>1, StoredE DEF e_fails, e_reads, e_writes, e_dstE, DstE, DstM
<1> QED
  BY <1>2, <1>3, StoredE, SeenNext, SeenPcNext, SameOperators
  DEF TargetE, WithReg, Exceptional, e_valE, IsIsa!Opq, IsIsa!Arithmetic, IsIsa!GoOn, IsIsa!ftpc

LEMMA IaddqSeen ==
  ASSUME IInv, ~Misled, Cycle, Executes, E.stat = "AOK", E.icode = "IIADDQ"
  PROVE  IsIsa!Iaddq
<1>1. /\ InE.rB \in REGS /\ InE.rB = prog[E.pc].rB /\ E.valC = prog[E.pc].valC
      /\ InE.ifun = A_ADD
  BY StoredE DEF Assembled, NamesRegisters, HasConstant, F_NONE, A_ADD
<1>2. /\ aluA = prog[E.pc].valC /\ aluB = RegVal(SeenReg, prog[E.pc].rB) /\ alufun = A_ADD
  <2>1. E.ifun = InE.ifun
    BY StageE DEF IInv
  <2> QED BY <1>1, <2>1, StoredE, RegisterAssumption
          DEF Operands, SrcB, aluA, aluB, alufun, RegVal
<1>3. e_stat = "AOK" /\ ~e_writes /\ E.dstM = RNONE /\ e_dstE = prog[E.pc].rB
  BY <1>1, StoredE DEF e_fails, e_reads, e_writes, e_dstE, DstE, DstM
<1> QED
  BY <1>2, <1>3, StoredE, SeenNext, SeenPcNext, SameOperators
  DEF TargetE, WithReg, Exceptional, e_valE, IsIsa!Iaddq, IsIsa!Arithmetic, IsIsa!GoOn,
      IsIsa!ftpc

LEMMA JxxSeen ==
  ASSUME IInv, ~Misled, Cycle, Executes, E.stat = "AOK", E.icode = "IJXX"
  PROVE  IsIsa!Jxx
<1>1. e_stat = "AOK" /\ ~e_writes /\ e_dstE = RNONE /\ E.dstM = RNONE
  BY StoredE DEF e_fails, e_reads, e_writes, e_dstE, DstE, DstM
<1>2. E.valC = prog[E.pc].valC
  BY StoredE DEF HasConstant
<1> QED
  BY <1>1, <1>2, StoredE, SeenNext, SeenPcNext, SameOperators
  DEF TargetE, WithReg, Exceptional, e_Cnd, IsIsa!Jxx, IsIsa!GoOn, IsIsa!ftpc

LEMMA CallSeen ==
  ASSUME IInv, ~Misled, Cycle, Executes, E.stat = "AOK", E.icode = "ICALL"
  PROVE  IF IsIsa!StackFails THEN IsIsa!Stop("ADR") /\ UNCHANGED SeenReg ELSE IsIsa!Call
<1>1. E.valB = SeenReg[RSP] /\ SeenReg[RSP] \in Int
  BY StoredE, RegisterAssumption, HalfAssumption DEF Operands, SrcB, Registers, Word
<1>2. e_valE = Wrap(SeenReg[RSP] - 1) /\ e_addr = e_valE
  <2>1. e_valE = ComputeAlu(A_ADD, -1, SeenReg[RSP]) /\ e_addr = e_valE
    BY <1>1 DEF e_valE, alufun, aluA, aluB, e_addr
  <2>2. -1 + SeenReg[RSP] = SeenReg[RSP] - 1
    BY <1>1
  <2> QED BY <2>1, <2>2, Adds
<1>3. SeenReg[RSP] + (-1) = SeenReg[RSP] - 1
  BY <1>1
<1>4. e_writes /\ (e_fails <=> ~InMemory(e_addr)) /\ e_dstE = RSP /\ E.dstM = RNONE
  BY StoredE DEF e_fails, e_reads, e_writes, e_dstE, DstE, DstM
<1>5. e_valA = E.pc + 1 /\ E.valC = prog[E.pc].valC
  BY StoredE DEF Operands, e_valA, HasConstant
<1>6. IsIsa!StackFails <=> ~InMemory(Wrap(SeenReg[RSP] - 1))
  BY StoredE, SameOperators DEF IsIsa!StackFails, IsIsa!At
<1>7. CASE IsIsa!StackFails
  BY <1>2, <1>4, <1>6, <1>7, StoredE, SeenNext, SeenPcNext DEF Exceptional, IsIsa!Stop
<1>8. CASE ~IsIsa!StackFails
  BY <1>6, <1>8, <1>2, <1>3, <1>4, <1>5, StoredE, SeenNext, SeenPcNext,
     SameOperators, RegisterAssumption
  DEF TargetE, WithReg, Exceptional, IsIsa!Call, IsIsa!PushWord, IsIsa!Moved, IsIsa!Stop,
      IsIsa!GoOn, IsIsa!ftpc
<1> QED BY <1>7, <1>8

LEMMA PushqSeen ==
  ASSUME IInv, ~Misled, Cycle, Executes, E.stat = "AOK", E.icode = "IPUSHQ"
  PROVE  IF IsIsa!StackFails THEN IsIsa!Stop("ADR") /\ UNCHANGED SeenReg ELSE IsIsa!Pushq
<1>1. E.valB = SeenReg[RSP] /\ SeenReg[RSP] \in Int
  BY StoredE, RegisterAssumption, HalfAssumption DEF Operands, SrcB, Registers, Word
<1>2. e_valE = Wrap(SeenReg[RSP] - 1) /\ e_addr = e_valE
  <2>1. e_valE = ComputeAlu(A_ADD, -1, SeenReg[RSP]) /\ e_addr = e_valE
    BY <1>1 DEF e_valE, alufun, aluA, aluB, e_addr
  <2>2. -1 + SeenReg[RSP] = SeenReg[RSP] - 1
    BY <1>1
  <2> QED BY <2>1, <2>2, Adds
<1>3. SeenReg[RSP] + (-1) = SeenReg[RSP] - 1
  BY <1>1
<1>4. e_writes /\ (e_fails <=> ~InMemory(e_addr)) /\ e_dstE = RSP /\ E.dstM = RNONE
  BY StoredE DEF e_fails, e_reads, e_writes, e_dstE, DstE, DstM
<1>5. e_valA = RegVal(SeenReg, prog[E.pc].rA)
  <2>1. InE.rA \in REGS /\ InE.rA = prog[E.pc].rA
    BY StoredE DEF Assembled, NamesRegisters
  <2> QED BY <2>1, StoredE, RegisterAssumption DEF Operands, SrcA, e_valA, RegVal
<1>6. IsIsa!StackFails <=> ~InMemory(Wrap(SeenReg[RSP] - 1))
  BY StoredE, SameOperators DEF IsIsa!StackFails, IsIsa!At
<1>7. CASE IsIsa!StackFails
  BY <1>2, <1>4, <1>6, <1>7, StoredE, SeenNext, SeenPcNext DEF Exceptional, IsIsa!Stop
<1>8. CASE ~IsIsa!StackFails
  BY <1>6, <1>8, <1>2, <1>3, <1>4, <1>5, StoredE, SeenNext, SeenPcNext,
     SameOperators, RegisterAssumption
  DEF TargetE, WithReg, Exceptional, IsIsa!Pushq, IsIsa!PushWord, IsIsa!Moved, IsIsa!Stop,
      IsIsa!GoOn, IsIsa!ftpc
<1> QED BY <1>7, <1>8

LEMMA RetSeen ==
  ASSUME IInv, ~Misled, Cycle, Executes, E.stat = "AOK", E.icode = "IRET"
  PROVE  IsIsa!Ret
<1>1. E.valB = SeenReg[RSP] /\ SeenReg[RSP] \in Int
  BY StoredE, RegisterAssumption, HalfAssumption DEF Operands, SrcB, Registers, Word
<1>2. e_valE = Wrap(SeenReg[RSP] + 1) /\ e_addr = SeenReg[RSP]
  <2>1. e_valE = ComputeAlu(A_ADD, 1, SeenReg[RSP]) /\ e_addr = SeenReg[RSP]
    BY <1>1, StoredE, RegisterAssumption
    DEF e_valE, e_valA, alufun, aluA, aluB, e_addr, Operands, SrcA
  <2>2. 1 + SeenReg[RSP] = SeenReg[RSP] + 1
    BY <1>1
  <2> QED BY <2>1, <2>2, Adds
<1>3. /\ ~e_writes /\ (e_fails <=> ~InMemory(e_addr)) /\ e_dstE = RSP /\ E.dstM = RNONE
      /\ ~e_fails => e_valM = SeenMem[e_addr]
  BY StoredE DEF e_fails, e_reads, e_writes, e_valM, e_dstE, DstE, DstM
<1> QED
  BY <1>2, <1>3, StoredE, SeenNext, SeenPcNext, SameOperators, RegisterAssumption
  DEF TargetE, WithReg, Exceptional, IsIsa!Ret, IsIsa!Moved, IsIsa!Stop, IsIsa!GoOn

LEMMA PopqSeen ==
  ASSUME IInv, ~Misled, Cycle, Executes, E.stat = "AOK", E.icode = "IPOPQ"
  PROVE  IF IsIsa!StackFails THEN IsIsa!Stop("ADR") /\ UNCHANGED SeenReg ELSE IsIsa!Popq
<1>1. E.valB = SeenReg[RSP] /\ SeenReg[RSP] \in Int
  BY StoredE, RegisterAssumption, HalfAssumption DEF Operands, SrcB, Registers, Word
<1>2. e_valE = Wrap(SeenReg[RSP] + 1) /\ e_addr = SeenReg[RSP]
  <2>1. e_valE = ComputeAlu(A_ADD, 1, SeenReg[RSP]) /\ e_addr = SeenReg[RSP]
    BY <1>1, StoredE, RegisterAssumption
    DEF e_valE, e_valA, alufun, aluA, aluB, e_addr, Operands, SrcA
  <2>2. 1 + SeenReg[RSP] = SeenReg[RSP] + 1
    BY <1>1
  <2> QED BY <2>1, <2>2, Adds
<1>3. /\ ~e_writes /\ (e_fails <=> ~InMemory(e_addr))
      /\ e_dstE = RSP /\ E.dstM = prog[E.pc].rA
      /\ ~e_fails => e_valM = SeenMem[e_addr]
  BY StoredE DEF e_fails, e_reads, e_writes, e_valM, e_dstE, DstE, DstM, NamesRegisters
<1>4. IsIsa!StackFails <=> ~InMemory(SeenReg[RSP])
  BY StoredE, SameOperators DEF IsIsa!StackFails, IsIsa!At
<1>5. CASE IsIsa!StackFails
  BY <1>2, <1>3, <1>4, <1>5, StoredE, SeenNext, SeenPcNext DEF Exceptional, IsIsa!Stop
<1>6. CASE ~IsIsa!StackFails
  BY <1>4, <1>6, <1>2, <1>3, StoredE, SeenNext, SeenPcNext, SameOperators,
     RegisterAssumption
  DEF TargetE, WithReg, Exceptional, IsIsa!Popq, IsIsa!Moved, IsIsa!Stop,
      IsIsa!GoOn, IsIsa!ftpc
<1> QED BY <1>5, <1>6

\* An instruction that cannot be fetched, is none or halts stops the processor.
LEMMA StopSeen ==
  ASSUME IInv, ~Misled, Cycle, Executes, E.stat # "AOK"
  PROVE  IsIsa!NoInstruction \/ IsIsa!BadInstruction \/ IsIsa!Halt
<1>1. TypeInv /\ InE = InstructionAt(E.pc) /\ E.pc \in Word /\ SeenPc = E.pc /\ SeenStat = "AOK"
  BY NextInE DEF IInv
<1>2. /\ E.stat \in Exceptional /\ E.icode \in {"INOP", "IHALT", "bad"}
      /\ E.stat = StatAt(E.pc)
      /\ (E.stat = "HLT" <=> E.icode = "IHALT") /\ (E.stat = "INS" <=> E.icode = "bad")
  <2>1. E.stat \in StageStat \ {"BUB", "AOK"} /\ E.stat = StatAt(E.pc)
    BY <1>1, StageE, StagesWellFormed, NextInE DEF WellFormed, Empty, InstructionAt
  <2> QED BY <1>1, <2>1, StageE, StagesWellFormed DEF WellFormed, StageStat, Exceptional
<1>3. ~e_fails /\ ~e_writes /\ e_stat = E.stat
  BY <1>2 DEF e_fails, e_reads, e_writes, e_stat
<1>4. /\ SeenStat' = E.stat /\ SeenPc' = SeenPc
      /\ UNCHANGED <<prog, SeenReg, SeenMem, cc>>
  BY <1>1, <1>2, <1>3, SeenNext, SeenPcNext
<1>5. CASE ~HasInstruction(E.pc)
  BY <1>1, <1>2, <1>4, <1>5, SameOperators DEF StatAt, IsIsa!NoInstruction, IsIsa!Stop
<1>6. CASE HasInstruction(E.pc)
  <2>1. prog[E.pc].icode = E.icode
    BY <1>1, <1>6, StageE DEF InstructionAt, IcodeAt
  <2>2. E.stat \in {"HLT", "INS"}
    BY <1>2, <1>6 DEF StatAt
  <2>3. IsIsa!At(E.icode)
    BY <1>1, <1>6, <2>1, SameOperators DEF IsIsa!At
  <2> QED BY <1>2, <1>4, <2>2, <2>3 DEF IsIsa!BadInstruction, IsIsa!Halt, IsIsa!Stop
<1> QED BY <1>5, <1>6

\* A stop that leaves every register is not what the instruction set does at a
\* push, call or pop that fails.
LEMMA StopIsNoStep ==
  ASSUME SeenReg \in Registers, IsIsa!StackFails, UNCHANGED SeenReg
  PROVE  ~IsIsa!Next
<1>1. \A n \in {1, -1} : IsIsa!Moved(n) # SeenReg
  <2>1. SeenReg[RSP] \in Word
    BY RegisterAssumption DEF Registers
  <2>2. \A n \in {1, -1} : Wrap(SeenReg[RSP] + n) # SeenReg[RSP]
    BY <2>1, HalfAssumption DEF Wrap, Word
  <2> QED BY <2>1, <2>2, SameOperators, RegisterAssumption DEF IsIsa!Moved, WithReg, Registers
<1>2. /\ IsIsa!At("IPUSHQ") \/ IsIsa!At("ICALL") => ~InMemory(Wrap(SeenReg[RSP] - 1))
      /\ IsIsa!At("IPOPQ") => ~InMemory(SeenReg[RSP])
  BY SameOperators DEF IsIsa!StackFails, IsIsa!At
<1>3. ~IsIsa!Call /\ ~IsIsa!Pushq /\ ~IsIsa!Popq
  BY <1>1, <1>2, SameOperators DEF IsIsa!Call, IsIsa!Pushq, IsIsa!Popq, IsIsa!PushWord
<1>4. IsIsa!At("IPUSHQ") \/ IsIsa!At("ICALL") \/ IsIsa!At("IPOPQ")
  BY DEF IsIsa!StackFails
<1>5. /\ ~IsIsa!NoInstruction /\ ~IsIsa!BadInstruction /\ ~IsIsa!Halt /\ ~IsIsa!Nop
      /\ ~IsIsa!Rrmovq /\ ~IsIsa!Irmovq /\ ~IsIsa!Rmmovq /\ ~IsIsa!Mrmovq
      /\ ~IsIsa!Opq /\ ~IsIsa!Iaddq /\ ~IsIsa!Jxx /\ ~IsIsa!Ret
  BY <1>4 DEF IsIsa!At, IsIsa!NoInstruction, IsIsa!BadInstruction, IsIsa!Halt, IsIsa!Nop,
              IsIsa!Rrmovq, IsIsa!Irmovq, IsIsa!Rmmovq, IsIsa!Mrmovq, IsIsa!Opq, IsIsa!Iaddq,
              IsIsa!Jxx, IsIsa!Ret
<1> QED BY <1>3, <1>5 DEF IsIsa!Next

\* A cycle that executes an instruction is a step of the instruction set, but
\* for %rsp where a push, call or pop fails.
LEMMA ExecutesIsStep ==
  ASSUME IInv, ~Misled, Cycle, Executes
  PROVE  IsIsa!ButForRsp
<1>1. CASE E.stat # "AOK"
  <2>1. IsIsa!Next
    BY <1>1, StopSeen DEF IsIsa!Next
  <2>2. ~IsIsa!StackFails
    BY <1>1, StopSeen DEF IsIsa!StackFails, IsIsa!NoInstruction, IsIsa!BadInstruction,
                          IsIsa!Halt, IsIsa!At
  <2> QED BY <2>1, <2>2 DEF IsIsa!ButForRsp
<1>2. CASE E.stat = "AOK"
  <2>1. E.icode \in ICodes \ {"IHALT"}
    BY <1>2, StageE, StagesWellFormed DEF IInv, WellFormed
  <2>2. CASE E.icode \in {"ICALL", "IPUSHQ", "IPOPQ"}
    <3>1. IF IsIsa!StackFails THEN IsIsa!Stop("ADR") /\ UNCHANGED SeenReg ELSE IsIsa!Next
      BY <1>2, <2>2, CallSeen, PushqSeen, PopqSeen DEF IsIsa!Next
    <3> QED BY <1>2, <3>1, StoredE, StopIsNoStep DEF IsIsa!ButForRsp
  <2>3. CASE E.icode \notin {"ICALL", "IPUSHQ", "IPOPQ"}
    <3>1. IsIsa!Next
      BY <1>2, <2>1, <2>3, NopSeen, RrmovqSeen, IrmovqSeen, RmmovqSeen, MrmovqSeen, OpqSeen,
         IaddqSeen, JxxSeen, RetSeen
      DEF ICodes, IsIsa!Next
    <3>2. ~IsIsa!StackFails
      BY <1>2, <2>3, StoredE DEF IsIsa!StackFails, IsIsa!At
    <3> QED BY <3>1, <3>2 DEF IsIsa!ButForRsp
  <2> QED BY <2>2, <2>3
<1> QED BY <1>1, <1>2

\* The reset pipeline is all bubbles, and shows the state of a reset machine.
LEMMA InitInv ==
  ASSUME Init
  PROVE  IInv /\ IsIsa!Init
<1>1. /\ D = bubble_if_id /\ E = bubble_id_ex /\ M = bubble_ex_mem /\ W = bubble_mem_wb
      /\ F = 0 /\ prog \in Programs /\ cc = DEFAULT_CC
      /\ reg = [r \in REGS |-> 0] /\ mem = [a \in 0 .. MEM_LEN - 1 |-> 0]
  BY DEF Init, Reset
<1>2. TypeD
  BY <1>1, AddressesAreWords DEF TypeD, bubble_if_id, Empty
<1>3. TypeE
  <2>1. InE = bubble_if_id
    BY <1>1 DEF InE, Empty, bubble_id_ex
  <2> QED BY <1>1, <2>1, AddressesAreWords
          DEF TypeE, Decoded, DstE, DstM, bubble_if_id, bubble_id_ex
<1>4. TypeM /\ TypeW
  BY <1>1, AddressesAreWords
  DEF TypeM, TypeW, bubble_ex_mem, bubble_mem_wb, StageStat, ICodes, RegId
<1>5. reg \in Registers /\ mem \in Memory /\ cc \in Flags /\ F \in Word
  BY <1>1, AddressesAreWords DEF Registers, Memory, Flags, DEFAULT_CC
<1>6. NothingBehind /\ OnPath /\ Operands
  BY <1>1 DEF NothingBehind, OnPath, Operands, Redirecting, Empty, bubble_if_id, bubble_id_ex,
              bubble_ex_mem, bubble_mem_wb
<1>7. IInv
  BY <1>1, <1>2, <1>3, <1>4, <1>5, <1>6 DEF IInv, TypeInv
<1>8. m_stat = "BUB" /\ ~mem_write /\ m_valM = 0 /\ f_pc = 0
  BY <1>1 DEF m_stat, m_valM, dmem_error, mem_read, mem_write, f_pc, bubble_ex_mem,
              bubble_mem_wb
<1>9. SeenPc = 0 /\ SeenStat = "AOK" /\ SeenMem = mem
  BY <1>1, <1>8 DEF SeenPc, SeenStat, SeenMem, Exceptional, bubble_if_id, bubble_id_ex,
                    bubble_ex_mem, bubble_mem_wb
<1>10. SeenReg = reg
  BY <1>1, <1>8 DEF SeenReg, Finished, WithReg, mem_wb_next, bubble_ex_mem, bubble_mem_wb
<1>11. IsIsa!Init
  BY <1>1, <1>9, <1>10 DEF IsIsa!Init, IsIsa!Reset, DEFAULT_CC, IsIsa!DEFAULT_CC
<1> QED BY <1>7, <1>11

\* As long as it is not misled the pipelined processor holds in every stage an
\* instruction of the program or none, works on the operands a programmer
\* expects and fetches along the predicted path, for every word width, memory
\* and program.
THEOREM PipeInvariant == SteadySpec => []IInv
<1>1. Init => IInv
  BY InitInv
<1> QED BY <1>1, InvInductive, PTL DEF SteadySpec

\* As long as it is not misled (no jump meets a stray flag, and no address
\* without a base a stray value), every cycle of psim executes one instruction of
\* isa.c or none as the programmer sees it, whatever is stalled, forwarded,
\* predicted and cancelled: for every word width, memory and program.  Exempted
\* is %rsp after a push, call or pop that fails, which psim leaves and
\* step_state() has moved.
THEOREM PipeIsIsa == SteadySpec => PipeIsIsaButForRsp
<1>1. Init => IsIsa!Init
  BY InitInv
<1>2. ASSUME IInv, [~Misled /\ Cycle]_vars
      PROVE  [IsIsa!ButForRsp]_(IsIsa!vars)
  <2>1. CASE UNCHANGED vars
    BY <2>1 DEF vars, IsIsa!vars, SeenPc, SeenReg, SeenMem, SeenStat, Finished, mem_wb_next,
                m_stat, m_valM, dmem_error, mem_read, mem_write, mem_addr, f_pc
  <2>2. CASE ~Misled /\ Cycle /\ Executes
    BY <1>2, <2>2, ExecutesIsStep
  <2>3. CASE ~Misled /\ Cycle /\ ~Executes
    BY <1>2, <2>3, OthersAreNotSeen DEF IsIsa!vars, Cycle
  <2> QED BY <1>2, <2>1, <2>2, <2>3
<1> QED BY <1>1, <1>2, PipeInvariant, PTL DEF SteadySpec, PipeIsIsaButForRsp, IsIsa!SpecButForRsp

-----------------------------------------------------------------------------
(* The machines of module Processors.  Its sequential processor and its      *)
(* simulator of lab 5 are those of module SeqProofs with other variables,    *)
(* and each of their operators is one of SeqProofs.                          *)

SP == INSTANCE SeqProofs WITH pc <- seqPc, reg <- seqReg, mem <- seqMem, cc <- seqCc,
                              status <- seqStatus

YP == INSTANCE SeqProofs WITH pc <- y64Pc, reg <- y64Reg, mem <- y64Mem, cc <- y64Cc,
                              status <- y64Stat

\* A sequential processor on its own executes the instruction set.
LEMMA SeqAlone == SP!Spec => SP!IsIsaButForRsp
BY SP!SeqIsIsa, HalfAssumption, RegisterAssumption, LengthAssumption, BitwiseAssumption,
   ProgramAssumption
   DEF Word, Instruction, Assembled, ICodes, A_ADD, A_SUB, A_AND, A_XOR, F_NONE, SP!Word,
      SP!Instruction, SP!Assembled, SP!ICodes, SP!A_ADD, SP!A_SUB, SP!A_AND, SP!A_XOR,
      SP!F_NONE

\* A simulator on its own leaves it at the listed steps only.
LEMMA Y64Alone == YP!Yat!Spec => YP!Yat!DeviatesThereOnly
BY YP!Y64DiffersThereOnly, HalfAssumption, RegisterAssumption, LengthAssumption,
   BitwiseAssumption, ProgramAssumption
  DEF Word, Instruction, Assembled, ICodes, A_ADD, A_SUB, A_AND, A_XOR, F_NONE, YP!Word,
      YP!Instruction, YP!Assembled, YP!ICodes, YP!A_ADD, YP!A_SUB, YP!A_AND, YP!A_XOR,
      YP!F_NONE

\* Words, flags, registers and memory are the same in both sequential processors.
LEMMA SeqOperators ==
  /\ \A a : Ssim!HasInstruction(a) <=> SP!HasInstruction(a)
  /\ \A a : Ssim!InMemory(a) <=> SP!InMemory(a)
  /\ \A n : Ssim!Wrap(n) = SP!Wrap(n)
  /\ \A r, id : Ssim!RegVal(r, id) = SP!RegVal(r, id)
  /\ \A r, id, val : Ssim!WithReg(r, id, val) = SP!WithReg(r, id, val)
  /\ \A c, cond : Ssim!CondHolds(c, cond) <=> SP!CondHolds(c, cond)
  /\ \A op, a, b : Ssim!ComputeAlu(op, a, b) = SP!ComputeAlu(op, a, b)
  /\ \A op, a, b : Ssim!ComputeCc(op, a, b) = SP!ComputeCc(op, a, b)
  /\ \A z, s, o : Ssim!PackCc(z, s, o) = SP!PackCc(z, s, o)
BY DEF Ssim!Wrap, SP!Wrap, Ssim!A_ADD, SP!A_ADD, Ssim!A_SUB, SP!A_SUB, Ssim!A_AND,
      SP!A_AND, Ssim!A_XOR, SP!A_XOR, Ssim!ComputeAlu, SP!ComputeAlu, Ssim!PackCc,
      SP!PackCc, Ssim!Overflow, SP!Overflow, Ssim!ComputeCc, SP!ComputeCc, Ssim!C_YES,
      SP!C_YES, Ssim!C_LE, SP!C_LE, Ssim!C_L, SP!C_L, Ssim!C_E, SP!C_E, Ssim!C_NE,
      SP!C_NE, Ssim!C_GE, SP!C_GE, Ssim!C_G, SP!C_G, Ssim!Less, SP!Less, Ssim!CondHolds,
      SP!CondHolds, Ssim!RegVal, SP!RegVal, Ssim!WithReg, SP!WithReg, Ssim!InMemory,
      SP!InMemory, Ssim!HasInstruction, SP!HasInstruction

\* So are all signals, each computed from those before it.
LEMMA SeqSignals ==
  /\ Ssim!imem_error <=> SP!imem_error
  /\ Ssim!icode = SP!icode
  /\ Ssim!ifun = SP!ifun
  /\ Ssim!instr_valid <=> SP!instr_valid
  /\ Ssim!need_regids <=> SP!need_regids
  /\ Ssim!need_valC <=> SP!need_valC
  /\ Ssim!rA = SP!rA
  /\ Ssim!rB = SP!rB
  /\ Ssim!valC = SP!valC
  /\ Ssim!valP = SP!valP
  /\ Ssim!srcA = SP!srcA
  /\ Ssim!srcB = SP!srcB
  /\ Ssim!valA = SP!valA
  /\ Ssim!valB = SP!valB
  /\ Ssim!Cnd <=> SP!Cnd
  /\ Ssim!dstE = SP!dstE
  /\ Ssim!dstM = SP!dstM
  /\ Ssim!aluA = SP!aluA
  /\ Ssim!aluB = SP!aluB
  /\ Ssim!alufun = SP!alufun
  /\ Ssim!valE = SP!valE
  /\ Ssim!set_cc <=> SP!set_cc
  /\ Ssim!mem_read <=> SP!mem_read
  /\ Ssim!mem_write <=> SP!mem_write
  /\ Ssim!mem_addr = SP!mem_addr
  /\ Ssim!mem_data = SP!mem_data
  /\ Ssim!dmem_error <=> SP!dmem_error
  /\ Ssim!valM = SP!valM
  /\ Ssim!Stat = SP!Stat
  /\ Ssim!new_pc = SP!new_pc
<1>1. /\ Ssim!imem_error <=> SP!imem_error
      /\ Ssim!icode = SP!icode
      /\ Ssim!ifun = SP!ifun
      /\ Ssim!instr_valid <=> SP!instr_valid
      /\ Ssim!need_regids <=> SP!need_regids
      /\ Ssim!need_valC <=> SP!need_valC
      /\ Ssim!rA = SP!rA
      /\ Ssim!rB = SP!rB
      /\ Ssim!valC = SP!valC
      /\ Ssim!valP = SP!valP
  BY SeqOperators
  DEF Ssim!imem_error, SP!imem_error, Ssim!icode, SP!icode, Ssim!ifun, SP!ifun,
      Ssim!instr_valid, SP!instr_valid, Ssim!need_regids, SP!need_regids,
      Ssim!need_valC, SP!need_valC, Ssim!rA, SP!rA, Ssim!rB, SP!rB, Ssim!valC, SP!valC,
      Ssim!valP, SP!valP, Ssim!F_NONE, SP!F_NONE, Ssim!ICodes, SP!ICodes
<1>2. /\ Ssim!srcA = SP!srcA
      /\ Ssim!srcB = SP!srcB
      /\ Ssim!valA = SP!valA
      /\ Ssim!valB = SP!valB
      /\ Ssim!Cnd <=> SP!Cnd
      /\ Ssim!dstE = SP!dstE
      /\ Ssim!dstM = SP!dstM
  BY <1>1, SeqOperators
  DEF Ssim!srcA, SP!srcA, Ssim!srcB, SP!srcB, Ssim!valA, SP!valA, Ssim!valB, SP!valB,
      Ssim!Cnd, SP!Cnd, Ssim!dstE, SP!dstE, Ssim!dstM, SP!dstM
<1>3. /\ Ssim!aluA = SP!aluA
      /\ Ssim!aluB = SP!aluB
      /\ Ssim!alufun = SP!alufun
      /\ Ssim!valE = SP!valE
      /\ Ssim!set_cc <=> SP!set_cc
  BY <1>1, <1>2, SeqOperators
  DEF Ssim!aluA, SP!aluA, Ssim!aluB, SP!aluB, Ssim!alufun, SP!alufun, Ssim!valE,
      SP!valE, Ssim!set_cc, SP!set_cc, Ssim!A_ADD, SP!A_ADD
<1>4. /\ Ssim!mem_read <=> SP!mem_read
      /\ Ssim!mem_write <=> SP!mem_write
      /\ Ssim!mem_addr = SP!mem_addr
      /\ Ssim!mem_data = SP!mem_data
      /\ Ssim!dmem_error <=> SP!dmem_error
      /\ Ssim!valM = SP!valM
      /\ Ssim!Stat = SP!Stat
      /\ Ssim!new_pc = SP!new_pc
  BY <1>1, <1>2, <1>3, SeqOperators
  DEF Ssim!mem_read, SP!mem_read, Ssim!mem_write, SP!mem_write, Ssim!mem_addr,
      SP!mem_addr, Ssim!mem_data, SP!mem_data, Ssim!dmem_error, SP!dmem_error,
      Ssim!valM, SP!valM, Ssim!Stat, SP!Stat, Ssim!new_pc, SP!new_pc
<1> QED BY <1>1, <1>2, <1>3, <1>4

\* So are the cycles.
LEMMA SeqStep == Ssim!SimStep <=> SP!Next
BY SeqOperators, SeqSignals
DEF SP!Next, Ssim!SimStep, SP!SimStep, Ssim!UpdateState, SP!UpdateState

\* So is the instruction set they are compared with.
LEMMA SeqIsa == Ssim!IsIsa!ButForRsp <=> SP!IsIsa!ButForRsp
BY DEF Ssim!IsIsa!ButForRsp, SP!IsIsa!ButForRsp, Ssim!IsIsa!StackFails,
      SP!IsIsa!StackFails, Ssim!IsIsa!At, SP!IsIsa!At, Ssim!IsIsa!ftpc, SP!IsIsa!ftpc,
      Ssim!IsIsa!Stop, SP!IsIsa!Stop, Ssim!IsIsa!GoOn, SP!IsIsa!GoOn, Ssim!IsIsa!NoInstruction,
      SP!IsIsa!NoInstruction, Ssim!IsIsa!BadInstruction, SP!IsIsa!BadInstruction,
      Ssim!IsIsa!Halt, SP!IsIsa!Halt, Ssim!IsIsa!Nop, SP!IsIsa!Nop, Ssim!IsIsa!Rrmovq,
      SP!IsIsa!Rrmovq, Ssim!IsIsa!Irmovq, SP!IsIsa!Irmovq, Ssim!IsIsa!Address,
      SP!IsIsa!Address, Ssim!IsIsa!Rmmovq, SP!IsIsa!Rmmovq, Ssim!IsIsa!Mrmovq,
      SP!IsIsa!Mrmovq, Ssim!IsIsa!Arithmetic, SP!IsIsa!Arithmetic, Ssim!IsIsa!Opq,
      SP!IsIsa!Opq, Ssim!IsIsa!Iaddq, SP!IsIsa!Iaddq, Ssim!IsIsa!Jxx, SP!IsIsa!Jxx,
      Ssim!IsIsa!Moved, SP!IsIsa!Moved, Ssim!IsIsa!PushWord, SP!IsIsa!PushWord,
      Ssim!IsIsa!Call, SP!IsIsa!Call, Ssim!IsIsa!Pushq, SP!IsIsa!Pushq, Ssim!IsIsa!Ret,
      SP!IsIsa!Ret, Ssim!IsIsa!Popq, SP!IsIsa!Popq, Ssim!IsIsa!Next, SP!IsIsa!Next,
      Ssim!IsIsa!Wrap, SP!IsIsa!Wrap, Ssim!IsIsa!A_ADD, SP!IsIsa!A_ADD,
      Ssim!IsIsa!A_SUB, SP!IsIsa!A_SUB, Ssim!IsIsa!A_AND, SP!IsIsa!A_AND,
      Ssim!IsIsa!A_XOR, SP!IsIsa!A_XOR, Ssim!IsIsa!ComputeAlu, SP!IsIsa!ComputeAlu,
      Ssim!IsIsa!PackCc, SP!IsIsa!PackCc, Ssim!IsIsa!Overflow, SP!IsIsa!Overflow,
      Ssim!IsIsa!ComputeCc, SP!IsIsa!ComputeCc, Ssim!IsIsa!C_YES, SP!IsIsa!C_YES,
      Ssim!IsIsa!C_LE, SP!IsIsa!C_LE, Ssim!IsIsa!C_L, SP!IsIsa!C_L, Ssim!IsIsa!C_E,
      SP!IsIsa!C_E, Ssim!IsIsa!C_NE, SP!IsIsa!C_NE, Ssim!IsIsa!C_GE, SP!IsIsa!C_GE,
      Ssim!IsIsa!C_G, SP!IsIsa!C_G, Ssim!IsIsa!Less, SP!IsIsa!Less,
      Ssim!IsIsa!CondHolds, SP!IsIsa!CondHolds, Ssim!IsIsa!RegVal, SP!IsIsa!RegVal,
      Ssim!IsIsa!WithReg, SP!IsIsa!WithReg, Ssim!IsIsa!InMemory, SP!IsIsa!InMemory,
      Ssim!IsIsa!HasInstruction, SP!IsIsa!HasInstruction

\* In step with the pipelined processor, misled or not, the sequential one executes
\* the instruction set, for every word width, program and size of memory: no cycle
\* of ssim does what step_state() of isa.c does not, but for a push, call or pop
\* that fails, where %rsp and nothing else is not step_state()'s.
THEOREM SeqInLockStep == SpecAll => SeqIsIsaButForRsp
<1>1. InitAll => SP!Init
  BY DEF InitAll, Init, Ssim!Reset, SP!Init, SP!Reset, Ssim!DEFAULT_CC, SP!DEFAULT_CC
<1>2. ASSUME [NextAll]_allVars
      PROVE  [SP!Next]_(SP!vars)
  BY <1>2, SeqStep DEF NextAll, StepOfSeq, allVars, seqVars, SP!vars, vars, Cycle
<1>3. SP!IsIsa!Init => Ssim!IsIsa!Init
  BY DEF SP!IsIsa!Init, Ssim!IsIsa!Init, SP!IsIsa!Reset, Ssim!IsIsa!Reset, SP!IsIsa!DEFAULT_CC,
         Ssim!IsIsa!DEFAULT_CC
<1>4. ASSUME [SP!IsIsa!ButForRsp]_(SP!IsIsa!vars)
      PROVE  [Ssim!IsIsa!ButForRsp]_(Ssim!IsIsa!vars)
  BY <1>4, SeqIsa DEF SP!IsIsa!vars, Ssim!IsIsa!vars
<1> QED BY <1>1, <1>2, <1>3, <1>4, SeqAlone, PTL
        DEF SpecAll, SP!Spec, SP!IsIsaButForRsp, SP!IsIsa!SpecButForRsp, SeqIsIsaButForRsp,
            Ssim!IsIsaButForRsp, Ssim!IsIsa!SpecButForRsp

\* Words, flags, registers and memory are the same in both simulators.
LEMMA Y64Operators ==
  /\ \A a : Yat!HasInstruction(a) <=> YP!Yat!HasInstruction(a)
  /\ \A a : Yat!InMemory(a) <=> YP!Yat!InMemory(a)
  /\ \A n : Yat!Wrap(n) = YP!Yat!Wrap(n)
  /\ \A r, id : Yat!RegVal(r, id) = YP!Yat!RegVal(r, id)
  /\ \A r, id, val : Yat!WithReg(r, id, val) = YP!Yat!WithReg(r, id, val)
  /\ \A c, cond : Yat!CondHolds(c, cond) <=> YP!Yat!CondHolds(c, cond)
  /\ \A op, a, b : Yat!ComputeAlu(op, a, b) = YP!Yat!ComputeAlu(op, a, b)
  /\ \A op, a, b : Yat!ComputeCc(op, a, b) = YP!Yat!ComputeCc(op, a, b)
  /\ \A z, s, o : Yat!PackCc(z, s, o) = YP!Yat!PackCc(z, s, o)
BY DEF Yat!Wrap, YP!Yat!Wrap, Yat!A_ADD, YP!Yat!A_ADD, Yat!A_SUB, YP!Yat!A_SUB,
      Yat!A_AND, YP!Yat!A_AND, Yat!A_XOR, YP!Yat!A_XOR, Yat!ComputeAlu,
      YP!Yat!ComputeAlu, Yat!PackCc, YP!Yat!PackCc, Yat!Overflow, YP!Yat!Overflow,
      Yat!ComputeCc, YP!Yat!ComputeCc, Yat!C_YES, YP!Yat!C_YES, Yat!C_LE, YP!Yat!C_LE,
      Yat!C_L, YP!Yat!C_L, Yat!C_E, YP!Yat!C_E, Yat!C_NE, YP!Yat!C_NE, Yat!C_GE,
      YP!Yat!C_GE, Yat!C_G, YP!Yat!C_G, Yat!Less, YP!Yat!Less, Yat!CondHolds,
      YP!Yat!CondHolds, Yat!RegVal, YP!Yat!RegVal, Yat!WithReg, YP!Yat!WithReg,
      Yat!InMemory, YP!Yat!InMemory, Yat!HasInstruction, YP!Yat!HasInstruction

\* So are the steps and where they deviate.
LEMMA Y64Step == (Yat!Next <=> YP!Yat!Next) /\ (Yat!Deviates <=> YP!Yat!Deviates)
<1>1. /\ Yat!Address = YP!Yat!Address
      /\ Yat!StackTop = YP!Yat!StackTop
      /\ \A n : Yat!Moved(n) = YP!Yat!Moved(n)
      /\ \A m, a, val : Yat!Stored(m, a, val) = YP!Yat!Stored(m, a, val)
      /\ \A m, a, old : Yat!Loaded(m, a, old) = YP!Yat!Loaded(m, a, old)
      /\ \A code : Yat!At(code) <=> YP!Yat!At(code)
      /\ \A op, a, b, val : Yat!FlagsOf(op, a, b, val) = YP!Yat!FlagsOf(op, a, b, val)
      /\ \A op, a, b : Yat!FlagsDiffer(op, a, b) <=> YP!Yat!FlagsDiffer(op, a, b)
  BY Y64Operators
  DEF Yat!Address, YP!Yat!Address, Yat!StackTop, YP!Yat!StackTop, Yat!Moved,
      YP!Yat!Moved, Yat!Stored, YP!Yat!Stored, Yat!Loaded, YP!Yat!Loaded, Yat!At,
      YP!Yat!At, Yat!FlagsOf, YP!Yat!FlagsOf, Yat!FlagsDiffer, YP!Yat!FlagsDiffer,
      Yat!NarrowToInt, YP!Yat!NarrowToInt, Yat!A_ADD, YP!Yat!A_ADD, Yat!A_SUB,
      YP!Yat!A_SUB
<1>2. Yat!Deviates <=> YP!Yat!Deviates
  BY <1>1, Y64Operators DEF Yat!Deviates, YP!Yat!Deviates
<1>3. Yat!Next <=> YP!Yat!Next
  BY <1>1, Y64Operators
  DEF Yat!next_pc, YP!Yat!next_pc, Yat!Fail, YP!Yat!Fail, Yat!GoOn, YP!Yat!GoOn,
      Yat!NoInstruction, YP!Yat!NoInstruction, Yat!BadInstruction,
      YP!Yat!BadInstruction, Yat!Halt, YP!Yat!Halt, Yat!Nop, YP!Yat!Nop, Yat!Rrmovq,
      YP!Yat!Rrmovq, Yat!Irmovq, YP!Yat!Irmovq, Yat!Rmmovq, YP!Yat!Rmmovq, Yat!Mrmovq,
      YP!Yat!Mrmovq, Yat!Alu, YP!Yat!Alu, Yat!Jmp, YP!Yat!Jmp, Yat!Call, YP!Yat!Call,
      Yat!Ret, YP!Yat!Ret, Yat!Pushq, YP!Yat!Pushq, Yat!Popq, YP!Yat!Popq, Yat!Next,
      YP!Yat!Next
<1> QED BY <1>2, <1>3

\* So is the instruction set they are compared with.
LEMMA Y64Isa == Yat!IsIsa!Next <=> YP!Yat!IsIsa!Next
BY DEF Yat!IsIsa!At, YP!Yat!IsIsa!At, Yat!IsIsa!ftpc, YP!Yat!IsIsa!ftpc, Yat!IsIsa!Stop,
      YP!Yat!IsIsa!Stop, Yat!IsIsa!GoOn, YP!Yat!IsIsa!GoOn, Yat!IsIsa!NoInstruction,
      YP!Yat!IsIsa!NoInstruction, Yat!IsIsa!BadInstruction, YP!Yat!IsIsa!BadInstruction,
      Yat!IsIsa!Halt, YP!Yat!IsIsa!Halt, Yat!IsIsa!Nop, YP!Yat!IsIsa!Nop,
      Yat!IsIsa!Rrmovq, YP!Yat!IsIsa!Rrmovq, Yat!IsIsa!Irmovq, YP!Yat!IsIsa!Irmovq,
      Yat!IsIsa!Address, YP!Yat!IsIsa!Address, Yat!IsIsa!Rmmovq, YP!Yat!IsIsa!Rmmovq,
      Yat!IsIsa!Mrmovq, YP!Yat!IsIsa!Mrmovq, Yat!IsIsa!Arithmetic,
      YP!Yat!IsIsa!Arithmetic, Yat!IsIsa!Opq, YP!Yat!IsIsa!Opq, Yat!IsIsa!Iaddq,
      YP!Yat!IsIsa!Iaddq, Yat!IsIsa!Jxx, YP!Yat!IsIsa!Jxx, Yat!IsIsa!Moved,
      YP!Yat!IsIsa!Moved, Yat!IsIsa!PushWord, YP!Yat!IsIsa!PushWord, Yat!IsIsa!Call,
      YP!Yat!IsIsa!Call, Yat!IsIsa!Pushq, YP!Yat!IsIsa!Pushq, Yat!IsIsa!Ret,
      YP!Yat!IsIsa!Ret, Yat!IsIsa!Popq, YP!Yat!IsIsa!Popq, Yat!IsIsa!Next,
      YP!Yat!IsIsa!Next, Yat!IsIsa!Wrap, YP!Yat!IsIsa!Wrap, Yat!IsIsa!A_ADD,
      YP!Yat!IsIsa!A_ADD, Yat!IsIsa!A_SUB, YP!Yat!IsIsa!A_SUB, Yat!IsIsa!A_AND,
      YP!Yat!IsIsa!A_AND, Yat!IsIsa!A_XOR, YP!Yat!IsIsa!A_XOR, Yat!IsIsa!ComputeAlu,
      YP!Yat!IsIsa!ComputeAlu, Yat!IsIsa!PackCc, YP!Yat!IsIsa!PackCc,
      Yat!IsIsa!Overflow, YP!Yat!IsIsa!Overflow, Yat!IsIsa!ComputeCc,
      YP!Yat!IsIsa!ComputeCc, Yat!IsIsa!C_YES, YP!Yat!IsIsa!C_YES, Yat!IsIsa!C_LE,
      YP!Yat!IsIsa!C_LE, Yat!IsIsa!C_L, YP!Yat!IsIsa!C_L, Yat!IsIsa!C_E,
      YP!Yat!IsIsa!C_E, Yat!IsIsa!C_NE, YP!Yat!IsIsa!C_NE, Yat!IsIsa!C_GE,
      YP!Yat!IsIsa!C_GE, Yat!IsIsa!C_G, YP!Yat!IsIsa!C_G, Yat!IsIsa!Less,
      YP!Yat!IsIsa!Less, Yat!IsIsa!CondHolds, YP!Yat!IsIsa!CondHolds, Yat!IsIsa!RegVal,
      YP!Yat!IsIsa!RegVal, Yat!IsIsa!WithReg, YP!Yat!IsIsa!WithReg, Yat!IsIsa!InMemory,
      YP!Yat!IsIsa!InMemory, Yat!IsIsa!HasInstruction, YP!Yat!IsIsa!HasInstruction

\* In step with the pipelined processor, nexti() of y64sim leaves the instruction
\* set exactly at the steps that Deviates lists, for every width of words and of
\* int, every program and size of memory.
THEOREM Y64InLockStep == SpecAll => Y64DeviatesThereOnly
<1>1. InitAll => YP!Yat!Init
  BY DEF InitAll, Init, Yat!Reset, YP!Yat!Init, YP!Yat!Reset, Yat!DEFAULT_CC, YP!Yat!DEFAULT_CC
<1>2. ASSUME [NextAll]_allVars
      PROVE  [YP!Yat!Next]_(YP!Yat!vars)
  BY <1>2, Y64Step DEF NextAll, StepOfY64, allVars, y64Vars, YP!Yat!vars, vars, Cycle
<1>3. ASSUME [YP!Yat!Deviates <=> ~YP!Yat!IsIsa!Next]_(YP!Yat!vars)
      PROVE  [Yat!Deviates <=> ~Yat!IsIsa!Next]_(Yat!vars)
  BY <1>3, Y64Step, Y64Isa DEF YP!Yat!vars, Yat!vars
<1> QED BY <1>1, <1>2, <1>3, Y64Alone, PTL
        DEF SpecAll, YP!Yat!Spec, YP!Yat!DeviatesThereOnly, Y64DeviatesThereOnly,
            Yat!DeviatesThereOnly

\* The pipelined processor executes the instruction set also with the other two
\* machines in step with it: as long as it is not misled, each cycle of psim is one
\* instruction of isa.c, but for the %rsp of a push, call or pop that fails, or none.
THEOREM PipeInLockStep == SteadyAll => PipeIsIsaButForRsp
<1>1. InitAll => Init
  BY DEF InitAll
<1>2. ASSUME [~Misled /\ NextAll]_allVars
      PROVE  [~Misled /\ Cycle]_vars
  BY <1>2 DEF NextAll, allVars
<1> QED BY <1>1, <1>2, PipeIsIsa, PTL DEF SteadyAll, SteadySpec
=============================================================================
