------------------------------ MODULE SeqProofs ------------------------------
(***************************************************************************)
(* Machines that take one instruction at a time: the sequential processor   *)
(* implements the instruction set, and the simulator of lab 5 does but for  *)
(* the steps that module Y64sim lists.  One case per instruction.           *)
(***************************************************************************)
EXTENDS Seq, TLAPS

-----------------------------------------------------------------------------
(* Words, flags and the register file of Y86.                               *)

\* Wrapping a sum or a difference of two words gives a word.
LEMMA WrapType == \A n \in -2 * HALF .. 2 * HALF : Wrap(n) \in Word
BY HalfAssumption DEF Wrap, Word

\* Wrapping changes no word.
LEMMA WrapWord == \A n \in Word : Wrap(n) = n
BY HalfAssumption DEF Wrap, Word

\* The result of the arithmetic unit is a word.
LEMMA AluType ==
  ASSUME NEW op, NEW a \in Word, NEW b \in Word
  PROVE  ComputeAlu(op, a, b) \in Word
<1>1. a + b \in -2 * HALF .. 2 * HALF /\ b - a \in -2 * HALF .. 2 * HALF
  BY HalfAssumption DEF Word
<1>2. 0 \in Word
  BY HalfAssumption DEF Word
<1> QED BY <1>1, <1>2, WrapType, BitwiseAssumption DEF ComputeAlu

\* Addresses of instructions and of data, and their neighbours, are words.
LEMMA AddressesAreWords ==
  /\ \A a \in Word : HasInstruction(a) => a + 1 \in Word /\ a \in 0 .. PROG_LEN - 1
  /\ \A a \in Word : InMemory(a) => a \in 0 .. MEM_LEN - 1
  /\ 0 \in Word /\ 1 \in Word /\ -1 \in Word
BY HalfAssumption, LengthAssumption DEF HasInstruction, InMemory, Word

\* A register read is a word.
LEMMA RegValType ==
  ASSUME NEW r \in Registers, NEW id \in REGS \union {RNONE}
  PROVE  RegVal(r, id) \in Word
BY AddressesAreWords DEF RegVal, Registers

\* Writing a word to a register leaves a register file.
LEMMA WithRegType ==
  ASSUME NEW r \in Registers, NEW id \in REGS \union {RNONE}, NEW val \in Word
  PROVE  WithReg(r, id, val) \in Registers
BY DEF WithReg, Registers

\* The flags are flags.
LEMMA CcType ==
  ASSUME NEW op, NEW a, NEW b
  PROVE  ComputeCc(op, a, b) \in Flags
<1> ComputeCc(op, a, b) \subseteq {"ZF", "SF", "OF"}
  BY DEF ComputeCc, PackCc
<1> QED BY DEF Flags

\* compute_cc() of isa.c sets the overflow flag of an addition or subtraction
\* exactly when the true result is no word.
THEOREM OverflowIsExact ==
  ASSUME NEW a \in Word, NEW b \in Word
  PROVE  /\ "OF" \in ComputeCc(A_ADD, a, b) <=> a + b \notin Word
         /\ "OF" \in ComputeCc(A_SUB, a, b) <=> b - a \notin Word
<1>1. /\ ComputeAlu(A_ADD, a, b) = Wrap(a + b)
      /\ ComputeAlu(A_SUB, a, b) = Wrap(b - a)
  BY DEF ComputeAlu, A_ADD, A_SUB, A_AND, A_XOR
<1>2. Overflow(A_ADD, a, b, Wrap(a + b)) <=> a + b \notin Word
  BY HalfAssumption DEF Overflow, Wrap, Word, A_ADD, A_SUB
<1>3. Overflow(A_SUB, a, b, Wrap(b - a)) <=> b - a \notin Word
  BY HalfAssumption DEF Overflow, Wrap, Word, A_ADD, A_SUB
<1> QED BY <1>1, <1>2, <1>3 DEF ComputeCc, PackCc

\* cond_holds() of isa.c after subq compares the two operands as signed
\* numbers, overflow or not.
THEOREM ConditionsCompare ==
  ASSUME NEW a \in Word, NEW b \in Word
  PROVE  LET c == ComputeCc(A_SUB, a, b)
         IN /\ CondHolds(c, C_LE) <=> b <= a
            /\ CondHolds(c, C_L) <=> b < a
            /\ CondHolds(c, C_E) <=> b = a
            /\ CondHolds(c, C_NE) <=> b # a
            /\ CondHolds(c, C_GE) <=> b >= a
            /\ CondHolds(c, C_G) <=> b > a
<1> DEFINE val == Wrap(b - a)
           c == ComputeCc(A_SUB, a, b)
<1>1. c = PackCc(val = 0, val < 0, Overflow(A_SUB, a, b, val))
  BY DEF ComputeCc, ComputeAlu, A_ADD, A_SUB, A_AND, A_XOR
<1>2. "ZF" \in c <=> b = a
  BY <1>1, HalfAssumption DEF PackCc, Wrap, Word
<1>3. Less(c) <=> b < a
  <2>1. ("SF" \in c <=> val < 0) /\ ("OF" \in c <=> Overflow(A_SUB, a, b, val))
    BY <1>1 DEF PackCc
  <2>2. (val < 0 <=> ~Overflow(A_SUB, a, b, val)) <=> b < a
    BY HalfAssumption DEF Overflow, Wrap, Word, A_ADD, A_SUB
  <2> QED BY <2>1, <2>2 DEF Less
<1>4. a \in Int /\ b \in Int
  BY HalfAssumption DEF Word
<1> QED
  BY <1>2, <1>3, <1>4 DEF CondHolds, C_YES, C_LE, C_L, C_E, C_NE, C_GE, C_G

-----------------------------------------------------------------------------
(* The sequential processor.                                                *)

\* What fetch delivers of an instruction that exists.
LEMMA Fetched ==
  ASSUME TypeOK, HasInstruction(pc)
  PROVE  /\ ~imem_error
         /\ icode = prog[pc].icode /\ ifun = prog[pc].ifun
         /\ prog[pc] \in Instruction /\ Assembled(prog[pc])
         /\ valP = pc + 1 /\ pc + 1 \in Word
<1>1. pc \in 0 .. PROG_LEN - 1 /\ pc + 1 \in Word
  BY AddressesAreWords DEF TypeOK
<1>2. prog[pc] \in Instruction /\ Assembled(prog[pc])
  BY <1>1, ProgramAssumption DEF TypeOK
<1> QED BY <1>1, <1>2, WrapWord DEF imem_error, icode, ifun, valP

\* The instruction set works with the operators of Y86.
LEMMA SameOperators ==
  /\ \A a : IsIsa!HasInstruction(a) <=> HasInstruction(a)
  /\ \A a : IsIsa!InMemory(a) <=> InMemory(a)
  /\ \A n : IsIsa!Wrap(n) = Wrap(n)
  /\ \A r, id : IsIsa!RegVal(r, id) = RegVal(r, id)
  /\ \A r, id, val : IsIsa!WithReg(r, id, val) = WithReg(r, id, val)
  /\ \A c, cond : IsIsa!CondHolds(c, cond) <=> CondHolds(c, cond)
  /\ \A op, a, b : IsIsa!ComputeAlu(op, a, b) = ComputeAlu(op, a, b)
  /\ \A op, a, b : IsIsa!ComputeCc(op, a, b) = ComputeCc(op, a, b)
  /\ \A icode_ : IsIsa!At(icode_) <=>
                  status = "AOK" /\ HasInstruction(pc) /\ prog[pc].icode = icode_
<1>1. /\ \A a : IsIsa!HasInstruction(a) <=> HasInstruction(a)
      /\ \A a : IsIsa!InMemory(a) <=> InMemory(a)
  BY DEF IsIsa!HasInstruction, HasInstruction, IsIsa!InMemory, InMemory
<1>2. \A n : IsIsa!Wrap(n) = Wrap(n)
  BY DEF IsIsa!Wrap, Wrap
<1>3. /\ \A r, id : IsIsa!RegVal(r, id) = RegVal(r, id)
      /\ \A r, id, val : IsIsa!WithReg(r, id, val) = WithReg(r, id, val)
  BY DEF IsIsa!RegVal, RegVal, IsIsa!WithReg, WithReg
<1>4. \A c, cond : IsIsa!CondHolds(c, cond) <=> CondHolds(c, cond)
  BY DEF IsIsa!CondHolds, CondHolds, IsIsa!Less, Less, IsIsa!C_YES, IsIsa!C_LE, IsIsa!C_L,
         IsIsa!C_E, IsIsa!C_NE, IsIsa!C_GE, IsIsa!C_G, C_YES, C_LE, C_L, C_E, C_NE, C_GE, C_G
<1>5. \A op, a, b : IsIsa!ComputeAlu(op, a, b) = ComputeAlu(op, a, b)
  BY <1>2 DEF IsIsa!ComputeAlu, ComputeAlu, IsIsa!A_ADD, IsIsa!A_SUB, IsIsa!A_AND,
              IsIsa!A_XOR, A_ADD, A_SUB, A_AND, A_XOR
<1>6. \A op, a, b : IsIsa!ComputeCc(op, a, b) = ComputeCc(op, a, b)
  BY <1>5 DEF IsIsa!ComputeCc, ComputeCc, IsIsa!PackCc, PackCc, IsIsa!Overflow, Overflow,
              IsIsa!A_ADD, IsIsa!A_SUB, A_ADD, A_SUB
<1> QED BY <1>1, <1>2, <1>3, <1>4, <1>5, <1>6 DEF IsIsa!At

\* The arithmetic unit adds, and passes a word through when it adds 0 to it.
LEMMA Adds == \A a, b : ComputeAlu(A_ADD, a, b) = Wrap(a + b)
BY DEF ComputeAlu, A_ADD, A_SUB, A_AND, A_XOR

LEMMA AddZero ==
  ASSUME NEW w \in Word
  PROVE  ComputeAlu(A_ADD, w, 0) = w /\ ComputeAlu(A_ADD, 0, w) = w
<1>1. w + 0 = w /\ 0 + w = w
  BY HalfAssumption DEF Word
<1> QED BY <1>1, Adds, WrapWord

LEMMA RrmovqStep ==
  ASSUME TypeOK, SimStep, IsIsa!At("IRRMOVQ")
  PROVE  IsIsa!Rrmovq
<1>0. HasInstruction(pc) /\ prog[pc].icode = "IRRMOVQ" /\ status = "AOK"
  BY SameOperators
<1>1. /\ icode = "IRRMOVQ" /\ ifun = prog[pc].ifun
      /\ rA = prog[pc].rA /\ rB = prog[pc].rB
      /\ rA \in REGS /\ rB \in REGS
      /\ ~imem_error /\ valP = pc + 1
  BY <1>0, Fetched DEF rA, rB, need_regids, Assembled
<1>2. valA = RegVal(reg, rA) /\ valA \in Word
  BY <1>1, RegValType DEF valA, srcA, TypeOK
<1>3. valE = valA
  BY <1>1, <1>2, AddZero DEF valE, alufun, aluA, aluB
<1>4. dstE = (IF CondHolds(cc, ifun) THEN rB ELSE RNONE) /\ dstM = RNONE
  BY <1>1 DEF dstE, dstM, Cnd
<1>5. Stat = "AOK" /\ ~set_cc /\ ~mem_write /\ new_pc = pc + 1
  BY <1>1 DEF Stat, dmem_error, mem_read, mem_write, set_cc, instr_valid, ICodes, new_pc
<1> QED
  BY <1>0, <1>1, <1>2, <1>3, <1>4, <1>5, SameOperators, RegisterAssumption
  DEF SimStep, UpdateState, WithReg, IsIsa!Rrmovq, IsIsa!GoOn, IsIsa!ftpc

LEMMA NopStep ==
  ASSUME TypeOK, SimStep, IsIsa!At("INOP")
  PROVE  IsIsa!Nop
<1>0. HasInstruction(pc) /\ prog[pc].icode = "INOP" /\ status = "AOK"
  BY SameOperators
<1>1. /\ icode = "INOP" /\ ifun = prog[pc].ifun
      /\ ~imem_error /\ valP = pc + 1
  BY <1>0, Fetched DEF rA, rB, valC, need_regids, need_valC, Assembled, Instruction
<1>2. dstE = RNONE /\ dstM = RNONE
  BY <1>1 DEF dstE, dstM
<1>3. Stat = "AOK" /\ ~set_cc /\ ~mem_write /\ new_pc = pc + 1
  BY <1>1 DEF Stat, dmem_error, mem_read, mem_write, set_cc, instr_valid, ICodes, new_pc
<1> QED
  BY <1>0, <1>2, <1>3, SameOperators
  DEF SimStep, UpdateState, WithReg, IsIsa!Nop, IsIsa!GoOn, IsIsa!ftpc

LEMMA HaltStep ==
  ASSUME TypeOK, SimStep, IsIsa!At("IHALT")
  PROVE  IsIsa!Halt
<1>0. HasInstruction(pc) /\ prog[pc].icode = "IHALT" /\ status = "AOK"
  BY SameOperators
<1>1. /\ icode = "IHALT" /\ ifun = prog[pc].ifun
      /\ ~imem_error /\ valP = pc + 1
  BY <1>0, Fetched DEF rA, rB, valC, need_regids, need_valC, Assembled, Instruction
<1>2. Stat = "HLT"
  BY <1>1 DEF Stat, dmem_error, mem_read, mem_write, set_cc, instr_valid, ICodes, new_pc
<1> QED
  BY <1>0, <1>2, SameOperators
  DEF SimStep, IsIsa!Halt, IsIsa!Stop

LEMMA IrmovqStep ==
  ASSUME TypeOK, SimStep, IsIsa!At("IIRMOVQ")
  PROVE  IsIsa!Irmovq
<1>0. HasInstruction(pc) /\ prog[pc].icode = "IIRMOVQ" /\ status = "AOK"
  BY SameOperators
<1>1. /\ icode = "IIRMOVQ" /\ ifun = prog[pc].ifun
      /\ ~imem_error /\ valP = pc + 1
      /\ rA = prog[pc].rA /\ rB = prog[pc].rB
      /\ rA \in REGS \union {RNONE} /\ rB \in REGS \union {RNONE}
      /\ rB \in REGS
      /\ valC = prog[pc].valC /\ valC \in Word
  BY <1>0, Fetched DEF rA, rB, valC, need_regids, need_valC, Assembled, Instruction
<1>2. valE = valC
  BY <1>1, AddZero DEF valE, alufun, aluA, aluB
<1>3. dstE = rB /\ dstM = RNONE
  BY <1>1 DEF dstE, dstM
<1>4. Stat = "AOK" /\ ~set_cc /\ ~mem_write /\ new_pc = pc + 1
  BY <1>1 DEF Stat, dmem_error, mem_read, mem_write, set_cc, instr_valid, ICodes, new_pc
<1> QED
  BY <1>0, <1>1, <1>2, <1>3, <1>4, SameOperators
  DEF SimStep, UpdateState, WithReg, IsIsa!Irmovq, IsIsa!GoOn, IsIsa!ftpc

LEMMA RmmovqStep ==
  ASSUME TypeOK, SimStep, IsIsa!At("IRMMOVQ")
  PROVE  IsIsa!Rmmovq
<1>0. HasInstruction(pc) /\ prog[pc].icode = "IRMMOVQ" /\ status = "AOK"
  BY SameOperators
<1>1. /\ icode = "IRMMOVQ" /\ ifun = prog[pc].ifun
      /\ ~imem_error /\ valP = pc + 1
      /\ rA = prog[pc].rA /\ rB = prog[pc].rB
      /\ rA \in REGS \union {RNONE} /\ rB \in REGS \union {RNONE}
      /\ rA \in REGS
      /\ valC = prog[pc].valC /\ valC \in Word
  BY <1>0, Fetched DEF rA, rB, valC, need_regids, need_valC, Assembled, Instruction
<1>2. valB = RegVal(reg, rB) /\ valA = RegVal(reg, rA)
  BY <1>1 DEF valB, srcB, valA, srcA
<1>3. valE = IsIsa!Address /\ mem_addr = valE
  BY <1>1, <1>2, Adds, SameOperators DEF valE, alufun, aluA, aluB, mem_addr, IsIsa!Address
<1>4. dstE = RNONE /\ dstM = RNONE
  BY <1>1 DEF dstE, dstM
<1>5. /\ Stat = IF InMemory(IsIsa!Address) THEN "AOK" ELSE "ADR"
      /\ InMemory(IsIsa!Address) => mem_data = RegVal(reg, rA)
  BY <1>1, <1>2, <1>3 DEF Stat, dmem_error, mem_read, mem_write, instr_valid, ICodes, valM, mem_data
<1>6. ~set_cc /\ mem_write /\ new_pc = pc + 1
  BY <1>1 DEF set_cc, mem_write, new_pc
<1> QED
  BY <1>0, <1>1, <1>3, <1>4, <1>5, <1>6, SameOperators
  DEF SimStep, UpdateState, WithReg, IsIsa!Rmmovq, IsIsa!Stop, IsIsa!GoOn, IsIsa!ftpc

LEMMA MrmovqStep ==
  ASSUME TypeOK, SimStep, IsIsa!At("IMRMOVQ")
  PROVE  IsIsa!Mrmovq
<1>0. HasInstruction(pc) /\ prog[pc].icode = "IMRMOVQ" /\ status = "AOK"
  BY SameOperators
<1>1. /\ icode = "IMRMOVQ" /\ ifun = prog[pc].ifun
      /\ ~imem_error /\ valP = pc + 1
      /\ rA = prog[pc].rA /\ rB = prog[pc].rB
      /\ rA \in REGS \union {RNONE} /\ rB \in REGS \union {RNONE}
      /\ rA \in REGS
      /\ valC = prog[pc].valC /\ valC \in Word
  BY <1>0, Fetched DEF rA, rB, valC, need_regids, need_valC, Assembled, Instruction
<1>2. valB = RegVal(reg, rB)
  BY <1>1 DEF valB, srcB
<1>3. valE = IsIsa!Address /\ mem_addr = valE
  BY <1>1, <1>2, Adds, SameOperators DEF valE, alufun, aluA, aluB, mem_addr, IsIsa!Address
<1>4. dstE = RNONE /\ dstM = rA
  BY <1>1 DEF dstE, dstM
<1>5. /\ Stat = IF InMemory(IsIsa!Address) THEN "AOK" ELSE "ADR"
      /\ InMemory(IsIsa!Address) => valM = mem[IsIsa!Address]
  BY <1>1, <1>2, <1>3 DEF Stat, dmem_error, mem_read, mem_write, instr_valid, ICodes, valM, mem_data
<1>6. ~set_cc /\ ~mem_write /\ new_pc = pc + 1
  BY <1>1 DEF set_cc, mem_write, new_pc
<1> QED
  BY <1>0, <1>1, <1>3, <1>4, <1>5, <1>6, SameOperators
  DEF SimStep, UpdateState, WithReg, IsIsa!Mrmovq, IsIsa!Stop, IsIsa!GoOn, IsIsa!ftpc

LEMMA OpqStep ==
  ASSUME TypeOK, SimStep, IsIsa!At("IOPQ")
  PROVE  IsIsa!Opq
<1>0. HasInstruction(pc) /\ prog[pc].icode = "IOPQ" /\ status = "AOK"
  BY SameOperators
<1>1. /\ icode = "IOPQ" /\ ifun = prog[pc].ifun
      /\ ~imem_error /\ valP = pc + 1
      /\ rA = prog[pc].rA /\ rB = prog[pc].rB
      /\ rA \in REGS \union {RNONE} /\ rB \in REGS \union {RNONE}
      /\ rA \in REGS
      /\ rB \in REGS
  BY <1>0, Fetched DEF rA, rB, valC, need_regids, need_valC, Assembled, Instruction
<1>2. valB = RegVal(reg, rB) /\ valA = RegVal(reg, rA)
  BY <1>1 DEF valB, srcB, valA, srcA
<1>3. /\ alufun = prog[pc].ifun /\ aluA = valA /\ aluB = valB
      /\ valE = ComputeAlu(alufun, aluA, aluB)
  BY <1>0, <1>1, Fetched DEF valE, alufun, aluA, aluB, Assembled, F_NONE, A_ADD
<1>4. dstE = rB /\ dstM = RNONE
  BY <1>1 DEF dstE, dstM
<1>5. Stat = "AOK" /\ set_cc /\ ~mem_write /\ new_pc = pc + 1
  BY <1>1 DEF Stat, dmem_error, mem_read, mem_write, set_cc, instr_valid, ICodes, new_pc
<1>6. IsIsa!A_ADD = A_ADD
  BY DEF IsIsa!A_ADD, A_ADD
<1> QED
  BY <1>0, <1>1, <1>2, <1>3, <1>4, <1>5, <1>6, SameOperators
  DEF SimStep, UpdateState, WithReg, IsIsa!Opq, IsIsa!Arithmetic, IsIsa!GoOn, IsIsa!ftpc

LEMMA IaddqStep ==
  ASSUME TypeOK, SimStep, IsIsa!At("IIADDQ")
  PROVE  IsIsa!Iaddq
<1>0. HasInstruction(pc) /\ prog[pc].icode = "IIADDQ" /\ status = "AOK"
  BY SameOperators
<1>1. /\ icode = "IIADDQ" /\ ifun = prog[pc].ifun
      /\ ~imem_error /\ valP = pc + 1
      /\ rA = prog[pc].rA /\ rB = prog[pc].rB
      /\ rA \in REGS \union {RNONE} /\ rB \in REGS \union {RNONE}
      /\ rB \in REGS
      /\ valC = prog[pc].valC /\ valC \in Word
  BY <1>0, Fetched DEF rA, rB, valC, need_regids, need_valC, Assembled, Instruction
<1>2. valB = RegVal(reg, rB)
  BY <1>1 DEF valB, srcB
<1>3. /\ alufun = A_ADD /\ aluA = valC /\ aluB = valB
      /\ valE = ComputeAlu(alufun, aluA, aluB)
  BY <1>0, <1>1, Fetched DEF valE, alufun, aluA, aluB, Assembled, F_NONE, A_ADD
<1>4. dstE = rB /\ dstM = RNONE
  BY <1>1 DEF dstE, dstM
<1>5. Stat = "AOK" /\ set_cc /\ ~mem_write /\ new_pc = pc + 1
  BY <1>1 DEF Stat, dmem_error, mem_read, mem_write, set_cc, instr_valid, ICodes, new_pc
<1>6. IsIsa!A_ADD = A_ADD
  BY DEF IsIsa!A_ADD, A_ADD
<1> QED
  BY <1>0, <1>1, <1>2, <1>3, <1>4, <1>5, <1>6, SameOperators
  DEF SimStep, UpdateState, WithReg, IsIsa!Iaddq, IsIsa!Arithmetic, IsIsa!GoOn, IsIsa!ftpc

LEMMA JxxStep ==
  ASSUME TypeOK, SimStep, IsIsa!At("IJXX")
  PROVE  IsIsa!Jxx
<1>0. HasInstruction(pc) /\ prog[pc].icode = "IJXX" /\ status = "AOK"
  BY SameOperators
<1>1. /\ icode = "IJXX" /\ ifun = prog[pc].ifun
      /\ ~imem_error /\ valP = pc + 1
      /\ valC = prog[pc].valC /\ valC \in Word
  BY <1>0, Fetched DEF rA, rB, valC, need_regids, need_valC, Assembled, Instruction
<1>2. dstE = RNONE /\ dstM = RNONE
  BY <1>1 DEF dstE, dstM
<1>3. /\ Stat = "AOK" /\ ~set_cc /\ ~mem_write
      /\ new_pc = IF CondHolds(cc, ifun) THEN valC ELSE pc + 1
  BY <1>1 DEF Stat, dmem_error, mem_read, mem_write, set_cc, instr_valid, ICodes, new_pc, Cnd
<1> QED
  BY <1>0, <1>1, <1>2, <1>3, SameOperators
  DEF SimStep, UpdateState, WithReg, IsIsa!Jxx, IsIsa!GoOn, IsIsa!ftpc

LEMMA CallStep ==
  ASSUME TypeOK, SimStep, IsIsa!At("ICALL")
  PROVE  IF IsIsa!StackFails THEN IsIsa!Stop("ADR") /\ UNCHANGED reg ELSE IsIsa!Call
<1>0. HasInstruction(pc) /\ prog[pc].icode = "ICALL" /\ status = "AOK"
  BY SameOperators
<1>1. /\ icode = "ICALL" /\ ifun = prog[pc].ifun
      /\ ~imem_error /\ valP = pc + 1
      /\ valC = prog[pc].valC /\ valC \in Word
  BY <1>0, Fetched DEF rA, rB, valC, need_regids, need_valC, Assembled, Instruction
<1>2. valB = reg[RSP]
  BY <1>1, RegisterAssumption DEF valB, srcB, RegVal
<1>3. valE = Wrap(reg[RSP] - 1) /\ mem_addr = valE
  <2>1. reg[RSP] \in Int
    BY RegisterAssumption, HalfAssumption DEF TypeOK, Registers, Word
  <2>2. valE = ComputeAlu(A_ADD, -1, reg[RSP]) /\ mem_addr = valE
    BY <1>1, <1>2 DEF valE, alufun, aluA, aluB, mem_addr
  <2>3. -1 + reg[RSP] = reg[RSP] - 1
    BY <2>1
  <2> QED BY <2>2, <2>3, Adds
<1>4. dstE = RSP /\ dstM = RNONE
  BY <1>1 DEF dstE, dstM
<1>5. /\ Stat = IF InMemory(Wrap(reg[RSP] - 1)) THEN "AOK" ELSE "ADR"
      /\ mem_data = pc + 1
  BY <1>1, <1>2, <1>3 DEF Stat, dmem_error, mem_read, mem_write, instr_valid, ICodes, mem_data
<1>6. ~set_cc /\ mem_write /\ new_pc = valC
  BY <1>1 DEF set_cc, mem_write, new_pc
<1>7. reg[RSP] + (-1) = reg[RSP] - 1
  BY RegisterAssumption, HalfAssumption DEF TypeOK, Registers, Word
<1>8. IsIsa!StackFails <=> ~InMemory(Wrap(reg[RSP] - 1))
  BY <1>0, SameOperators DEF IsIsa!StackFails
<1>9. CASE IsIsa!StackFails
  BY <1>5, <1>8, <1>9 DEF SimStep, IsIsa!Stop
<1>10. CASE ~IsIsa!StackFails
  BY <1>0, <1>8, <1>10, <1>1, <1>3, <1>4, <1>5, <1>6, <1>7, SameOperators, RegisterAssumption
  DEF SimStep, UpdateState, WithReg, IsIsa!Call, IsIsa!PushWord, IsIsa!Moved,
      IsIsa!Stop, IsIsa!GoOn, IsIsa!ftpc
<1> QED BY <1>9, <1>10

LEMMA PushqStep ==
  ASSUME TypeOK, SimStep, IsIsa!At("IPUSHQ")
  PROVE  IF IsIsa!StackFails THEN IsIsa!Stop("ADR") /\ UNCHANGED reg ELSE IsIsa!Pushq
<1>0. HasInstruction(pc) /\ prog[pc].icode = "IPUSHQ" /\ status = "AOK"
  BY SameOperators
<1>1. /\ icode = "IPUSHQ" /\ ifun = prog[pc].ifun
      /\ ~imem_error /\ valP = pc + 1
      /\ rA = prog[pc].rA /\ rB = prog[pc].rB
      /\ rA \in REGS \union {RNONE} /\ rB \in REGS \union {RNONE}
      /\ rA \in REGS
  BY <1>0, Fetched DEF rA, rB, valC, need_regids, need_valC, Assembled, Instruction
<1>2. valB = reg[RSP] /\ valA = RegVal(reg, rA)
  BY <1>1, RegisterAssumption DEF valB, srcB, RegVal, valA, srcA
<1>3. valE = Wrap(reg[RSP] - 1) /\ mem_addr = valE
  <2>1. reg[RSP] \in Int
    BY RegisterAssumption, HalfAssumption DEF TypeOK, Registers, Word
  <2>2. valE = ComputeAlu(A_ADD, -1, reg[RSP]) /\ mem_addr = valE
    BY <1>1, <1>2 DEF valE, alufun, aluA, aluB, mem_addr
  <2>3. -1 + reg[RSP] = reg[RSP] - 1
    BY <2>1
  <2> QED BY <2>2, <2>3, Adds
<1>4. dstE = RSP /\ dstM = RNONE
  BY <1>1 DEF dstE, dstM
<1>5. /\ Stat = IF InMemory(Wrap(reg[RSP] - 1)) THEN "AOK" ELSE "ADR"
      /\ mem_data = RegVal(reg, rA)
  BY <1>1, <1>2, <1>3 DEF Stat, dmem_error, mem_read, mem_write, instr_valid, ICodes, mem_data
<1>6. ~set_cc /\ mem_write /\ new_pc = pc + 1
  BY <1>1 DEF set_cc, mem_write, new_pc
<1>7. reg[RSP] + (-1) = reg[RSP] - 1
  BY RegisterAssumption, HalfAssumption DEF TypeOK, Registers, Word
<1>8. IsIsa!StackFails <=> ~InMemory(Wrap(reg[RSP] - 1))
  BY <1>0, SameOperators DEF IsIsa!StackFails
<1>9. CASE IsIsa!StackFails
  BY <1>5, <1>8, <1>9 DEF SimStep, IsIsa!Stop
<1>10. CASE ~IsIsa!StackFails
  BY <1>0, <1>8, <1>10, <1>1, <1>3, <1>4, <1>5, <1>6, <1>7, SameOperators, RegisterAssumption
  DEF SimStep, UpdateState, WithReg, IsIsa!Pushq, IsIsa!PushWord, IsIsa!Moved,
      IsIsa!Stop, IsIsa!GoOn, IsIsa!ftpc
<1> QED BY <1>9, <1>10

LEMMA RetStep ==
  ASSUME TypeOK, SimStep, IsIsa!At("IRET")
  PROVE  IsIsa!Ret
<1>0. HasInstruction(pc) /\ prog[pc].icode = "IRET" /\ status = "AOK"
  BY SameOperators
<1>1. /\ icode = "IRET" /\ ifun = prog[pc].ifun
      /\ ~imem_error /\ valP = pc + 1
  BY <1>0, Fetched DEF rA, rB, valC, need_regids, need_valC, Assembled, Instruction
<1>2. valB = reg[RSP] /\ valA = reg[RSP]
  BY <1>1, RegisterAssumption DEF valB, srcB, valA, srcA, RegVal
<1>3. valE = Wrap(reg[RSP] + 1) /\ mem_addr = reg[RSP]
  <2>1. reg[RSP] \in Int
    BY RegisterAssumption, HalfAssumption DEF TypeOK, Registers, Word
  <2>2. valE = ComputeAlu(A_ADD, 1, reg[RSP]) /\ mem_addr = reg[RSP]
    BY <1>1, <1>2 DEF valE, alufun, aluA, aluB, mem_addr
  <2>3. 1 + reg[RSP] = reg[RSP] + 1
    BY <2>1
  <2> QED BY <2>2, <2>3, Adds
<1>4. dstE = RSP /\ dstM = RNONE
  BY <1>1 DEF dstE, dstM
<1>5. /\ Stat = IF InMemory(reg[RSP]) THEN "AOK" ELSE "ADR"
      /\ InMemory(reg[RSP]) => valM = mem[reg[RSP]]
  BY <1>1, <1>2, <1>3 DEF Stat, dmem_error, mem_read, mem_write, instr_valid, ICodes, valM
<1>6. ~set_cc /\ ~mem_write /\ new_pc = valM
  BY <1>1 DEF set_cc, mem_write, new_pc
<1> QED
  BY <1>0, <1>1, <1>3, <1>4, <1>5, <1>6, SameOperators, RegisterAssumption
  DEF SimStep, UpdateState, WithReg, IsIsa!Ret, IsIsa!Moved, IsIsa!Stop, IsIsa!GoOn, IsIsa!ftpc

LEMMA PopqStep ==
  ASSUME TypeOK, SimStep, IsIsa!At("IPOPQ")
  PROVE  IF IsIsa!StackFails THEN IsIsa!Stop("ADR") /\ UNCHANGED reg ELSE IsIsa!Popq
<1>0. HasInstruction(pc) /\ prog[pc].icode = "IPOPQ" /\ status = "AOK"
  BY SameOperators
<1>1. /\ icode = "IPOPQ" /\ ifun = prog[pc].ifun
      /\ ~imem_error /\ valP = pc + 1
      /\ rA = prog[pc].rA /\ rB = prog[pc].rB
      /\ rA \in REGS \union {RNONE} /\ rB \in REGS \union {RNONE}
      /\ rA \in REGS
  BY <1>0, Fetched DEF rA, rB, valC, need_regids, need_valC, Assembled, Instruction
<1>2. valB = reg[RSP] /\ valA = reg[RSP]
  BY <1>1, RegisterAssumption DEF valB, srcB, valA, srcA, RegVal
<1>3. valE = Wrap(reg[RSP] + 1) /\ mem_addr = reg[RSP]
  <2>1. reg[RSP] \in Int
    BY RegisterAssumption, HalfAssumption DEF TypeOK, Registers, Word
  <2>2. valE = ComputeAlu(A_ADD, 1, reg[RSP]) /\ mem_addr = reg[RSP]
    BY <1>1, <1>2 DEF valE, alufun, aluA, aluB, mem_addr
  <2>3. 1 + reg[RSP] = reg[RSP] + 1
    BY <2>1
  <2> QED BY <2>2, <2>3, Adds
<1>4. dstE = RSP /\ dstM = rA
  BY <1>1 DEF dstE, dstM
<1>5. /\ Stat = IF InMemory(reg[RSP]) THEN "AOK" ELSE "ADR"
      /\ InMemory(reg[RSP]) => valM = mem[reg[RSP]]
  BY <1>1, <1>2, <1>3 DEF Stat, dmem_error, mem_read, mem_write, instr_valid, ICodes, valM
<1>6. ~set_cc /\ ~mem_write /\ new_pc = pc + 1
  BY <1>1 DEF set_cc, mem_write, new_pc
<1>7. IsIsa!StackFails <=> ~InMemory(reg[RSP])
  BY <1>0, SameOperators DEF IsIsa!StackFails
<1>8. CASE IsIsa!StackFails
  BY <1>5, <1>7, <1>8 DEF SimStep, IsIsa!Stop
<1>9. CASE ~IsIsa!StackFails
  BY <1>0, <1>7, <1>9, <1>1, <1>3, <1>4, <1>5, <1>6, SameOperators, RegisterAssumption
  DEF SimStep, UpdateState, WithReg, IsIsa!Popq, IsIsa!Moved, IsIsa!Stop, IsIsa!GoOn, IsIsa!ftpc
<1> QED BY <1>8, <1>9

\* An instruction that cannot be fetched, or is none, stops the processor.
LEMMA NoStep ==
  ASSUME TypeOK, SimStep, ~HasInstruction(pc) \/ prog[pc].icode \notin ICodes
  PROVE  IsIsa!NoInstruction \/ IsIsa!BadInstruction
<1>1. CASE ~HasInstruction(pc)
  <2>1. Stat = "ADR"
    BY <1>1 DEF Stat, imem_error, icode, instr_valid, ICodes
  <2> QED BY <1>1, <2>1, SameOperators DEF SimStep, IsIsa!NoInstruction, IsIsa!Stop
<1>2. CASE HasInstruction(pc) /\ prog[pc].icode \notin ICodes
  <2>1. icode = "bad" /\ icode \notin ICodes /\ ~imem_error
    BY <1>2, Fetched DEF Instruction
  <2>2. Stat = "INS"
    BY <2>1 DEF Stat, dmem_error, mem_read, mem_write, instr_valid
  <2>3. prog[pc].icode = "bad" /\ status = "AOK"
    BY <1>2, <2>1, Fetched DEF SimStep
  <2> QED BY <1>2, <2>2, <2>3, SameOperators DEF SimStep, IsIsa!BadInstruction, IsIsa!Stop
<1> QED BY <1>1, <1>2

\* At an instruction, the instruction set has one action.
LEMMA OneAction ==
  /\ IsIsa!At("bad") => (IsIsa!Next <=> IsIsa!BadInstruction)
  /\ IsIsa!At("IHALT") => (IsIsa!Next <=> IsIsa!Halt)
  /\ IsIsa!At("INOP") => (IsIsa!Next <=> IsIsa!Nop)
  /\ IsIsa!At("IRRMOVQ") => (IsIsa!Next <=> IsIsa!Rrmovq)
  /\ IsIsa!At("IIRMOVQ") => (IsIsa!Next <=> IsIsa!Irmovq)
  /\ IsIsa!At("IRMMOVQ") => (IsIsa!Next <=> IsIsa!Rmmovq)
  /\ IsIsa!At("IMRMOVQ") => (IsIsa!Next <=> IsIsa!Mrmovq)
  /\ IsIsa!At("IOPQ") => (IsIsa!Next <=> IsIsa!Opq)
  /\ IsIsa!At("IIADDQ") => (IsIsa!Next <=> IsIsa!Iaddq)
  /\ IsIsa!At("IJXX") => (IsIsa!Next <=> IsIsa!Jxx)
  /\ IsIsa!At("ICALL") => (IsIsa!Next <=> IsIsa!Call)
  /\ IsIsa!At("IRET") => (IsIsa!Next <=> IsIsa!Ret)
  /\ IsIsa!At("IPUSHQ") => (IsIsa!Next <=> IsIsa!Pushq)
  /\ IsIsa!At("IPOPQ") => (IsIsa!Next <=> IsIsa!Popq)
<1> USE DEF IsIsa!At
<1>1. \A a, b : IsIsa!At(a) /\ IsIsa!At(b) => a = b
  OBVIOUS
<1>2. \A a : IsIsa!At(a) => ~IsIsa!NoInstruction
  BY DEF IsIsa!NoInstruction
<1> HIDE DEF IsIsa!At
<1>3. /\ IsIsa!BadInstruction => IsIsa!At("bad")
      /\ IsIsa!Halt => IsIsa!At("IHALT")
      /\ IsIsa!Nop => IsIsa!At("INOP")
      /\ IsIsa!Rrmovq => IsIsa!At("IRRMOVQ")
      /\ IsIsa!Irmovq => IsIsa!At("IIRMOVQ")
      /\ IsIsa!Rmmovq => IsIsa!At("IRMMOVQ")
      /\ IsIsa!Mrmovq => IsIsa!At("IMRMOVQ")
      /\ IsIsa!Opq => IsIsa!At("IOPQ")
      /\ IsIsa!Iaddq => IsIsa!At("IIADDQ")
      /\ IsIsa!Jxx => IsIsa!At("IJXX")
      /\ IsIsa!Call => IsIsa!At("ICALL")
      /\ IsIsa!Ret => IsIsa!At("IRET")
      /\ IsIsa!Pushq => IsIsa!At("IPUSHQ")
      /\ IsIsa!Popq => IsIsa!At("IPOPQ")
  BY DEF IsIsa!BadInstruction, IsIsa!Halt, IsIsa!Nop, IsIsa!Rrmovq, IsIsa!Irmovq, IsIsa!Rmmovq,
     IsIsa!Mrmovq, IsIsa!Opq, IsIsa!Iaddq, IsIsa!Jxx, IsIsa!Call, IsIsa!Ret, IsIsa!Pushq,
     IsIsa!Popq
<1> QED BY <1>1, <1>2, <1>3 DEF IsIsa!Next

\* A stop that leaves every register is not what the instruction set does at a
\* push, call or pop that fails.
LEMMA StopIsNoStep ==
  ASSUME TypeOK, IsIsa!StackFails, IsIsa!Stop("ADR"), UNCHANGED reg
  PROVE  ~IsIsa!Next
<1>1. reg[RSP] \in Word /\ reg \in Registers
  BY RegisterAssumption DEF TypeOK, Registers
<1>2. \A n \in {1, -1} : IsIsa!Moved(n) # reg
  <2>1. \A n \in {1, -1} : Wrap(reg[RSP] + n) # reg[RSP]
    BY <1>1, HalfAssumption DEF Wrap, Word
  <2> QED BY <1>1, <2>1, SameOperators, RegisterAssumption DEF IsIsa!Moved, WithReg, Registers
<1>3. ASSUME IsIsa!At("IPUSHQ") \/ IsIsa!At("ICALL"), ~InMemory(Wrap(reg[RSP] - 1))
      PROVE  ~IsIsa!Next
  <2>1. ~IsIsa!Call /\ ~IsIsa!Pushq
    BY <1>2, <1>3, SameOperators DEF IsIsa!Call, IsIsa!Pushq, IsIsa!PushWord
  <2> QED BY <1>3, <2>1, OneAction
<1>4. ASSUME IsIsa!At("IPOPQ"), ~InMemory(reg[RSP])
      PROVE  ~IsIsa!Next
  <2>1. ~IsIsa!Popq
    BY <1>2, <1>4, SameOperators DEF IsIsa!Popq
  <2> QED BY <1>4, <2>1, OneAction
<1> QED BY <1>3, <1>4, SameOperators DEF IsIsa!StackFails

\* Every cycle is an instruction of the instruction set, but for %rsp where a
\* push, call or pop fails.
LEMMA StepIsStep ==
  ASSUME TypeOK, SimStep
  PROVE  IsIsa!ButForRsp
<1>1. CASE ~HasInstruction(pc) \/ prog[pc].icode \notin ICodes
  <2>1. IsIsa!Next
    BY <1>1, NoStep DEF IsIsa!Next
  <2>2. ~IsIsa!StackFails
    BY <1>1, SameOperators DEF IsIsa!StackFails, ICodes
  <2> QED BY <2>1, <2>2 DEF IsIsa!ButForRsp
<1>2. CASE HasInstruction(pc) /\ prog[pc].icode \in ICodes
  <2>1. IsIsa!At(prog[pc].icode)
    BY <1>2, SameOperators DEF SimStep
  <2>2. CASE prog[pc].icode \in {"ICALL", "IPUSHQ", "IPOPQ"}
    <3>1. IF IsIsa!StackFails THEN IsIsa!Stop("ADR") /\ UNCHANGED reg ELSE IsIsa!Next
      BY <2>1, <2>2, CallStep, PushqStep, PopqStep DEF IsIsa!Next
    <3> QED BY <3>1, StopIsNoStep DEF IsIsa!ButForRsp
  <2>3. CASE prog[pc].icode \notin {"ICALL", "IPUSHQ", "IPOPQ"}
    <3>1. IsIsa!Next
      BY <1>2, <2>1, <2>3, RrmovqStep, NopStep, HaltStep, IrmovqStep, RmmovqStep, MrmovqStep,
         OpqStep, IaddqStep, JxxStep, RetStep
      DEF ICodes, IsIsa!Next
    <3>2. ~IsIsa!StackFails
      BY <2>3, SameOperators DEF IsIsa!StackFails
    <3> QED BY <3>1, <3>2 DEF IsIsa!ButForRsp
  <2> QED BY <2>2, <2>3
<1> QED BY <1>1, <1>2

-----------------------------------------------------------------------------

\* What the signals can be.
LEMMA SignalTypes ==
  ASSUME TypeOK
  PROVE  /\ valC \in Word /\ valP \in Word /\ valA \in Word /\ valB \in Word
         /\ valE \in Word /\ valM \in Word
         /\ dstE \in REGS \union {RNONE} /\ dstM \in REGS \union {RNONE}
         /\ mem_write /\ ~dmem_error => mem_addr \in 0 .. MEM_LEN - 1 /\ mem_data \in Word
         /\ Stat \in Status
<1>1. rA \in REGS \union {RNONE} /\ rB \in REGS \union {RNONE} /\ valC \in Word
  <2>1. CASE imem_error
    BY <2>1, AddressesAreWords DEF rA, rB, valC, need_regids, need_valC, icode
  <2>2. CASE ~imem_error
    BY <2>2, Fetched, AddressesAreWords DEF rA, rB, valC, imem_error, Instruction
  <2> QED BY <2>1, <2>2
<1>2. valP \in Word
  BY WrapType, HalfAssumption DEF valP, TypeOK, Word
<1>3. valA \in Word /\ valB \in Word
  BY <1>1, RegValType, RegisterAssumption DEF valA, valB, srcA, srcB, TypeOK
<1>4. valE \in Word
  <2>1. aluA \in Word /\ aluB \in Word
    BY <1>1, <1>3, AddressesAreWords DEF aluA, aluB
  <2> QED BY <2>1, AluType DEF valE
<1>5. mem_addr \in Word /\ mem_data \in Word
  BY <1>2, <1>3, <1>4, AddressesAreWords DEF mem_addr, mem_data
<1>6. ~dmem_error /\ (mem_read \/ mem_write) => mem_addr \in 0 .. MEM_LEN - 1
  BY <1>5, AddressesAreWords DEF dmem_error
<1>7. valM \in Word
  BY <1>6, AddressesAreWords DEF valM, TypeOK, Memory
<1>8. dstE \in REGS \union {RNONE} /\ dstM \in REGS \union {RNONE}
  BY <1>1, RegisterAssumption DEF dstE, dstM
<1> QED BY <1>1, <1>2, <1>3, <1>4, <1>5, <1>6, <1>7, <1>8 DEF Stat, Status

LEMMA TypeInductive ==
  ASSUME TypeOK, [Next]_vars
  PROVE  TypeOK'
<1>1. CASE UNCHANGED vars
  BY <1>1 DEF TypeOK, vars
<1>2. CASE SimStep /\ Stat = "AOK"
  <2>1. ~dmem_error
    BY <1>2 DEF Stat
  <2>2. new_pc \in Word
    BY SignalTypes DEF new_pc
  <2>3. WithReg(WithReg(reg, dstE, valE), dstM, valM) \in Registers
    BY SignalTypes, WithRegType DEF TypeOK
  <2>4. mem' \in Memory
    BY <1>2, <2>1, SignalTypes DEF SimStep, UpdateState, TypeOK, Memory
  <2>5. cc' \in Flags
    BY <1>2, CcType DEF SimStep, UpdateState, TypeOK
  <2> QED BY <1>2, <2>2, <2>3, <2>4, <2>5, SignalTypes DEF SimStep, UpdateState, TypeOK
<1>3. CASE SimStep /\ Stat # "AOK"
  BY <1>3, SignalTypes DEF SimStep, TypeOK
<1> QED BY <1>1, <1>2, <1>3 DEF Next

\* The sequential processor keeps pc, registers, memory and flags within their
\* types, for every word width, memory and program.
THEOREM SeqTyped == Spec => []TypeOK
<1>1. Init => TypeOK
  BY AddressesAreWords DEF Init, Reset, TypeOK, Registers, Memory, Flags, DEFAULT_CC, Status
<1> QED BY <1>1, TypeInductive, PTL DEF Spec

\* The sequential processor executes the instruction set for every word width,
\* every program and every size of memory: each cycle of ssim does what
\* step_state() of isa.c does.  Exempted are the pushes, calls and pops that
\* fail.  There, and only there, the step is not one of step_state(): ssim stops
\* with the same status and everything as it was, where step_state() has moved
\* %rsp.
THEOREM SeqIsIsa == Spec => IsIsaButForRsp
<1>1. Init => IsIsa!Init
  BY DEF Init, Reset, IsIsa!Init, IsIsa!Reset, DEFAULT_CC, IsIsa!DEFAULT_CC
<1>2. ASSUME TypeOK, [Next]_vars
      PROVE  [IsIsa!ButForRsp]_(IsIsa!vars)
  BY <1>2, StepIsStep DEF Next, vars, IsIsa!vars
<1> QED BY <1>1, <1>2, SeqTyped, PTL DEF Spec, IsIsaButForRsp, IsIsa!SpecButForRsp

-----------------------------------------------------------------------------
(* The simulator of lab 5 (module Y64sim) leaves the instruction set where   *)
(* Deviates says so, and nowhere else.                                       *)

CONSTANT INT_HALF

Yat == INSTANCE Y64sim WITH stat <- status

\* The simulator works with the operators of Y86.
LEMMA Y64Operators ==
  /\ \A a : Yat!HasInstruction(a) <=> HasInstruction(a)
  /\ \A a : Yat!InMemory(a) <=> InMemory(a)
  /\ \A n : Yat!Wrap(n) = Wrap(n)
  /\ \A r, id : Yat!RegVal(r, id) = RegVal(r, id)
  /\ \A r, id, val : Yat!WithReg(r, id, val) = WithReg(r, id, val)
  /\ \A c, cond : Yat!CondHolds(c, cond) <=> CondHolds(c, cond)
  /\ \A op, a, b : Yat!ComputeAlu(op, a, b) = ComputeAlu(op, a, b)
  /\ \A z, s, o : Yat!PackCc(z, s, o) = PackCc(z, s, o)
  /\ \A code : Yat!At(code) <=> IsIsa!At(code)
<1>1. /\ \A a : Yat!HasInstruction(a) <=> HasInstruction(a)
      /\ \A a : Yat!InMemory(a) <=> InMemory(a)
  BY DEF Yat!HasInstruction, HasInstruction, Yat!InMemory, InMemory
<1>2. \A n : Yat!Wrap(n) = Wrap(n)
  BY DEF Yat!Wrap, Wrap
<1>3. /\ \A r, id : Yat!RegVal(r, id) = RegVal(r, id)
      /\ \A r, id, val : Yat!WithReg(r, id, val) = WithReg(r, id, val)
  BY DEF Yat!RegVal, RegVal, Yat!WithReg, WithReg
<1>4. \A c, cond : Yat!CondHolds(c, cond) <=> CondHolds(c, cond)
  BY DEF Yat!CondHolds, CondHolds, Yat!Less, Less, Yat!C_YES, Yat!C_LE, Yat!C_L,
         Yat!C_E, Yat!C_NE, Yat!C_GE, Yat!C_G, C_YES, C_LE, C_L, C_E, C_NE, C_GE, C_G
<1>5. \A op, a, b : Yat!ComputeAlu(op, a, b) = ComputeAlu(op, a, b)
  BY <1>2 DEF Yat!ComputeAlu, ComputeAlu, Yat!A_ADD, Yat!A_SUB, Yat!A_AND,
              Yat!A_XOR, A_ADD, A_SUB, A_AND, A_XOR
<1>6. \A z, s, o : Yat!PackCc(z, s, o) = PackCc(z, s, o)
  BY DEF Yat!PackCc, PackCc
<1> QED BY <1>1, <1>2, <1>3, <1>4, <1>5, <1>6, SameOperators DEF Yat!At

\* There is one instruction set.
LEMMA OneIsa == Yat!IsIsa!Next <=> IsIsa!Next
<1>1. /\ \A a : Yat!IsIsa!HasInstruction(a) <=> IsIsa!HasInstruction(a)
      /\ \A a : Yat!IsIsa!InMemory(a) <=> IsIsa!InMemory(a)
      /\ \A n : Yat!IsIsa!Wrap(n) = IsIsa!Wrap(n)
      /\ \A r, id : Yat!IsIsa!RegVal(r, id) = IsIsa!RegVal(r, id)
      /\ \A r, id, val : Yat!IsIsa!WithReg(r, id, val) = IsIsa!WithReg(r, id, val)
      /\ \A code : Yat!IsIsa!At(code) <=> IsIsa!At(code)
  BY DEF Yat!IsIsa!HasInstruction, IsIsa!HasInstruction, Yat!IsIsa!InMemory, IsIsa!InMemory,
         Yat!IsIsa!Wrap, IsIsa!Wrap, Yat!IsIsa!RegVal, IsIsa!RegVal, Yat!IsIsa!WithReg,
         IsIsa!WithReg, Yat!IsIsa!At, IsIsa!At
<1>2. \A c, cond : Yat!IsIsa!CondHolds(c, cond) <=> IsIsa!CondHolds(c, cond)
  BY DEF Yat!IsIsa!CondHolds, IsIsa!CondHolds, Yat!IsIsa!Less, IsIsa!Less, Yat!IsIsa!C_YES,
         Yat!IsIsa!C_LE, Yat!IsIsa!C_L, Yat!IsIsa!C_E, Yat!IsIsa!C_NE, Yat!IsIsa!C_GE,
         Yat!IsIsa!C_G, IsIsa!C_YES, IsIsa!C_LE, IsIsa!C_L, IsIsa!C_E, IsIsa!C_NE,
         IsIsa!C_GE, IsIsa!C_G
<1>3. \A op, a, b : Yat!IsIsa!ComputeAlu(op, a, b) = IsIsa!ComputeAlu(op, a, b)
  BY <1>1 DEF Yat!IsIsa!ComputeAlu, IsIsa!ComputeAlu, Yat!IsIsa!A_ADD, Yat!IsIsa!A_SUB,
     Yat!IsIsa!A_AND, Yat!IsIsa!A_XOR, IsIsa!A_ADD, IsIsa!A_SUB, IsIsa!A_AND, IsIsa!A_XOR
<1>4. \A op, a, b : Yat!IsIsa!ComputeCc(op, a, b) = IsIsa!ComputeCc(op, a, b)
  BY <1>3 DEF Yat!IsIsa!ComputeCc, IsIsa!ComputeCc, Yat!IsIsa!PackCc, IsIsa!PackCc,
     Yat!IsIsa!Overflow, IsIsa!Overflow, Yat!IsIsa!A_ADD, Yat!IsIsa!A_SUB, IsIsa!A_ADD,
     IsIsa!A_SUB
<1>5. \A op, a, b : Yat!IsIsa!Arithmetic(op, a, b) <=> IsIsa!Arithmetic(op, a, b)
  BY <1>1, <1>3, <1>4 DEF Yat!IsIsa!Arithmetic, IsIsa!Arithmetic, Yat!IsIsa!GoOn, IsIsa!GoOn,
     Yat!IsIsa!ftpc, IsIsa!ftpc
<1>6. \A val, next : Yat!IsIsa!PushWord(val, next) <=> IsIsa!PushWord(val, next)
  BY <1>1 DEF Yat!IsIsa!PushWord, IsIsa!PushWord, Yat!IsIsa!Moved, IsIsa!Moved, Yat!IsIsa!GoOn,
     IsIsa!GoOn, Yat!IsIsa!Stop, IsIsa!Stop
<1>7. /\ Yat!IsIsa!NoInstruction <=> IsIsa!NoInstruction
      /\ Yat!IsIsa!BadInstruction <=> IsIsa!BadInstruction
      /\ Yat!IsIsa!Halt <=> IsIsa!Halt
      /\ Yat!IsIsa!Nop <=> IsIsa!Nop
      /\ Yat!IsIsa!Irmovq <=> IsIsa!Irmovq
      /\ Yat!IsIsa!Rmmovq <=> IsIsa!Rmmovq
      /\ Yat!IsIsa!Mrmovq <=> IsIsa!Mrmovq
  BY <1>1
  DEF Yat!IsIsa!NoInstruction, IsIsa!NoInstruction, Yat!IsIsa!BadInstruction,
      IsIsa!BadInstruction, Yat!IsIsa!Halt, IsIsa!Halt, Yat!IsIsa!Nop, IsIsa!Nop,
      Yat!IsIsa!Irmovq, IsIsa!Irmovq, Yat!IsIsa!Rmmovq, IsIsa!Rmmovq, Yat!IsIsa!Mrmovq,
      IsIsa!Mrmovq, Yat!IsIsa!Address, IsIsa!Address, Yat!IsIsa!GoOn, IsIsa!GoOn,
      Yat!IsIsa!ftpc, IsIsa!ftpc, Yat!IsIsa!Stop, IsIsa!Stop
<1>8. /\ Yat!IsIsa!Rrmovq <=> IsIsa!Rrmovq
      /\ Yat!IsIsa!Jxx <=> IsIsa!Jxx
  BY <1>1, <1>2 DEF Yat!IsIsa!Rrmovq, IsIsa!Rrmovq, Yat!IsIsa!Jxx, IsIsa!Jxx, Yat!IsIsa!GoOn,
     IsIsa!GoOn, Yat!IsIsa!ftpc, IsIsa!ftpc
<1>9. /\ Yat!IsIsa!Opq <=> IsIsa!Opq
      /\ Yat!IsIsa!Iaddq <=> IsIsa!Iaddq
  BY <1>1, <1>5 DEF Yat!IsIsa!Opq, IsIsa!Opq, Yat!IsIsa!Iaddq, IsIsa!Iaddq, Yat!IsIsa!A_ADD,
     IsIsa!A_ADD
<1>10. /\ Yat!IsIsa!Call <=> IsIsa!Call
       /\ Yat!IsIsa!Pushq <=> IsIsa!Pushq
  BY <1>1, <1>6 DEF Yat!IsIsa!Call, IsIsa!Call, Yat!IsIsa!Pushq, IsIsa!Pushq, Yat!IsIsa!ftpc,
     IsIsa!ftpc
<1>11. /\ Yat!IsIsa!Ret <=> IsIsa!Ret
       /\ Yat!IsIsa!Popq <=> IsIsa!Popq
  BY <1>1 DEF Yat!IsIsa!Ret, IsIsa!Ret, Yat!IsIsa!Popq, IsIsa!Popq, Yat!IsIsa!Moved,
     IsIsa!Moved, Yat!IsIsa!GoOn, IsIsa!GoOn, Yat!IsIsa!ftpc, IsIsa!ftpc, Yat!IsIsa!Stop,
     IsIsa!Stop
<1> QED BY <1>7, <1>8, <1>9, <1>10, <1>11 DEF Yat!IsIsa!Next, IsIsa!Next

\* Which of its clauses Deviates comes down to at an instruction.
LEMMA DeviatesAt ==
  /\ \A code \in {"bad", "IHALT", "INOP", "IRRMOVQ", "IIRMOVQ", "IJXX"} :
       IsIsa!At(code) => ~Yat!Deviates
  /\ IsIsa!At("IIADDQ") => Yat!Deviates
  /\ IsIsa!At("IRMMOVQ") => (Yat!Deviates <=> ~InMemory(Yat!Address))
  /\ IsIsa!At("IMRMOVQ") => (Yat!Deviates <=> /\ Yat!Address < 0 => pc # 0
                                              /\ Yat!Address > 0 => Yat!Address >= MEM_LEN)
  /\ IsIsa!At("IOPQ") => (Yat!Deviates <=>
       Yat!FlagsDiffer(prog[pc].ifun, RegVal(reg, prog[pc].rA), RegVal(reg, prog[pc].rB)))
  /\ IsIsa!At("ICALL") => (Yat!Deviates <=> \/ InMemory(Yat!StackTop) <=> prog[pc].valC = 0
                                            \/ ~InMemory(Yat!StackTop) /\ pc # 0)
  /\ IsIsa!At("IRET") => (Yat!Deviates <=>
       (InMemory(reg[RSP]) => mem[reg[RSP]] = 0 \/ ~HasInstruction(mem[reg[RSP]])))
  /\ IsIsa!At("IPUSHQ") => (Yat!Deviates <=> Yat!StackTop = 0)
  /\ IsIsa!At("IPOPQ") => (Yat!Deviates <=> ~InMemory(reg[RSP]))
<1>1. \A a, b : IsIsa!At(a) /\ IsIsa!At(b) => a = b
  BY DEF IsIsa!At
<1>2. \A a : IsIsa!At(a) => status = "AOK" /\ HasInstruction(pc)
  BY SameOperators
<1> QED BY <1>1, <1>2, Y64Operators DEF Yat!Deviates

\* The registers and the memory, as the simulator sees them.
LEMMA Y64Moved == \A n : Yat!Moved(n) = IsIsa!Moved(n)
BY Y64Operators, SameOperators DEF Yat!Moved, IsIsa!Moved

\* Going one word up or down and back.
LEMMA UpAndDown ==
  \A w \in Word : /\ Wrap(w + 1) # w
                  /\ Wrap(w - 1) \in Word /\ Wrap(w + 1) \in Word
                  /\ Wrap(Wrap(w - 1) + 1) = w
BY HalfAssumption DEF Wrap, Word

\* What an instruction holds, and where the stack ends.
LEMMA InstructionTypes ==
  ASSUME TypeOK, NEW code, IsIsa!At(code)
  PROVE  /\ prog[pc] \in Instruction /\ Assembled(prog[pc])
         /\ prog[pc].icode = code /\ status = "AOK"
         /\ pc \in Word /\ pc + 1 \in Word /\ pc + 1 # pc
         /\ prog[pc].valC \in Word
         /\ prog[pc].rA \in REGS \union {RNONE} /\ prog[pc].rB \in REGS \union {RNONE}
         /\ reg[RSP] \in Word /\ RegVal(reg, RSP) = reg[RSP]
         /\ reg \in Registers /\ mem \in Memory
<1>1. HasInstruction(pc) /\ prog[pc].icode = code /\ status = "AOK"
  BY SameOperators
<1>2. prog[pc] \in Instruction /\ Assembled(prog[pc]) /\ pc + 1 \in Word
  BY <1>1, Fetched
<1>3. pc \in Word /\ pc + 1 # pc
  BY HalfAssumption DEF TypeOK, Word
<1>4. reg[RSP] \in Word /\ RegVal(reg, RSP) = reg[RSP] /\ reg \in Registers /\ mem \in Memory
  BY RegisterAssumption DEF TypeOK, Registers, RegVal
<1> QED BY <1>1, <1>2, <1>3, <1>4 DEF Instruction

\* The two add up an address in different orders.
LEMMA SameAddress ==
  ASSUME TypeOK, NEW code, IsIsa!At(code)
  PROVE  Yat!Address = IsIsa!Address /\ Yat!Address \in Word
<1>1. RegVal(reg, prog[pc].rB) \in Word /\ prog[pc].valC \in Word
  BY InstructionTypes, RegValType
<1>2. /\ RegVal(reg, prog[pc].rB) + prog[pc].valC = prog[pc].valC + RegVal(reg, prog[pc].rB)
      /\ RegVal(reg, prog[pc].rB) + prog[pc].valC \in -2 * HALF .. 2 * HALF
  BY <1>1, HalfAssumption DEF Word
<1> QED BY <1>2, WrapType, SameOperators, Y64Operators DEF Yat!Address, IsIsa!Address

\* Instructions that touch neither flags nor memory are the same in both, and
\* so is what stops both.
LEMMA PlainSteps ==
  ASSUME \/ Yat!NoInstruction \/ Yat!Halt \/ Yat!Nop \/ Yat!Rrmovq \/ Yat!Irmovq \/ Yat!Jmp
         \/ Yat!BadInstruction /\ Yat!At("bad")
  PROVE  Yat!Deviates <=> ~IsIsa!Next
<1> USE DEF Yat!GoOn, IsIsa!GoOn, Yat!next_pc, IsIsa!ftpc, Yat!Fail, IsIsa!Stop
<1>1. CASE Yat!NoInstruction
  <2>1. IsIsa!NoInstruction
    BY <1>1, Y64Operators, SameOperators DEF Yat!NoInstruction, IsIsa!NoInstruction
  <2>2. ~Yat!Deviates
    BY <1>1 DEF Yat!NoInstruction, Yat!Deviates
  <2> QED BY <2>1, <2>2 DEF IsIsa!Next
<1>2. CASE Yat!BadInstruction /\ Yat!At("bad")
  BY <1>2, Y64Operators, DeviatesAt, OneAction DEF Yat!BadInstruction, IsIsa!BadInstruction
<1>3. CASE Yat!Halt
  BY <1>3, Y64Operators, DeviatesAt, OneAction DEF Yat!Halt, IsIsa!Halt
<1>4. CASE Yat!Nop
  BY <1>4, Y64Operators, DeviatesAt, OneAction DEF Yat!Nop, IsIsa!Nop
<1>5. CASE Yat!Rrmovq
  BY <1>5, Y64Operators, SameOperators, DeviatesAt, OneAction DEF Yat!Rrmovq, IsIsa!Rrmovq
<1>6. CASE Yat!Irmovq
  BY <1>6, Y64Operators, SameOperators, DeviatesAt, OneAction DEF Yat!Irmovq, IsIsa!Irmovq
<1>7. CASE Yat!Jmp
  BY <1>7, Y64Operators, SameOperators, DeviatesAt, OneAction DEF Yat!Jmp, IsIsa!Jxx
<1> QED BY <1>1, <1>2, <1>3, <1>4, <1>5, <1>6, <1>7

\* The simulator does not know iaddq.
LEMMA NoIaddq ==
  ASSUME Yat!BadInstruction, Yat!At("IIADDQ")
  PROVE  Yat!Deviates <=> ~IsIsa!Next
<1>1. Yat!Deviates /\ (IsIsa!Next <=> IsIsa!Iaddq) /\ status = "AOK"
  BY Y64Operators, SameOperators, DeviatesAt, OneAction
<1>2. status' = "INS"
  BY DEF Yat!BadInstruction, Yat!Fail
<1>3. ~IsIsa!Iaddq
  BY <1>1, <1>2 DEF IsIsa!Iaddq, IsIsa!Arithmetic, IsIsa!GoOn
<1> QED BY <1>1, <1>3

\* A store outside memory is ignored.
LEMMA StoreSteps ==
  ASSUME TypeOK, Yat!Rmmovq
  PROVE  Yat!Deviates <=> ~IsIsa!Next
<1> DEFINE a == IsIsa!Address
<1>1. IsIsa!At("IRMMOVQ")
  BY Y64Operators DEF Yat!Rmmovq
<1>2. (Yat!Deviates <=> ~InMemory(a)) /\ (IsIsa!Next <=> IsIsa!Rmmovq) /\ Yat!Address = a
  BY <1>1, DeviatesAt, OneAction, SameAddress
<1>3. /\ pc' = pc + 1 /\ prog' = prog /\ status' = status /\ reg' = reg /\ cc' = cc
      /\ mem' = IF InMemory(a) THEN [mem EXCEPT ![a] = RegVal(reg, prog[pc].rA)] ELSE mem
  BY <1>2, Y64Operators DEF Yat!Rmmovq, Yat!GoOn, Yat!next_pc, Yat!Stored
<1>4. status = "AOK"
  BY <1>1, InstructionTypes
<1>5. IsIsa!Rmmovq <=> InMemory(a)
  BY <1>1, <1>3, <1>4, SameOperators DEF IsIsa!Rmmovq, IsIsa!GoOn, IsIsa!ftpc, IsIsa!Stop
<1> QED BY <1>2, <1>5

\* A load from an address that is not above 0 is refused.
LEMMA LoadSteps ==
  ASSUME TypeOK, Yat!Mrmovq
  PROVE  Yat!Deviates <=> ~IsIsa!Next
<1> DEFINE a == IsIsa!Address
<1>1. IsIsa!At("IMRMOVQ")
  BY Y64Operators DEF Yat!Mrmovq
<1>2. /\ Yat!Deviates <=> (a < 0 => pc # 0) /\ (a > 0 => a >= MEM_LEN)
      /\ IsIsa!Next <=> IsIsa!Mrmovq
      /\ Yat!Address = a /\ a \in Word
  BY <1>1, DeviatesAt, OneAction, SameAddress
<1>3. status = "AOK" /\ a \in Int /\ MEM_LEN \in Nat /\ MEM_LEN > 0
  BY <1>1, <1>2, InstructionTypes, LengthAssumption, HalfAssumption DEF Word
<1>4. CASE a <= 0
  <2>1. pc' = 0 /\ status' = "ADR" /\ UNCHANGED <<prog, reg, mem, cc>>
    BY <1>2, <1>3, <1>4 DEF Yat!Mrmovq, Yat!Fail
  <2>2. IsIsa!Mrmovq <=> a < 0 /\ pc = 0
    BY <1>1, <1>3, <1>4, <2>1, SameOperators DEF IsIsa!Mrmovq, IsIsa!GoOn, IsIsa!Stop, InMemory
  <2> QED BY <1>2, <1>3, <1>4, <2>2
<1>5. CASE a > 0
  <2>1. /\ pc' = pc + 1 /\ UNCHANGED <<prog, status, mem, cc>>
        /\ InMemory(a) => reg' = WithReg(reg, prog[pc].rA, mem[a])
    BY <1>2, <1>3, <1>5, Y64Operators DEF Yat!Mrmovq, Yat!GoOn, Yat!next_pc, Yat!Loaded
  <2>2. IsIsa!Mrmovq <=> InMemory(a)
    BY <1>1, <1>3, <2>1, SameOperators DEF IsIsa!Mrmovq, IsIsa!GoOn, IsIsa!ftpc, IsIsa!Stop
  <2>3. InMemory(a) <=> a < MEM_LEN
    BY <1>3, <1>5 DEF InMemory
  <2> QED BY <1>2, <1>3, <1>5, <2>2, <2>3
<1> QED BY <1>3, <1>4, <1>5

\* compute_cc() of the simulator and of isa.c agree but for FlagsDiffer.
LEMMA FlagsAgree ==
  ASSUME NEW op \in {A_ADD, A_SUB, A_AND, A_XOR}, NEW a \in Word, NEW b \in Word
  PROVE  Yat!FlagsOf(op, a, b, ComputeAlu(op, a, b)) = ComputeCc(op, a, b)
           <=> ~Yat!FlagsDiffer(op, a, b)
<1> DEFINE val == ComputeAlu(op, a, b)
           s == Yat!NarrowToInt(val) < 0
           over == \/ op = A_ADD /\ a > 0 /\ b > 0 /\ val < 0
                   \/ op = A_ADD /\ a < 0 /\ b < 0 /\ val > 0
                   \/ op = A_SUB /\ b > 0 /\ a < 0 /\ val < 0
                   \/ op = A_SUB /\ b < 0 /\ a > 0 /\ val > 0
           missed == \/ op = A_ADD /\ a = -HALF /\ b = -HALF
                     \/ op = A_SUB /\ a = -HALF /\ b = 0
<1>1. Yat!FlagsOf(op, a, b, val) = PackCc(val = 0, s, over)
  BY Y64Operators DEF Yat!FlagsOf, Yat!A_ADD, Yat!A_SUB, A_ADD, A_SUB
<1>2. ComputeCc(op, a, b) = PackCc(val = 0, val < 0, Overflow(op, a, b, val))
  BY DEF ComputeCc
<1>3. Yat!FlagsDiffer(op, a, b) <=> ~(s <=> val < 0) \/ missed
  BY Y64Operators DEF Yat!FlagsDiffer, Yat!A_ADD, Yat!A_SUB, A_ADD, A_SUB
<1>4. (over <=> Overflow(op, a, b, val)) <=> ~missed
  <2>1. CASE op = A_ADD
    <3>1. val = Wrap(a + b)
      BY <2>1, Adds
    <3> QED BY <2>1, <3>1, HalfAssumption DEF Overflow, Wrap, Word, A_ADD, A_SUB
  <2>2. CASE op = A_SUB
    <3>1. val = Wrap(b - a)
      BY <2>2 DEF ComputeAlu, A_ADD, A_SUB, A_AND, A_XOR
    <3> QED BY <2>2, <3>1, HalfAssumption DEF Overflow, Wrap, Word, A_ADD, A_SUB
  <2>3. CASE op \in {A_AND, A_XOR}
    BY <2>3 DEF Overflow, A_ADD, A_SUB, A_AND, A_XOR
  <2> QED BY <2>1, <2>2, <2>3
<1>5. PackCc(val = 0, s, over) = PackCc(val = 0, val < 0, Overflow(op, a, b, val))
        <=> (s <=> val < 0) /\ (over <=> Overflow(op, a, b, val))
  BY DEF PackCc
<1> QED BY <1>1, <1>2, <1>3, <1>4, <1>5

\* The flags are all that can differ in an arithmetic instruction.
LEMMA AluSteps ==
  ASSUME TypeOK, Yat!Alu
  PROVE  Yat!Deviates <=> ~IsIsa!Next
<1> DEFINE op == prog[pc].ifun
           a == RegVal(reg, prog[pc].rA)
           b == RegVal(reg, prog[pc].rB)
<1>1. IsIsa!At("IOPQ")
  BY Y64Operators DEF Yat!Alu
<1>2. (Yat!Deviates <=> Yat!FlagsDiffer(op, a, b)) /\ (IsIsa!Next <=> IsIsa!Opq)
  BY <1>1, DeviatesAt, OneAction
<1>3. op \in {A_ADD, A_SUB, A_AND, A_XOR} /\ a \in Word /\ b \in Word
  BY <1>1, InstructionTypes, RegValType DEF Assembled
<1>4. /\ reg' = WithReg(reg, prog[pc].rB, ComputeAlu(op, a, b))
      /\ cc' = Yat!FlagsOf(op, a, b, ComputeAlu(op, a, b))
      /\ pc' = pc + 1 /\ UNCHANGED <<prog, status, mem>>
  BY Y64Operators DEF Yat!Alu, Yat!GoOn, Yat!next_pc
<1>5. IsIsa!Opq <=> cc' = ComputeCc(op, a, b)
  BY <1>1, <1>4, SameOperators DEF IsIsa!Opq, IsIsa!Arithmetic, IsIsa!GoOn, IsIsa!ftpc
<1> QED BY <1>2, <1>3, <1>4, <1>5, FlagsAgree

\* A call to address 0 is refused, one without a place for the return address
\* is not.
LEMMA CallSteps ==
  ASSUME TypeOK, Yat!Call
  PROVE  Yat!Deviates <=> ~IsIsa!Next
<1> DEFINE top == Wrap(reg[RSP] - 1)
           dest == prog[pc].valC
<1>1. IsIsa!At("ICALL")
  BY Y64Operators DEF Yat!Call
<1>2. reg[RSP] \in Int /\ reg[RSP] + (-1) = reg[RSP] - 1 /\ status = "AOK"
  BY <1>1, InstructionTypes, HalfAssumption DEF Word
<1>3. Yat!StackTop = top
  BY Y64Operators DEF Yat!StackTop
<1>4. /\ Yat!Deviates <=> (InMemory(top) <=> dest = 0) \/ (~InMemory(top) /\ pc # 0)
      /\ IsIsa!Next <=> IsIsa!Call
  BY <1>1, <1>3, DeviatesAt, OneAction
<1>5. /\ reg' = IsIsa!Moved(-1) /\ cc' = cc /\ prog' = prog /\ pc' = dest
      /\ mem' = IF InMemory(top) THEN [mem EXCEPT ![top] = pc + 1] ELSE mem
      /\ status' = IF dest = 0 THEN "ADR" ELSE status
  BY <1>2, Y64Operators, Y64Moved
  DEF Yat!Call, Yat!GoOn, Yat!Fail, Yat!next_pc, Yat!Stored
<1>6. IsIsa!Call <=> \/ InMemory(top) /\ dest # 0
                     \/ ~InMemory(top) /\ dest = 0 /\ pc = 0
  BY <1>1, <1>2, <1>5, SameOperators
  DEF IsIsa!Call, IsIsa!PushWord, IsIsa!GoOn, IsIsa!Stop, IsIsa!ftpc
<1> QED BY <1>4, <1>6

\* A return leaves the stack pointer moved, whatever it finds there.
LEMMA RetSteps ==
  ASSUME TypeOK, Yat!Ret
  PROVE  Yat!Deviates <=> ~IsIsa!Next
<1> DEFINE sp == reg[RSP]
           dest == mem[sp]
<1>1. IsIsa!At("IRET")
  BY Y64Operators DEF Yat!Ret
<1>2. sp \in Word /\ status = "AOK" /\ reg \in Registers /\ RSP \in REGS
  BY <1>1, InstructionTypes, RegisterAssumption
<1>3. /\ Yat!Deviates <=> (InMemory(sp) => dest = 0 \/ ~HasInstruction(dest))
      /\ IsIsa!Next <=> IsIsa!Ret
  BY <1>1, DeviatesAt, OneAction
<1>4. /\ reg' = IsIsa!Moved(1) /\ UNCHANGED <<prog, mem, cc>>
      /\ pc' = IF InMemory(sp) THEN dest ELSE sp
      /\ status' = IF pc' <= 0 \/ pc' >= PROG_LEN THEN "ADR" ELSE status
  BY Y64Operators, Y64Moved DEF Yat!Ret, Yat!GoOn, Yat!Fail, Yat!Loaded
<1>5. CASE InMemory(sp)
  <2>1. dest \in Int
    BY <1>2, <1>5, AddressesAreWords, HalfAssumption DEF TypeOK, Memory, Word
  <2>2. (dest <= 0 \/ dest >= PROG_LEN) <=> (dest = 0 \/ ~HasInstruction(dest))
    BY <2>1, LengthAssumption, HalfAssumption DEF HasInstruction
  <2>3. IsIsa!Ret <=> ~(dest <= 0 \/ dest >= PROG_LEN)
    BY <1>1, <1>2, <1>4, <1>5, SameOperators DEF IsIsa!Ret, IsIsa!GoOn, IsIsa!Stop
  <2> QED BY <1>3, <1>5, <2>2, <2>3
<1>6. CASE ~InMemory(sp)
  <2>1. IsIsa!Moved(1)[RSP] = Wrap(sp + 1) /\ Wrap(sp + 1) # sp
    BY <1>2, UpAndDown, SameOperators, RegisterAssumption DEF IsIsa!Moved, WithReg, Registers
  <2>2. reg' # reg
    BY <1>4, <2>1
  <2>3. ~IsIsa!Ret
    BY <1>6, <2>2, SameOperators DEF IsIsa!Ret
  <2> QED BY <1>3, <1>6, <2>3
<1> QED BY <1>5, <1>6

\* A push to address 0 is refused.
LEMMA PushSteps ==
  ASSUME TypeOK, Yat!Pushq
  PROVE  Yat!Deviates <=> ~IsIsa!Next
<1> DEFINE top == Wrap(reg[RSP] - 1)
<1>1. IsIsa!At("IPUSHQ")
  BY Y64Operators DEF Yat!Pushq
<1>2. /\ reg[RSP] \in Word /\ status = "AOK" /\ prog[pc].rA \in REGS
      /\ reg[RSP] + (-1) = reg[RSP] - 1
  BY <1>1, InstructionTypes, HalfAssumption DEF Assembled, Word
<1>3. Yat!StackTop = top /\ top \in Word /\ top \in Int
  BY <1>2, UpAndDown, Y64Operators, HalfAssumption DEF Yat!StackTop, Word
<1>4. (Yat!Deviates <=> top = 0) /\ (IsIsa!Next <=> IsIsa!Pushq)
  BY <1>1, <1>3, DeviatesAt, OneAction
<1>5. /\ reg' = IsIsa!Moved(-1) /\ cc' = cc /\ prog' = prog
      /\ \/ (top <= 0 \/ top >= MEM_LEN) /\ status' = "ADR" /\ UNCHANGED <<pc, mem>>
         \/ /\ 0 < top /\ top < MEM_LEN /\ status' = status /\ pc' = pc + 1
            /\ mem' = Yat!Stored(mem, top, IF prog[pc].rA = RSP THEN Wrap(top + 1)
                                           ELSE RegVal(reg, prog[pc].rA))
  BY Y64Operators, Y64Moved DEF Yat!Pushq, Yat!GoOn, Yat!Fail, Yat!next_pc
<1>6. (IF prog[pc].rA = RSP THEN Wrap(top + 1) ELSE RegVal(reg, prog[pc].rA))
        = RegVal(reg, prog[pc].rA)
  BY <1>1, <1>2, UpAndDown, InstructionTypes
<1>7. InMemory(top) <=> 0 <= top /\ top < MEM_LEN
  BY DEF InMemory
<1>8. CASE 0 < top /\ top < MEM_LEN
  <2>1. mem' = [mem EXCEPT ![top] = RegVal(reg, prog[pc].rA)]
    BY <1>3, <1>5, <1>6, <1>7, <1>8, Y64Operators, LengthAssumption, HalfAssumption DEF Yat!Stored
  <2>2. status' = status /\ pc' = pc + 1 /\ InMemory(top)
    BY <1>3, <1>5, <1>7, <1>8, LengthAssumption, HalfAssumption
  <2>3. IsIsa!Pushq
    BY <1>1, <1>5, <2>1, <2>2, SameOperators
    DEF IsIsa!Pushq, IsIsa!PushWord, IsIsa!GoOn, IsIsa!ftpc
  <2> QED BY <1>3, <1>4, <1>8, <2>3
<1>9. CASE top <= 0 \/ top >= MEM_LEN
  <2>1. status' = "ADR" /\ UNCHANGED <<pc, mem>>
    BY <1>3, <1>5, <1>9, LengthAssumption, HalfAssumption
  <2>2. IsIsa!Pushq <=> ~InMemory(top)
    BY <1>1, <1>2, <1>5, <2>1, SameOperators
    DEF IsIsa!Pushq, IsIsa!PushWord, IsIsa!GoOn, IsIsa!Stop
  <2>3. InMemory(top) <=> top = 0
    BY <1>3, <1>7, <1>9, LengthAssumption, HalfAssumption
  <2> QED BY <1>4, <2>2, <2>3
<1> QED BY <1>3, <1>8, <1>9, LengthAssumption, HalfAssumption

\* A pop from outside memory is not refused.
LEMMA PopSteps ==
  ASSUME TypeOK, Yat!Popq
  PROVE  Yat!Deviates <=> ~IsIsa!Next
<1> DEFINE sp == reg[RSP]
<1>1. IsIsa!At("IPOPQ")
  BY Y64Operators DEF Yat!Popq
<1>2. (Yat!Deviates <=> ~InMemory(sp)) /\ (IsIsa!Next <=> IsIsa!Popq) /\ status = "AOK"
  BY <1>1, DeviatesAt, OneAction, InstructionTypes
<1>3. /\ pc' = pc + 1 /\ UNCHANGED <<prog, status, mem, cc>>
      /\ InMemory(sp) => reg' = WithReg(IsIsa!Moved(1), prog[pc].rA, mem[sp])
  BY Y64Operators, Y64Moved DEF Yat!Popq, Yat!GoOn, Yat!next_pc, Yat!Loaded
<1>4. IsIsa!Popq <=> InMemory(sp)
  BY <1>1, <1>2, <1>3, SameOperators DEF IsIsa!Popq, IsIsa!GoOn, IsIsa!Stop, IsIsa!ftpc
<1> QED BY <1>2, <1>4

\* Each step of the simulator is one of the instruction set unless it deviates.
LEMMA DeviatesStep ==
  ASSUME TypeOK, Yat!Next
  PROVE  Yat!Deviates <=> ~Yat!IsIsa!Next
<1>1. Yat!BadInstruction => Yat!At("bad") \/ Yat!At("IIADDQ")
  BY DEF Yat!BadInstruction
<1> QED
  BY <1>1, PlainSteps, NoIaddq, StoreSteps, LoadSteps, AluSteps, CallSteps, RetSteps, PushSteps,
     PopSteps, OneIsa
  DEF Yat!Next

-----------------------------------------------------------------------------

\* What the simulator loads is a word, and what it stores it stores in memory.
LEMMA Y64MemoryTypes ==
  ASSUME NEW m \in Memory, NEW a \in Word, NEW w \in Word
  PROVE  Yat!Loaded(m, a, w) \in Word /\ Yat!Stored(m, a, w) \in Memory
BY Y64Operators, AddressesAreWords DEF Yat!Loaded, Yat!Stored, Memory

LEMMA Y64TypeInductive ==
  ASSUME TypeOK, [Yat!Next]_(Yat!vars)
  PROVE  TypeOK'
<1> USE DEF Yat!GoOn, Yat!Fail, Yat!next_pc
<1>1. CASE UNCHANGED Yat!vars
  BY <1>1 DEF TypeOK, Yat!vars
<1>2. CASE Yat!NoInstruction \/ Yat!BadInstruction \/ Yat!Halt
  BY <1>2 DEF TypeOK, Yat!NoInstruction, Yat!BadInstruction, Yat!Halt, Status
<1> DEFINE val(id) == RegVal(reg, id)
<1>3. ASSUME NEW code, IsIsa!At(code)
      PROVE  /\ val(prog[pc].rA) \in Word /\ val(prog[pc].rB) \in Word
             /\ Yat!Moved(1) \in Registers /\ Yat!Moved(-1) \in Registers
             /\ Wrap(reg[RSP] - 1) \in Word
  <2>1. reg[RSP] \in Word /\ reg[RSP] + (-1) = reg[RSP] - 1
    BY <1>3, InstructionTypes, HalfAssumption DEF Word
  <2>2. Wrap(reg[RSP] + 1) \in Word /\ Wrap(reg[RSP] + (-1)) \in Word
    BY <2>1, UpAndDown
  <2> QED BY <1>3, <2>1, <2>2, InstructionTypes, RegValType, WithRegType, RegisterAssumption,
             Y64Operators DEF Yat!Moved
<1>4. CASE Yat!Nop \/ Yat!Jmp
  BY <1>4, InstructionTypes, Y64Operators DEF Yat!Nop, Yat!Jmp, TypeOK
<1>5. CASE Yat!Rrmovq
  <2>1. IsIsa!At("IRRMOVQ")
    BY <1>5, Y64Operators DEF Yat!Rrmovq
  <2>2. reg' \in Registers
    BY <1>3, <1>5, <2>1, InstructionTypes, WithRegType, Y64Operators DEF Yat!Rrmovq
  <2> QED BY <1>5, <2>1, <2>2, InstructionTypes DEF Yat!Rrmovq, TypeOK
<1>6. CASE Yat!Irmovq
  <2>1. IsIsa!At("IIRMOVQ")
    BY <1>6, Y64Operators DEF Yat!Irmovq
  <2>2. reg' \in Registers
    BY <1>6, <2>1, InstructionTypes, WithRegType, Y64Operators DEF Yat!Irmovq
  <2> QED BY <1>6, <2>1, <2>2, InstructionTypes DEF Yat!Irmovq, TypeOK
<1>7. CASE Yat!Rmmovq
  <2>1. IsIsa!At("IRMMOVQ")
    BY <1>7, Y64Operators DEF Yat!Rmmovq
  <2>2. mem' \in Memory
    BY <1>3, <1>7, <2>1, InstructionTypes, SameAddress, Y64MemoryTypes, Y64Operators DEF Yat!Rmmovq
  <2> QED BY <1>7, <2>1, <2>2, InstructionTypes DEF Yat!Rmmovq, TypeOK
<1>8. CASE Yat!Mrmovq
  <2>1. IsIsa!At("IMRMOVQ")
    BY <1>8, Y64Operators DEF Yat!Mrmovq
  <2>2. Yat!Loaded(mem, Yat!Address, prog[pc].valC) \in Word
    BY <2>1, InstructionTypes, SameAddress, Y64MemoryTypes
  <2>3. reg' \in Registers
    BY <1>8, <2>1, <2>2, InstructionTypes, WithRegType, Y64Operators DEF Yat!Mrmovq
  <2> QED BY <1>8, <2>1, <2>3, InstructionTypes, AddressesAreWords
          DEF Yat!Mrmovq, TypeOK, Status
<1>9. CASE Yat!Alu
  <2>1. IsIsa!At("IOPQ")
    BY <1>9, Y64Operators DEF Yat!Alu
  <2>2. reg' \in Registers
    BY <1>3, <1>9, <2>1, AluType, InstructionTypes, WithRegType, Y64Operators DEF Yat!Alu
  <2>3. cc' \subseteq {"ZF", "SF", "OF"}
    BY <1>9 DEF Yat!Alu, Yat!FlagsOf, Yat!PackCc
  <2> QED BY <1>9, <2>1, <2>2, <2>3, InstructionTypes DEF Yat!Alu, TypeOK, Flags
<1>10. CASE Yat!Call
  <2>1. IsIsa!At("ICALL")
    BY <1>10, Y64Operators DEF Yat!Call
  <2>2. mem' \in Memory
    BY <1>3, <1>10, <2>1, InstructionTypes, Y64MemoryTypes, Y64Operators DEF Yat!Call
  <2> QED BY <1>3, <1>10, <2>1, <2>2, InstructionTypes DEF Yat!Call, TypeOK, Status
<1>11. CASE Yat!Ret
  <2>1. IsIsa!At("IRET")
    BY <1>11, Y64Operators DEF Yat!Ret
  <2>2. pc' \in Word
    BY <1>11, <2>1, InstructionTypes, Y64MemoryTypes DEF Yat!Ret
  <2> QED BY <1>3, <1>11, <2>1, <2>2 DEF Yat!Ret, TypeOK, Status
<1>12. CASE Yat!Pushq
  <2>1. IsIsa!At("IPUSHQ")
    BY <1>12, Y64Operators DEF Yat!Pushq
  <2> DEFINE top == Wrap(reg[RSP] - 1)
             word == IF prog[pc].rA = RSP THEN Wrap(top + 1) ELSE RegVal(reg, prog[pc].rA)
  <2>2. word \in Word /\ top \in Word
    BY <1>3, <2>1, UpAndDown
  <2>3. Yat!Stored(mem, top, word) \in Memory
    BY <2>1, <2>2, InstructionTypes, Y64MemoryTypes
  <2>4. mem' \in Memory
    BY <1>12, <2>1, <2>3, InstructionTypes, Y64Operators DEF Yat!Pushq
  <2> QED BY <1>3, <1>12, <2>1, <2>4, InstructionTypes DEF Yat!Pushq, TypeOK, Status
<1>13. CASE Yat!Popq
  <2>1. IsIsa!At("IPOPQ")
    BY <1>13, Y64Operators DEF Yat!Popq
  <2>2. Yat!Loaded(mem, reg[RSP], 0) \in Word
    BY <2>1, InstructionTypes, Y64MemoryTypes, AddressesAreWords
  <2>3. reg' \in Registers
    BY <1>3, <1>13, <2>1, <2>2, InstructionTypes, WithRegType, Y64Operators DEF Yat!Popq
  <2> QED BY <1>13, <2>1, <2>3, InstructionTypes DEF Yat!Popq, TypeOK
<1> QED
  BY <1>1, <1>2, <1>4, <1>5, <1>6, <1>7, <1>8, <1>9, <1>10, <1>11, <1>12, <1>13 DEF Yat!Next

\* The simulator of lab 5 differs from the instruction set exactly at the steps
\* that Deviates lists, for every word width, also of the int that compute_cc()
\* narrows values to, every program and every size of memory: in flags, in
\* addresses outside memory, in calls and returns to address 0, and in iaddq.
THEOREM Y64DiffersThereOnly == Yat!Spec => Yat!DeviatesThereOnly
<1>1. Yat!Init => TypeOK
  BY AddressesAreWords DEF Yat!Init, Yat!Reset, TypeOK, Registers, Memory, Flags,
     Yat!DEFAULT_CC, Status
<1>2. ASSUME TypeOK, [Yat!Next]_(Yat!vars)
      PROVE  [Yat!Deviates <=> ~Yat!IsIsa!Next]_(Yat!vars)
  BY <1>2, DeviatesStep
<1> QED BY <1>1, <1>2, Y64TypeInductive, PTL DEF Yat!Spec, Yat!DeviatesThereOnly
=============================================================================
