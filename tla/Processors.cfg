SPECIFICATION SteadyAll
CONSTANTS
  HALF = 8
  INT_HALF = 4
  And <- AndWords
  Xor <- XorWords
  REGS = {"rax", "rsp"}
  RSP = "rsp"
  RNONE = "none"
  MEM_LEN = 4
  PROG_LEN = 7
  Programs <- AllPrograms
PROPERTIES SeqIsIsaButForRsp PipeIsIsaButForRsp Y64DeviatesThereOnly KeepsExecuting
CHECK_DEADLOCK FALSE
