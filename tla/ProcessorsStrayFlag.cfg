SPECIFICATION SpecAll
CONSTANTS
  HALF = 8
  INT_HALF = 4
  And <- AndWords
  Xor <- XorWords
  REGS = {"rax", "rsp"}
  RSP = "rsp"
  RNONE = "none"
  MEM_LEN = 4
  PROG_LEN = 7
  Programs <- StoreAndJump
PROPERTY PipeIsIsaButForRsp
CHECK_DEADLOCK FALSE
