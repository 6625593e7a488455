SPECIFICATION Spec
CONSTANTS
  Programs <- MCTwoBytes
  SegLen = 16
  Unset = 77
  IHLL = 4
  Arch <- PicArch
  Arity <- PicArity
  Opcode <- acmp
  Operands <- adis
  Mask <- BitAnd
  Value <- ArgValue
  Values <- getargs
INVARIANT DataIsPadded
CHECK_DEADLOCK FALSE
