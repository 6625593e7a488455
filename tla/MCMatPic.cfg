SPECIFICATION Spec
CONSTANTS
  Programs <- MCPrograms
  SegLen = 16
  Unset = 77
  IHLL = 4
  Arch <- PicArch
  Arity <- PicArity
  Opcode <- acmp
  Operands <- adis
  Mask <- BitAnd
  Value <- ArgValue
  Values <- getargs
INVARIANTS
  PrecedenceKept
  LocalsAreScoped
  LabelsInPlace
  CollisionsFound
  HexIsImage
  ListingIsProgram
CHECK_DEADLOCK FALSE
