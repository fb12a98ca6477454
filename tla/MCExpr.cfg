SPECIFICATION Spec
CONSTANTS
  ShortBits = 2
  IntBits = 4
  LongBits = 8
  Vars <- MCVars
  Arrays <- MCArrays
  Leaves <- MCLeaves
  Operands <- MCOperands
  UnaryOps <- MCUnaryOps
  BinaryOps <- MCBinaryOps
  CastTypes <- MCCastTypes
  UpdateOps <- MCUpdateOps
  Targets <- MCTargets
  MaxDepth = 2
  Stores <- MCStores
INVARIANTS ConstantsAsC GeneratedAsC ParsedAsWritten
