SPECIFICATION Spec
CONSTANTS
  Decls <- MCDecls
  MaxElements = 3
  MaxLength = 9
INVARIANT InitialisedAsC
CHECK_DEADLOCK FALSE
