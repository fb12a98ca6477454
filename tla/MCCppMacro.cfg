SPECIFICATION MCSpec
CONSTANTS
  Letter <- MCLetter
  Inputs <- MCInputs
  MaxLine = 40
INVARIANTS
  BlueIsInProgress
  ExpandsAsStandard
PROPERTY
  Completes
