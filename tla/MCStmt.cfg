SPECIFICATION Spec
CONSTANTS
  InlineToks <- MCInlineToks
  INLINE_DEPTH_MAX = 1
  Main = TRUE
  Inline <- MCInline
  Menus <- MCMenus
  MaxDepth = 3
  Oracles <- MCOracles
  MaxTrace = 10
  Fuel = 120
INVARIANTS JumpsChecked FlowAsC
