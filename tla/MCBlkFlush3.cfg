SPECIFICATION FairSpec
CONSTANTS
  entry = entry
  epilogue = epilogue
  m1 = m1
  Blocks <- MCBlocks3
  Entry = entry
  Epilogue = epilogue
  NoBlk = NoBlk
  ThreadJumps = TRUE
  DumpBblocks = FALSE
  JMP_THREAD_LIM = 10
  MaxMustgen = 1
  MaxConds = 2
  MaxDead = 1
INVARIANTS FlowPreserved LabelsDefinedOnce ReachableWritten
PROPERTY FlushTerminates
