SPECIFICATION Spec
CONSTANT Programs <- MCPrograms
INVARIANTS ValuesArrive FrameKept
CHECK_DEADLOCK FALSE
