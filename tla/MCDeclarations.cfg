CONSTANT Families <- MCFamilies
SPECIFICATION Spec
INVARIANTS
    TypedAsC
    
    DefinedAsC
CHECK_DEADLOCK FALSE
