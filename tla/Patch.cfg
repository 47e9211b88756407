SPECIFICATION Spec
CONSTANT TrampolineWords = 3
INVARIANTS
    TypeOK
    BranchComplete
PROPERTIES
    ResultTrue
