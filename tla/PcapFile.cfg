SPECIFICATION Spec
CONSTANTS
    Writers = {"raw", "rt"}
    MaxItems = 7
INVARIANTS
    TornOnlyLast
