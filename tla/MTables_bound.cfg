SPECIFICATION Spec
CONSTANTS
    Nums <- NoNums
    Freqs <- NoNums
    Indexes <- AllIndexes
INVARIANTS
    RateFromTable
