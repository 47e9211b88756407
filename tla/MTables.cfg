SPECIFICATION Spec
CONSTANTS
    Nums <- AllNums
    Freqs <- AllFreqs
    Indexes <- AllIndexes
INVARIANTS
    ChannelsAgree
    HtRateStandard
