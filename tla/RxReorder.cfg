SPECIFICATION Spec
CHECK_DEADLOCK FALSE
CONSTANTS
    SeqMod = 22
    WinSize = 3
    Half = 11
    FirstFrame = 20
    MaxFrames = 22
    Woken = 36
    Gap = 1
    Most = 1
    Cpus = 2
INVARIANTS
    TypeOK
    NotTwice
    NoneForgotten
    InOrder
    SlotsMatch
    NewestKept
    

    
