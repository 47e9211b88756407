SPECIFICATION Spec
CHECK_DEADLOCK FALSE
CONSTANTS
    SeqMod = 16
    WinSize = 3
    Half = 8
    FirstFrame = 15
    MaxFrames = 19
    Woken = 24
    Gap = 1
    Most = 0
    Cpus = 1
INVARIANTS
    OnlyUntilStart
