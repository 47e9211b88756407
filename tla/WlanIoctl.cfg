SPECIFICATION Spec
CONSTANTS
    Threads = {t1, t2}
    Modes = {m1, m2}
    FirstMode = m1
    NoMode = none
    Nobody = nobody
    QueueMax = 2
INVARIANTS
    TypeOK
    NothingLeaked
    ModeKnown
