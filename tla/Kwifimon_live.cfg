SPECIFICATION Spec
CONSTANTS
    Callers = {main, other}
    Calls = {"cap_start", "mod_stats_reset"}
    Unloader = main
    Rx = rx
    Frames <- Uncounted
    Fds = {1}
    CounterMod = 2
PROPERTIES
    CallReturns
    RxLeaves
\* The module stops, and nothing is left to do.
CHECK_DEADLOCK FALSE
