SPECIFICATION ServeSpec
CONSTANTS
    Callers = {main, other}
    Calls = {"cap_start", "cap_stop", "net_start", "net_stop", "mod_stats_reset"}
    Unloader = main
    Rx = rx
    Frames <- TwoKinds
    Fds = {1}
    CounterMod = 2
INVARIANTS
    TypeOK
    MutexOwned
    StatsConservation
    HandlesLive
PROPERTIES
    ImplementsService
    ErrorSticky
