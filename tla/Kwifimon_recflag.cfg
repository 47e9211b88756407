SPECIFICATION ServeSpec
CONSTANTS
    Callers = {main}
    Calls = {"cap_start", "cap_stop", "net_start", "net_stop"}
    Unloader = main
    Rx = rx
    Frames <- PassedOn
    Fds = {1}
    CounterMod = 2
INVARIANTS
    RecFileFlagMeansFile
