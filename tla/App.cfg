SPECIFICATION AppSpec
CONSTANTS
    Callers = {main}
    Calls = {"cap_start", "cap_stop", "mod_stats_reset"}
    Unloader = main
    Rx = rx
    Frames <- OneFrame
    Fds = {1}
    CounterMod = 2
    Pads <- SomePads
INVARIANTS
    OneActionPerPress
    DisplayAddsUp
    OwnModuleGone
    UnloadLeavesNoFile
    NoWorkUnlocked
PROPERTIES
    AppResponds
