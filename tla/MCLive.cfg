SPECIFICATION FairSpec
CONSTANTS
    i1 = i1
    i2 = i2
    i3 = i3
    a1 = a1
    a2 = a2
    Invoker = {i1, i2}
    NoInv = none
    MaxPid = 3
    Waiters = {i1}
    Singles = {i1, i2}
    PluginLoaded = TRUE
    App = {a1, a2}
    AppOf <- OneApp
    Status = {0, 1}
    Success = 0
    Failure = 1
    BootModes = {FALSE}
    Backlog = 1
    Faults = {"kill", "crash", "daemon"}
    MaxFaults = 1
INVARIANT OneLaunched
PROPERTY Answered
PROPERTY FollowsInvoker
PROPERTY Replenished
