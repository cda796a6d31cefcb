SPECIFICATION Spec
CONSTANTS
    i1 = i1
    i2 = i2
    i3 = i3
    a1 = a1
    a2 = a2
    Invoker = {i1, i2, i3}
    NoInv = none
    MaxPid = 2
    Waiters = {i2}
    Singles = {i1, i2}
    PluginLoaded = TRUE
    App = {a1, a2}
    AppOf <- OneApp
    Status = {0, 1}
    Success = 0
    Failure = 1
    BootModes = {TRUE, FALSE}
    Backlog = 1
    Faults = {"signal"}
    MaxFaults = 1

INVARIANT KillsInvoked
