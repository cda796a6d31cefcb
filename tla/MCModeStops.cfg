SPECIFICATION Spec
CONSTANTS
    i1 = i1
    i2 = i2
    i3 = i3
    a1 = a1
    a2 = a2
    Invoker = {i1}
    NoInv = none
    MaxPid = 3
    Waiters = {i1}
    Singles = {}
    PluginLoaded = TRUE
    App = {a1, a2}
    AppOf <- OneApp
    Status = {0, 1}
    Success = 0
    Failure = 1
    BootModes = {TRUE, FALSE}
    Backlog = 1
    Faults = {"mode"}
    MaxFaults = 1
INVARIANT StopsOnlyIfAsked

