SPECIFICATION Spec
CONSTANTS
    i1 = i1
    i2 = i2
    i3 = i3
    a1 = a1
    a2 = a2
    Invoker = {i1, i2}
    NoInv = none
    MaxPid = 3
    Waiters = {i1, i2}
    Singles = {i1}
    PluginLoaded = TRUE
    App = {a1, a2}
    AppOf <- TwoApps
    Status = {0, 1}
    Success = 0
    Failure = 1
    BootModes = {TRUE}
    Backlog = 1
    Faults = {"kill", "signal", "stall", "crash", "mode", "term", "daemon"}
    MaxFaults = 1
INVARIANT TypeOK
INVARIANT MapFaithful
INVARIANT OneBooster
INVARIANT ExitFaithful
INVARIANT NoChildForgotten
INVARIANT PidIsOwn
INVARIANT IdleBoosterMode
PROPERTY SwitchSparesApps
PROPERTY StopsEverything
