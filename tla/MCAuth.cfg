SPECIFICATION FairSpec
CONSTANTS
    right = right
    wrong = wrong
    Password = {right, wrong}
    Right = right
    NoPassword = null
    MaxConv = 2
    Buffer = 4
    Faults = {"start", "helper", "locker"}
    MaxFaults = 2
INVARIANT TypeOK
INVARIANT NoLeftover
INVARIANT ReapedOnce
PROPERTY SuccessIsEarned
PROPERTY Answered
PROPERTY Returns
PROPERTY NoOrphan
PROPERTY OpenAgain
PROPERTY ServiceKept
