SPECIFICATION TimedSpec
CONSTANTS
    f1 = f1
    f2 = f2
    r1 = r1
    r2 = r2
    r3 = r3
    r4 = r4
    None = None
    Functions <- MCFunctions
    Requests <- MCFewRequests
    FunctionOf <- MCFunctionOf
    Profiles <- MCProfiles
    GlobalMaxQueued = 2
    MaxConcurrency = 1
    MaxTime = 2
PROPERTY
    BlockedIsRetried
    EveryRequestResolved
