\* Two calls of one principal and one of another; a principal may have one call at a
\* time, each limiter grants one call a minute.
CONSTANTS
    a1 = a1
    a2 = a2
    a3 = a3
    b1 = b1
    alice = alice
    bob = bob
    Caller = {a1, a2, b1}
    Key = {alice, bob}
    KeyOf <- MCKeyOf
    MaxConcurrent = 2
    MaxConcurrentPerKey = 1
    MaxCalls = 1
    MaxCallsPerKey = 1
    Minute = 3
    MaxStall = 1
SPECIFICATION SafetySpec
INVARIANTS TypeOK SlotsMatchHolders WindowsKeepTheirDistance

