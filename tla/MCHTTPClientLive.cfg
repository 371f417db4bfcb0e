\* The same for liveness, with shorter minutes and no stall between clock and lock.
CONSTANTS
    a1 = a1
    a2 = a2
    a3 = a3
    b1 = b1
    alice = alice
    bob = bob
    Caller = {a1, a2, b1}
    Key = {alice, bob}
    KeyOf <- MCKeyOf
    MaxConcurrent = 2
    MaxConcurrentPerKey = 1
    MaxCalls = 1
    MaxCallsPerKey = 1
    Minute = 2
    MaxStall = 0
SPECIFICATION Spec
PROPERTIES CancelledCallReturns EveryCallReturns

