\* Three calls of alice, whose second and third exceed her quota, and one of bob.
CONSTANTS
    a1 = a1
    a2 = a2
    a3 = a3
    b1 = b1
    alice = alice
    bob = bob
    Caller = {a1, a2, a3, b1}
    Key = {alice, bob}
    KeyOf <- MCKeyOf
    MaxConcurrent = 2
    MaxConcurrentPerKey = 2
    MaxCalls = 4
    MaxCallsPerKey = 1
    Minute = 2
    MaxStall = 0
SPECIFICATION SafetySpec
INVARIANT NotBlockedByAnothersQuota

