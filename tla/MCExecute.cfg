\* Two calls race for two confirmations, within their TTL and after it.  The run
\* ends when both calls have returned and the clock stands.
CONSTANTS
    Call = {c1, c2}
    Id = {id1, id2}
    u1 = u1
    u2 = u2
    URL <- MCURL
    Unset = Unset
    NoId = NoId
    TTL = 1
    MaxTime = 1
    MethodOf <- MCMethodOf
    Deployment <- MCDeployment
    Asked <- MCAsked
    Tried <- MCTried
SYMMETRY Symmetry
SPECIFICATION SafetySpec
INVARIANTS TypeOK EachWriteHasItsOwnConfirmation NoWriteAgainstTheHumansWord RecordsAgree
CHECK_DEADLOCK FALSE
