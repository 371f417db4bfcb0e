\* The same with one confirmation and no symmetry, for liveness.
CONSTANTS
    Call = {c1, c2}
    Id = {id1}
    u1 = u1
    u2 = u2
    URL <- MCURL
    Unset = Unset
    NoId = NoId
    TTL = 1
    MaxTime = 1
    MethodOf <- MCMethodOf
    Deployment <- MCDeployment
    Asked <- MCAskedOpen
    Tried <- MCTried
SPECIFICATION Spec
PROPERTY SpentConfirmationIsAudited
CHECK_DEADLOCK FALSE
