CONSTANTS
    AddressesOf <- MCAddresses
    Configs <- MCConfigs
    Targets <- MCTargets
    Answers <- MCAnswers
    MaxRedirects = 3
    Request = {r1, r2}
    Grace = 2
SPECIFICATION Spec
INVARIANTS
    CheckedBeforeServing
    GraceBeforeCut
PROPERTY SignalEndsTheServer
\* The process ends.
CHECK_DEADLOCK FALSE
