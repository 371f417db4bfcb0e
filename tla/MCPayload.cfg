CONSTANTS
    Documents <- MCDocuments
    JSONValues <- MCJSONValues
    PrintOf <- MCPrintOf
    API <- MCAPI
    Called <- MCCalled
    Overrides <- MCOverrides
    Values <- MCValues
    Filters <- MCFilters
    Answers <- MCAnswers
SPECIFICATION Spec
INVARIANTS
    AdmittedBodiesPass
    PassingBodiesAreAdmitted
    GeneratedBodyPasses
    GeneratedBodyIsAdmitted
    OverridesReplaceTheirOwn
    SearchIsExact
    AdmittedResponsesPass
    VerdictsAgree
\* The flow ends with a verdict.
CHECK_DEADLOCK FALSE
