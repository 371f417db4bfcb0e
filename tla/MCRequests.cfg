CONSTANTS
    Op <- MCOp
    Method = {"GET", "POST", "TRACE"}
    Served <- MCServed
    Documents <- MCDocuments
    Settings <- MCSettings
    Inputs <- MCInputs
    Hosts = {"api", "sandbox"}
SPECIFICATION Spec
INVARIANTS
    IdsLeadBack
    ParametersArrive
    ConfirmedAsPrepared
PROPERTY HardeningNeverLoosens
\* One input is taken through the tools, and that is the end.
CHECK_DEADLOCK FALSE
