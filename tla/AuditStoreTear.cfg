SPECIFICATION Spec
CONSTANTS
    Tenants = {t1}
    Params = {p1, p2}
    NoTenant = NoTenant
    MaxRecords = 2
    MaxCalls = 4
    Faults = {"tear"}
INVARIANTS
    AcknowledgedSurvive
