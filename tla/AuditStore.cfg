SPECIFICATION Spec
CONSTANTS
    Tenants = {t1}
    Params = {p1, p2}
    NoTenant = NoTenant
    MaxRecords = 2
    MaxCalls = 5
    Faults = {"open", "append", "rewrite", "rename", "tear"}
INVARIANTS
    TypeOK
    SurviveUnlessDamaged
    NothingInvented
    TenantsDurable
PROPERTIES
    ImplementsBoundedLog
