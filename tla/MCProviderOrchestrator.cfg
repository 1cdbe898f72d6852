SPECIFICATION Spec
CONSTANTS
    None = None
    c1 = c1
    Vendors <- MCVendors
    Bases = {"m"}
    LITELLM_PREFIXES <- MCPrefixes
    MessageLists = {"hello"}
    Timeouts = {50}
    Contents = {"good", "bad"}
    ExcTexts <- MCExcTexts
    Outcomes <- MCOutcomes
    Calls = {c1}
    Requests <- MCRequests
    ConfigLists <- MCConfigLists
    Strategies = {None, "sequential", "random"}
INVARIANTS
    TypeOK
    FailoverInOrder
    MetadataTruthful
    ErrorsTruthful
    Inv
PROPERTIES
    NothingAfterTheEnd
    EveryExecutionEnds
CHECK_DEADLOCK FALSE
