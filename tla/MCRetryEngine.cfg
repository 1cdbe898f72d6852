SPECIFICATION Spec
CONSTANTS
    None = None
    Vendors <- MCVendors
    Bases = {"m"}
    LITELLM_PREFIXES <- MCVendors
    MessageLists <- MCMessageLists
    Timeouts = {50}
    Contents = {"good", "stray", "toxic", "leaky", "deep"}
    Undecodable = {"deep"}
    ExcTexts <- MCExcTexts
    Outcomes <- MCOutcomes
    PolicyIds = {"default"}
    Fallbacks = {"sorry"}
    Prompts = {"p"}
    Codes <- MCCodes
    PromptFlags <- MCPromptFlags
    OutputFlags <- MCOutputFlags
    Calls = {"c1"}
    Contexts <- MCContexts
INVARIANTS
    TypeOK
    RetryBudget
    CorrectionsMatch
    ReturnedPasses
PROPERTIES
    StopsOnAcceptable
    EveryRunEnds
CHECK_DEADLOCK FALSE
