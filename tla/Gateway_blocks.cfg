SPECIFICATION Spec
CONSTANTS
    None = None
    r1 = r1
    r2 = r2
    Vendors <- MCVendors
    Bases = {"m"}
    LITELLM_PREFIXES <- MCPrefixes
    MessageLists <- MCMessageLists
    Timeouts = {50}
    Contents = {"good", "toxic", "leaky"}
    ExcTexts <- AllExcTexts
    PolicyIds = {"default", "other", "unknown"}
    DefaultId = "default"
    Fallbacks = {"sorry", "sorry2", "no"}
    Prompts = {"fine", "private"}
    Histories = {"h"}
    Codes <- MCCodes
    PromptFlags <- MCPromptFlags
    OutputFlags <- MCOutputFlags
    Undecodable = {"leaky"}
    Reqs = {r1}
    ChatRequests <- PrivateBodies
    PolicySet <- DefaultPolicies
    Directories <- DirDefault2
    Outcomes <- AllOutcomeSet
    MaxPublished = 1
INVARIANT
    EachGuardrailBlocks
CHECK_DEADLOCK FALSE
