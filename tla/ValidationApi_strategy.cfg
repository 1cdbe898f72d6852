SPECIFICATION Spec
CONSTANTS
    None = None
    Prompts <- MCPrompts
    Texts <- MCTexts
    Echo <- MCEcho
    PolicyIds = {"default", "other"}
    Documents <- StrategyDocuments
    EmptyPrompt <- Plain
    Schemas = {None, "empty", "required", "malformed"}
INVARIANT
    StrategyKept
CHECK_DEADLOCK FALSE
