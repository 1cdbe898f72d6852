SPECIFICATION Spec
CONSTANTS
    None = None
    Prompts <- MCPrompts
    Texts <- MCTexts
    Echo <- MCEcho
    PolicyIds = {"default", "other"}
    Documents <- MCDocuments
    EmptyPrompt <- Plain
    Schemas = {None, "empty", "required", "malformed", "broken"}
INVARIANTS
    TypeOK
    OnlyJsonChecksRaise
    VerdictComplete
    DocumentAsWritten
PROPERTIES
    ListedGuardrailsAct
    StricterCatchesMore
CHECK_DEADLOCK FALSE
