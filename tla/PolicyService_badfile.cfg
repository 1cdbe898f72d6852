SPECIFICATION Spec
CONSTANTS
    None = None
    Stems <- MCStems
    PolicyIds = {"a", "b"}
    DeclaredIds = {None}
    Edits = {}
    EditPhases = {}
    FinalForms = {"whole", "unreadable"}
    DirectoryAtFirst = {TRUE}
    MaxEdits = 0
    MaxReloads = 0
INVARIANT
    BadFileBlocksNothing
CHECK_DEADLOCK FALSE
