SPECIFICATION Spec
CONSTANTS
    None = None
    Stems <- MCStems
    PolicyIds = {"a", "b"}
    DeclaredIds = {None, "b"}
    Edits = {"in_place", "rename", "remove"}
    EditPhases = {"loading", "running", "unwatched"}
    FinalForms = {"whole", "unreadable"}
    DirectoryAtFirst = {TRUE, FALSE}
    MaxEdits = 2
    MaxReloads = 1
INVARIANTS
    TypeOK
    KeyedById
    ReloadAllExact
PROPERTIES
    ImplementsRegistry
    OnlyReloadAllForgets
CHECK_DEADLOCK FALSE
