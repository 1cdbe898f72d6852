SPECIFICATION WatchSpec
CONSTANTS
    None = None
    Stems <- MCStems
    PolicyIds = {"a", "b"}
    DeclaredIds = {None}
    Edits = {"in_place", "rename", "remove"}
    EditPhases = {"loading", "running"}
    FinalForms = {"whole", "invalid"}
    DirectoryAtFirst = {TRUE}
    MaxEdits = 3
    MaxReloads = 0
PROPERTIES
    HotReloadSettles
CHECK_DEADLOCK FALSE
