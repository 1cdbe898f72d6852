SPECIFICATION WatchSpec
CONSTANTS
    None = None
    Stems <- MCStems
    PolicyIds = {"a", "b"}
    DeclaredIds = {None}
    Edits = {"in_place"}
    EditPhases = {"running"}
    FinalForms = {"whole"}
    DirectoryAtFirst = {TRUE}
    MaxEdits = 1
    MaxReloads = 1
PROPERTIES
    HotReloadSettles
CHECK_DEADLOCK FALSE
