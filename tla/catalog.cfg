SPECIFICATION Spec
CONSTANTS
    Projects = {j1}
    Uploads = {u1}
    Imports = {c1}
    Runs = {p1, p2}
    NoRow = NoRow
    MaxFaults = 1
    MaxCrashes = 1
SYMMETRY Symmetry
INVARIANTS
    TypeOK
    CatalogHasFiles
    RunsKeepInputs
    FilesHaveOwner
PROPERTIES
    ActiveRunsKept
CHECK_DEADLOCK FALSE
