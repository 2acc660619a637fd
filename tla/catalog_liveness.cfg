SPECIFICATION FairSpec
CONSTANTS
    Projects = {j1}
    Uploads = {u1}
    Imports = {c1}
    Runs = {p1}
    NoRow = NoRow
    MaxFaults = 1
    MaxCrashes = 1
PROPERTIES
    WorkersLeave
    DeletedFilesGo
CHECK_DEADLOCK FALSE
