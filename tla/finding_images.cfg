SPECIFICATION Spec
CONSTANTS
    Projects = {j1}
    Uploads = {u1}
    Imports = {}
    Runs = {p1}
    NoRow = NoRow
    MaxFaults = 0
    MaxCrashes = 0
INVARIANTS
    TrainingImagesKept
CHECK_DEADLOCK FALSE
