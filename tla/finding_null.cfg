SPECIFICATION CredentialSpec
CONSTANTS
    Places = {a, b}
    Services = {s}
    NoPlace = NoPlace
    NoService = NoService
    Empty = Empty
    Mask = Mask
    Null = Null
    Absent = Absent
    Runs = {r1, r2}
INVARIANTS
    SecretsStay
CHECK_DEADLOCK FALSE
