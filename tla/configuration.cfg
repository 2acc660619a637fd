SPECIFICATION CredentialSpec
CONSTANTS
    Places = {a, b}
    Services = {s}
    NoPlace = NoPlace
    NoService = NoService
    Empty = Empty
    Mask = Mask
    Null = Null
    Absent = Absent
    Runs = {r1, r2}
INVARIANTS
    CredentialTypeOK
    SecretsStayUnlessNulled
    CloneKeepsSecrets
SYMMETRY RunSymmetry
CONSTRAINT ChainOrUpdates
CHECK_DEADLOCK FALSE
