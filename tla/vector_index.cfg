\* Two jobs, rotations and loads in any order, with a keyring that may refuse.
CONSTANTS
    Job = {j1, j2}
    Empty = Empty
    Garbage = Garbage
    Absent = Absent
    None = None
    KeyringWorks = TRUE
    MaxKeys = 4
    MaxKills = 2
SPECIFICATION Spec
INVARIANTS
    TypeOK
    SavedIsLoadable
