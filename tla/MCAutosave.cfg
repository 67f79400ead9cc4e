SPECIFICATION Spec
CONSTANTS
    Forms = {reference, identity}
    Values = {v0, v1, empty}
    Initial = v0
    Invalid = {empty}
    MaxEdits = 4
CHECK_DEADLOCK FALSE
INVARIANTS
    TypeOK
    SavesAreCounted
    SavedMeansStored
PROPERTY StatusSettles
