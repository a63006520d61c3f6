\* Seven rows in any order for four cells.
CONSTANTS
    ARRAY_COUNT = 4
    Keys <- MCKeys
    MaxRows = 7
SPECIFICATION Spec
INVARIANTS
    TypeOK
    OwnOffset
    InOrderFound
