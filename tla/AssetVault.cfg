CONSTANTS
    i1 = i1
    i2 = i2
    e1 = e1
    Importers = {i1, i2}
    Executions = {e1}
    Contents <- MCContents
    Limit = 2
    short = short
    long = long
    Shelves <- MCShelves
    ShelfOf <- MCShelfOf
    MaxEdits = 1
    MaxDamages = 1
SPECIFICATION Spec
SYMMETRY Interchangeable
INVARIANTS
    ImportIsOneVersion
    EntriesAreWhole
    RecordsAreKept
    ExecutedAsApproved
    CopiesAreRemoved
CHECK_DEADLOCK FALSE
