SPECIFICATION Spec
CONSTANTS
    Null = Null
    Gone = Gone
    manager1 = manager1
    manager2 = manager2
    north = north
    south = south
    crane = crane
    Managers = {manager1, manager2}
    Sites = {north, south}
    Materials = {crane}
    Movements <- MCMovements
    Posted <- MCPosted
    Assigned <- MCAssigned
    Horizon = 2
    MaxRecords = 3
    MaxEvents = 1
INVARIANTS
    HistoryAlternates
PROPERTIES
    ReversesWhatWasShown
    RecordedInStock
CHECK_DEADLOCK FALSE
