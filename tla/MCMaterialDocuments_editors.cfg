SPECIFICATION Spec
CONSTANTS
    Null = Null
    Gone = Gone
    clerk1 = clerk1
    clerk2 = clerk2
    manager = manager
    north = north
    south = south
    cable = cable
    metre = metre
    piece = piece
    Clerks = {clerk1, clerk2}
    Managers = {manager}
    Sites = {north, south}
    Materials = {cable}
    Units = {metre}
    Documents <- MCDocuments
    Heads <- MCHeads
    Bodies <- MCBodies
    NewItems <- MCNewItems
    MaxItems = 2
    MaxVersion = 3
    MaxCommits = 3
SYMMETRY MCSymmetry
INVARIANTS
    EveryReorderSaved
    VersionNamesContent
    ListedIffReadable
PROPERTY NoLostUpdate
CHECK_DEADLOCK FALSE
