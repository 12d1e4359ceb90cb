SPECIFICATION Spec
CONSTANTS
    Null = Null
    Gone = Gone
    editor1 = editor1
    editor2 = editor2
    manager1 = manager1
    manager2 = manager2
    north = north
    south = south
    cable = cable
    metre = metre
    shop = shop
    urgent = urgent
    Editors = {editor1, editor2}
    SupplyManagers = {manager1, manager2}
    Admins = {manager2}
    Sites = {north, south}
    Suppliers = {shop}
    Importances = {urgent}
    UnitOf <- MCUnitOf
    Requests = {1, 2}
    Heads = {north}
    Bodies <- MCBodies
    NewItems <- MCNewItems
    MaxItems = 2
    Starts <- MCStarts
    MaxEdits = 3
    MaxChanges = 1
INVARIANTS
    StatusesAgree
PROPERTIES
    SubmittedStands
    SubmittedAsSeen
    AssignedInForce
    EveryAssignmentEnds
CHECK_DEADLOCK FALSE
