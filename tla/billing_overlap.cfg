SPECIFICATION Spec
CONSTANTS
    Webhooks = {w1, w2}
    Checkouts = {s1}
    Absent = Absent
    Customers = 1
    MaxEvents = 3
    MaxSecond = 2
    Says <- MCSays
PROPERTIES
    DeletionStands
SYMMETRY Symmetry
CHECK_DEADLOCK FALSE
