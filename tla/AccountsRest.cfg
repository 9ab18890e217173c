\* Accounts and a user that move between two clusters.
SPECIFICATION Spec
CONSTANTS
    c1 = c1
    c2 = c2
    a1 = a1
    a2 = a2
    Clusters = {c1, c2}
    Accounts = {a1, a2}
    Users = {1}
    Name <- NameIsNumber
    None = None
    Specs <- MovingSpecs
    Start <- MovingStart
    MaxUpsets = 2
    MaxFaults = 1
INVARIANTS TypeOK RestRendered RestTold
CHECK_DEADLOCK FALSE
