\* Two accounts and two users of one cluster.
SPECIFICATION FairSpec
CONSTANTS
    c1 = c1
    c2 = c2
    a1 = a1
    a2 = a2
    Clusters = {c1}
    Accounts = {a1, a2}
    Users = {1, 2}
    Name <- NameIsNumber
    None = None
    Specs <- SharedSpecs
    Start <- SharedStart
    MaxUpsets = 1
    MaxFaults = 1
PROPERTIES Settles ConflictTold Deterministic
CHECK_DEADLOCK FALSE
