SPECIFICATION FairSpec
CONSTANTS
    Users = {u1}
    Overrides = {o1}
    Draws = {d1, d2, d3, d4, d5}
    None = None
    Environment = {}
    MaxUpsets = 2
    MaxFaults = 2
INVARIANTS TypeOK RestServed PublishedKeyHeld
PROPERTIES KeyGeneratedOnce EventuallyServed
