\* Two pods, one pod event, one failed call or restart, fresh configurations only.
SPECIFICATION Spec
CONSTANTS
    Configs = {a, b}
    Pods = {p, q}
    None = None
    HasServerRef = TRUE
    Environment = {"cmDelete", "evict"}
    MaxUpsets = 1
    MaxFaults = 1
SYMMETRY Symmetry
INVARIANTS TypeOK RestMeansLive SighupOnExpected
PROPERTY KeepsPromise
