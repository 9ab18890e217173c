\* A configuration comes back.
SPECIFICATION Spec
CONSTANTS
    Configs = {a, b}
    Pods = {p, q}
    None = None
    HasServerRef = TRUE
    Environment = {"revert"}
    MaxUpsets = 1
    MaxFaults = 0
SYMMETRY Symmetry
INVARIANT RestMeansLive
