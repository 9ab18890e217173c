\* Every disturbance.
SPECIFICATION Spec
CONSTANTS
    Configs = {a, b}
    Pods = {p}
    None = None
    HasServerRef = TRUE
    Environment = {"revert", "serverRef", "cmDelete", "cmEdit", "evict", "podLag"}
    MaxUpsets = 1
    MaxFaults = 1
SYMMETRY Symmetry
INVARIANT NoLostWork
