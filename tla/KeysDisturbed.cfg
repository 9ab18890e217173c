SPECIFICATION Spec
CONSTANTS
    Users = {u1}
    Overrides = {o1, o2}
    Draws = {d1, d2, d3, d4, d5}
    None = None
    Environment = {"recreate", "secretDelete", "rulesFail", "labels"}
    MaxUpsets = 2
    MaxFaults = 1
SYMMETRY Symmetry
INVARIANTS StatusTruthful
