SPECIFICATION Spec
CONSTANTS
    Users = {u1}
    Overrides = {o1}
    Draws = {d1, d2, d3, d4, d5}
    None = None
    Environment = {"recreate"}
    MaxUpsets = 2
    MaxFaults = 0
INVARIANTS SecretAtRest
