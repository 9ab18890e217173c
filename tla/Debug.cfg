\* One run of nats-debug beside the operator.
SPECIFICATION DebugSpec
CONSTANTS
    Users = {u1}
    Overrides = {}
    Draws = {d1, d2, d3}
    None = None
    Environment = {"secretDelete"}
    MaxUpsets = 1
    MaxFaults = 0
    s1 = s1
    s2 = s2
    Servers = {s1, s2}
    Others <- MCOthers
    PageSize = 1
    Target = u1
    MaxMoves = 1
INVARIANTS DebugTypeOK ConnectedIsTrue SteadyClientFound AlarmMeansTrouble TroubleShown
CHECK_DEADLOCK FALSE
