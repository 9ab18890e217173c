\* Convergence of one pod.
SPECIFICATION FairSpec
CONSTANTS
    Configs = {a, b}
    Pods = {p}
    None = None
    HasServerRef = TRUE
    Environment = {"cmDelete", "evict"}
    MaxUpsets = 1
    MaxFaults = 1
PROPERTIES ServersConverge HashConverges ConfigMapConverges
