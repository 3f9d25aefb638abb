SPECIFICATION CustomSpec
CONSTANTS
    Namespaces = {s1}
    Names = {a, b}
    Cluster = Cluster
    NoJob = NoJob
    Makers = {}
    Clients = {c1}
    MaxWrites = 3
SYMMETRY Symmetry
INVARIANT CustomClientsConverge
CHECK_DEADLOCK FALSE
