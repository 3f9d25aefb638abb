SPECIFICATION MCSpec
CONSTANTS
    Namespaces = {s1, s2}
    Names = {a, b}
    Cluster = Cluster
    NoJob = NoJob
    Makers = {m1}
    Clients = {c1}
    MaxWrites = 3
SYMMETRY Symmetry
CONSTRAINT InFocus
INVARIANTS StreamsTellAll ClientsConverge
CHECK_DEADLOCK FALSE
