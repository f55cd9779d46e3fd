SPECIFICATION Spec
CONSTANTS
    Pids = {p1, p2, p3}
    Inodes = {n1, n2, n3, n4}
    NoFile = NoFile
    NoPid = NoPid
    Overlap = TRUE
    MaxKills = 0
    MaxFaults = 0
    MaxAliens = 0
INVARIANTS Exclusive
