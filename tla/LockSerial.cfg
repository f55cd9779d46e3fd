SPECIFICATION FairSpec
CONSTANTS
    Pids = {p1, p2, p3}
    Inodes = {n1, n2}
    NoFile = NoFile
    NoPid = NoPid
    Overlap = FALSE
    MaxKills = 2
    MaxFaults = 1
    MaxAliens = 1
INVARIANTS TypeOK Exclusive
PROPERTIES StaleLockIsCleared
