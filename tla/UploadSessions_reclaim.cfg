\* Sessions given up by their clients, under the fairness of the scheduler.
SPECIFICATION FairSpec
CONSTANTS
    Request = {r1}
    Upload = {u1, u2}
    Repo = {p1}
    Block = {x}
    Zero = x
    Algorithm = {"sha256"}
    MaxBlocks = 1
    NoDigest = NoDigest
    Serial = TRUE
    Faults = {"drop", "fs", "crash"}
PROPERTIES
    AbandonedSessionReclaimed
CHECK_DEADLOCK FALSE
