\* A session used again while a collection is under way.
SPECIFICATION Spec
CONSTANTS
    Request = {r1}
    Upload = {u1}
    Repo = {p1}
    Block = {x}
    Zero = x
    Algorithm = {"sha256"}
    MaxBlocks = 1
    NoDigest = NoDigest
    Serial = TRUE
    Faults = {}
PROPERTIES
    GcSparesFreshSessions
CHECK_DEADLOCK FALSE
