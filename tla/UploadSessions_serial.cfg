\* One request of a session at a time; dropped requests, failing removals, crashes.
SPECIFICATION Spec
CONSTANTS
    Request = {r1, r2}
    Upload = {u1, u2}
    Repo = {p1}
    Block = {x}
    Zero = x
    Algorithm = {"sha256"}
    MaxBlocks = 1
    NoDigest = NoDigest
    Serial = TRUE
    Faults = {"drop", "fs", "crash"}
SYMMETRY Symmetry
INVARIANTS
    LinkedBlobIntact
    NoOrphanFile
PROPERTIES
    OffsetNeverDecreases
    ImplementsLinkTable
CHECK_DEADLOCK FALSE
