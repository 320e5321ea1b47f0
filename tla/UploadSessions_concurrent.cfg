\* Requests of one session overlap freely; every fault.
SPECIFICATION Spec
CONSTANTS
    Request = {r1, r2}
    Upload = {u1}
    Repo = {p1, p2}
    Block = {x}
    Zero = x
    Algorithm = {"sha256", "sha512"}
    MaxBlocks = 1
    NoDigest = NoDigest
    Serial = FALSE
    Faults = {"drop", "fs", "gc", "push", "crash"}
SYMMETRY Symmetry
INVARIANTS
    TypeOK
    OffsetCovered
    SessionHasFile
    OneFinalizer
PROPERTIES
    ClosedStaysClosed
CHECK_DEADLOCK FALSE
