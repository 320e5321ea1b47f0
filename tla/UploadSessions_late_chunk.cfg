\* A PATCH that is still writing when the session is completed.
SPECIFICATION Spec
CONSTANTS
    Request = {r1, r2}
    Upload = {u1}
    Repo = {p1}
    Block = {x}
    Zero = x
    Algorithm = {"sha256"}
    MaxBlocks = 1
    NoDigest = NoDigest
    Serial = FALSE
    Faults = {"drop"}
INVARIANTS
    LinkedBlobIntact
CHECK_DEADLOCK FALSE
