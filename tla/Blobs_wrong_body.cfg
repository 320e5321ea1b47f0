\* A wrong body cut off after it was stored, then two right ones at a time.
SPECIFICATION Spec
CONSTANTS
    c0 = c0
    c2 = c2
    Request = {r1, r2}
    Repo = {p1}
    Content = {c0, c2}
    NoContent = NoContent
    NoEnd = NoEnd
    ByteRange <- MCByteRange
    Size <- MCSize
    Algorithm = {"sha256"}
    Overlap = "honest"
    Faults = {"drop"}
SYMMETRY Symmetry
INVARIANTS
    LinkedBlobAlwaysIntact
CHECK_DEADLOCK FALSE
