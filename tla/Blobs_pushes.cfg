\* Two repositories, wrong bodies that come with nobody else pushing the digest.
SPECIFICATION Spec
CONSTANTS
    c0 = c0
    c2 = c2
    Request = {r1, r2}
    Repo = {p1, p2}
    Content = {c0, c2}
    NoContent = NoContent
    NoEnd = NoEnd
    ByteRange <- MCByteRange
    Size <- MCSize
    Algorithm = {"sha256"}
    Overlap = "honest"
    Faults = {"drop", "crash"}
SYMMETRY Symmetry
INVARIANTS
    TypeOK
    LinkedBlobIntact
    ServedBlobIntact
    RangeExact
    HonestBodiesAgree
PROPERTIES
    ImplementsLinkTable
CHECK_DEADLOCK FALSE
