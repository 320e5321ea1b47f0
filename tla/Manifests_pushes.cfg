\* Pushes, pulls and deletes of an image and of an index of it.
SPECIFICATION Spec
CONSTANTS
    image = image
    index = index
    config = config
    layer = layer
    Request = {r1, r2}
    Repo = {p1}
    Blob = {config, layer}
    Manifest = {image, index}
    Tag = {t1}
    None = None
    Kind <- MCKind
    Refs <- MCRefs
    Subject <- MCSubject
    MaxPulls = 1
    Faults = {"drop", "crash"}
SYMMETRY Symmetry
INVARIANTS
    TypeOK
    TagsResolve
    RowsStored
    ReferrersExact
    ReferencesPresent
    ResolvedIsServed
PROPERTIES
    PullsKept
CHECK_DEADLOCK FALSE
