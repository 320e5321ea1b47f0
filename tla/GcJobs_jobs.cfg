\* Two requests at a time and every fault.
SPECIFICATION FairSpec
CONSTANTS
    Request = {r1, r2}
    Job = {j1, j2, j3}
    NoJob = NoJob
    Faults = {"drop", "gc", "mark", "crash"}
INVARIANTS
    TypeOK
    AtMostOneActive
    OneCollector
PROPERTIES
    JobEnds
    ImplementsJobLifecycle
CHECK_DEADLOCK FALSE
